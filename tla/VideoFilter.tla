---------------------------- MODULE VideoFilter ----------------------------
(* dtvideo_filter.c with vf_ffmpeg.c, its only filter: what turns a decoded *)
(* picture into one of the size and pixel format the device wants.          *)
(*                                                                          *)
(* A filter is a record: its status, the parameters the device set (source  *)
(* size s and format sf, destination size d and format df), those the       *)
(* running context was made from, and whether the context it points to is   *)
(* alive.  A picture is a record too; whole says that every conversion read *)
(* it with the size and the format it really had.                           *)
EXTENDS TLC

NoFilter(para) == [status |-> "IDLE", para |-> para, made |-> para, vfc |-> "none"]

\* select_vf and ffmpeg_vf_init: vf_ffmpeg can do both things that may be
\* asked of it, and refuses when neither is.
need_process(para) == para.s # para.d \/ para.sf # para.df

\* The context a failed init frees stays in filter->vfc.
video_filter_init(f) ==
  IF need_process(f.para)
  THEN [f EXCEPT !.status = "RUNNING", !.made = f.para, !.vfc = "live"]
  ELSE [f EXCEPT !.vfc = "freed"]

\* It looks at the wrapper of a context that may be freed, but goes by the
\* status.
video_filter_stop(f) ==
  [f EXCEPT !.status = "IDLE", !.vfc = IF f.status = "RUNNING" THEN "freed" ELSE @]

video_filter_update(f) == video_filter_init(video_filter_stop(f))

convert_picture(para, pic) ==
  [size |-> para.d, fmt |-> para.df,
   whole |-> pic.whole /\ pic.size = para.s /\ pic.fmt = para.sf]

video_filter_process(f, pic) ==
  IF f.status = "IDLE" THEN pic ELSE convert_picture(f.made, pic)
=============================================================================
