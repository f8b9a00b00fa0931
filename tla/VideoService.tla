---------------------------- MODULE VideoService ----------------------------
(* dtvideo: the video service.  It has no event loop: the host's caller     *)
(* changes its state directly, while the decoder thread fills the picture   *)
(* queue and the output thread shows the pictures.                          *)
(*                                                                          *)
(* The device is there from video_output_init on.  When it is the null      *)
(* device and a real one is registered meanwhile, the output thread moves   *)
(* to it by itself ("dynamic switch vo"): it replaces vo->voc and keeps on  *)
(* using its own copy of the old pointer.                                   *)
(*                                                                          *)
(* A picture is one unit; when one is due is left open here (the clock is   *)
(* in HostClock), so a picture may be shown or dropped at any time.         *)
EXTENDS Integers

CONSTANT PictureQueue   \* VIDEO_OUT_MAX_COUNT

ASSUME VideoAssumption == PictureQueue \in Nat \ {0}

VARIABLES
  video_status,   \* vctx->video_status
  vo_status,      \* video_out.status
  vo_thread,      \* where video_output_thread is
  vo_ctx,         \* video_out.voc: the device it belongs to
  vo_local,       \* the output thread's own copy of it
  vo_seen,        \* voc as video_output_stop read it
  vo_open,        \* the devices that were initialised and not stopped
  vo_ext,         \* an external device is registered
  vdec_status,    \* video_dec.status
  vdec_thread,    \* where video_decode_loop is
  vo_queue        \* the length of the picture queue; -1 once freed

videoVars == <<video_status, vo_status, vo_thread, vo_ctx, vo_local, vo_seen, vo_open, vo_ext,
               vdec_status, vdec_thread, vo_queue>>
vdecVars == <<vdec_status, vdec_thread>>
voCtxVars == <<vo_ctx, vo_local, vo_seen, vo_open, vo_ext>>

VideoThreads == vo_thread \in {"top", "switch", "render"} \/ vdec_thread \in {"read", "receive", "push"}

VideoInit ==
  /\ video_status = "IDLE" /\ vo_status = "IDLE" /\ vo_thread = "none"
  /\ vo_ctx = "none" /\ vo_local = "none" /\ vo_seen = "none" /\ vo_open = {}
  /\ vo_ext \in BOOLEAN
  /\ vdec_status = "IDLE" /\ vdec_thread = "none" /\ vo_queue = -1

\* The application adds a device to the front of the list at any time.
vout_register_ext ==
  /\ ~vo_ext /\ vo_ext' = TRUE
  /\ UNCHANGED <<video_status, vo_status, vo_thread, vo_ctx, vo_local, vo_seen, vo_open,
                 vdecVars, vo_queue>>

\* select_vo_device(-1): the first of the list.
Selected == IF vo_ext THEN "ext" ELSE "null"

-----------------------------------------------------------------------------
(* Building, starting and stopping, in the caller's thread                  *)

video_decoder_init ==
  /\ video_status' = "INITING"
  /\ vdec_status' = "RUNNING" /\ vdec_thread' = "read" /\ vo_queue' = 0
  /\ UNCHANGED <<vo_status, vo_thread, voCtxVars>>

\* err1: no wrapper takes the format, or it refuses; nothing was started.
video_decoder_init_fails ==
  /\ video_status' = "INITING"
  /\ UNCHANGED <<vo_status, vo_thread, voCtxVars, vdecVars, vo_queue>>

\* The device is initialised (what that returns is not looked at), the thread
\* created, and the service is INITED.
video_output_init ==
  /\ vo_ctx' = Selected /\ vo_local' = Selected /\ vo_open' = vo_open \cup {Selected}
  /\ vo_status' = "IDLE" /\ vo_thread' = "top" /\ video_status' = "INITED"
  /\ UNCHANGED <<vo_seen, vo_ext, vdecVars, vo_queue>>

video_start ==
  /\ IF video_status = "INITED"
     THEN vo_status' = "RUNNING" /\ video_status' = "ACTIVE"
     ELSE UNCHANGED <<vo_status, video_status>>
  /\ UNCHANGED <<vo_thread, voCtxVars, vdecVars, vo_queue>>

\* mutant: whatever the state, the output pauses
video_pause_any ==
  /\ vo_status' = "PAUSE" /\ video_status' = "PAUSED"
  /\ UNCHANGED <<vo_thread, voCtxVars, vdecVars, vo_queue>>

video_pause ==
  /\ IF video_status = "ACTIVE"
     THEN vo_status' = "PAUSE" /\ video_status' = "PAUSED"
     ELSE UNCHANGED <<vo_status, video_status>>
  /\ UNCHANGED <<vo_thread, voCtxVars, vdecVars, vo_queue>>

video_resume ==
  /\ IF video_status = "PAUSED"
     THEN vo_status' = "RUNNING" /\ video_status' = "ACTIVE"
     ELSE UNCHANGED <<vo_status, video_status>>
  /\ UNCHANGED <<vo_thread, voCtxVars, vdecVars, vo_queue>>

\* video_stop up to the join in video_output_stop: voc is read first.
video_stop ==
  /\ video_status \in {"INITED", "ACTIVE", "PAUSED"}
  /\ vo_seen' = vo_ctx /\ vo_status' = "EXIT"
  /\ UNCHANGED <<video_status, vo_thread, vo_ctx, vo_local, vo_open, vo_ext, vdecVars, vo_queue>>

\* mutant: the decoder's queue is freed before the output thread was joined
video_output_stop_no_join ==
  /\ vo_open' = vo_open \ {vo_seen}
  /\ vdec_status' = "EXIT"
  /\ UNCHANGED <<video_status, vo_status, vo_thread, vo_ctx, vo_local, vo_seen, vo_ext,
                 vdec_thread, vo_queue>>

\* The output thread is gone: the device that was read is stopped and its
\* context freed; then video_decoder_stop up to its join.
video_output_stop ==
  /\ vo_thread = "done"
  /\ vo_open' = vo_open \ {vo_seen}
  /\ vdec_status' = "EXIT"
  /\ UNCHANGED <<video_status, vo_status, vo_thread, vo_ctx, vo_local, vo_seen, vo_ext,
                 vdec_thread, vo_queue>>

\* err2 of video_init stops the decoder it had started.
video_init_undo ==
  /\ vdec_status' = "EXIT"
  /\ UNCHANGED <<video_status, vo_status, vo_thread, voCtxVars, vdec_thread, vo_queue>>

\* The decoder thread is gone: the queue is freed, and with it every picture.
video_decoder_stop ==
  /\ vdec_thread = "done" /\ vo_queue' = -1
  /\ video_status' = IF video_status = "INITING" THEN video_status ELSE "STOPPED"
  /\ UNCHANGED <<vo_status, vo_thread, voCtxVars, vdecVars>>

-----------------------------------------------------------------------------
(* video_output_thread                                                      *)

vo_exit ==
  /\ vo_thread = "top" /\ vo_status = "EXIT"
  /\ vo_thread' = "done"
  /\ UNCHANGED <<video_status, vo_status, voCtxVars, vdecVars, vo_queue>>

\* The thread shows on the null device and finds a real one.
SwitchDue == vo_ctx = "null" /\ vo_ext

\* It has seen that it is to run, and does not look again before ...
vo_find ==
  /\ vo_thread = "top" /\ vo_status = "RUNNING" /\ SwitchDue
  /\ vo_thread' = "switch"
  /\ UNCHANGED <<video_status, vo_status, voCtxVars, vdecVars, vo_queue>>

\* ... vo->voc is replaced; the context the thread's own pointer names is freed.
vo_switch ==
  /\ vo_thread = "switch" /\ vo_thread' = "top"
  /\ vo_ctx' = "ext" /\ vo_open' = (vo_open \ {"null"}) \cup {"ext"}
  /\ UNCHANGED <<video_status, vo_status, vo_local, vo_seen, vo_ext, vdecVars, vo_queue>>

\* A picture is due: it is taken from the queue.
vo_take ==
  /\ vo_thread = "top" /\ vo_status = "RUNNING" /\ ~SwitchDue /\ vo_queue > 0
  /\ vo_queue' = vo_queue - 1 /\ vo_thread' = "render"
  /\ UNCHANGED <<video_status, vo_status, voCtxVars, vdecVars>>

\* It is shown and freed; or the next one is due as well, and it is dropped.
vo_render ==
  /\ vo_thread = "render" /\ vo_thread' = "top"
  /\ UNCHANGED <<video_status, vo_status, voCtxVars, vdecVars, vo_queue>>

video_output_thread == vo_exit \/ vo_find \/ vo_switch \/ vo_take \/ vo_render

-----------------------------------------------------------------------------
(* video_decode_loop                                                        *)

vdec_exit ==
  /\ vdec_thread = "read" /\ vdec_status = "EXIT"
  /\ vdec_thread' = "done"
  /\ UNCHANGED <<video_status, vo_status, vo_thread, voCtxVars, vdec_status, vo_queue>>

\* While the queue has room a packet is read, or the pending one sent again, or,
\* when there is none, the decoder is asked for what it still holds.
vdec_send ==
  /\ vdec_thread = "read" /\ vdec_status = "RUNNING" /\ vo_queue \in 0..PictureQueue - 1
  /\ vdec_thread' = "receive"
  /\ UNCHANGED <<video_status, vo_status, vo_thread, voCtxVars, vdec_status, vo_queue>>

\* The decoder has a picture, or none.
vdec_receive ==
  /\ vdec_thread = "receive" /\ vdec_thread' \in {"push", "read"}
  /\ UNCHANGED <<video_status, vo_status, vo_thread, voCtxVars, vdec_status, vo_queue>>

\* The wait for the other stream (AvStartup) ends at EXIT at the latest; the
\* picture then goes into the queue.
vdec_push ==
  /\ vdec_thread = "push"
  /\ vo_queue' = vo_queue + 1 /\ vdec_thread' = "read"
  /\ UNCHANGED <<video_status, vo_status, vo_thread, voCtxVars, vdec_status>>

video_decode_loop == vdec_exit \/ vdec_send \/ vdec_receive \/ vdec_push

VideoNext == video_output_thread \/ video_decode_loop

-----------------------------------------------------------------------------
VideoTypeOK ==
  /\ video_status \in {"IDLE", "INITING", "INITED", "ACTIVE", "PAUSED", "STOPPED"}
  /\ vo_status \in {"IDLE", "RUNNING", "PAUSE", "EXIT"}
  /\ vo_thread \in {"none", "top", "switch", "render", "done"}
  /\ {vo_ctx, vo_local, vo_seen} \subseteq {"none", "null", "ext"}
  /\ vo_open \subseteq {"null", "ext"} /\ vo_ext \in BOOLEAN
  /\ vdec_status \in {"IDLE", "RUNNING", "EXIT"}
  /\ vdec_thread \in {"none", "read", "receive", "push", "done"}
  /\ vo_queue \in -1..PictureQueue
=============================================================================
