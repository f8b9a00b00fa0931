---------------------------- MODULE MCPlayerOpen ----------------------------
(***************************************************************************)
(* The desktop build: file and curl streams, AAC and FFmpeg demuxers, the   *)
(* FFmpeg decoders, the null outputs.  The application has a hardware       *)
(* decoder, a video filter and a sound output.                              *)
(***************************************************************************)
EXTENDS PlayerOpen

P(kind, format, hw) == [kind |-> kind, format |-> format, hw |-> hw]

MCHandles ==
  [stream_file |-> P("stream", "file", FALSE), stream_curl |-> P("stream", "curl", FALSE),
   demuxer_aac |-> P("demuxer", "aac", FALSE), demuxer_ffmpeg |-> P("demuxer", Any, FALSE),
   ad_ffmpeg |-> P("ad", Any, FALSE), vd_ffmpeg |-> P("vd", Any, FALSE),
   sd_ffmpeg |-> P("sd", Any, FALSE), vo_null |-> P("vo", "null", FALSE),
   so_null |-> P("so", "null", FALSE), vf_ffmpeg |-> P("vf", Any, FALSE),
   vd_hw |-> P("vd", "h264", TRUE), ao_app |-> P("ao", "app", FALSE)]

MCPlugin == DOMAIN MCHandles

MCInternal ==
  [stream |-> <<"stream_file", "stream_curl">>, demuxer |-> <<"demuxer_aac", "demuxer_ffmpeg">>,
   ad |-> <<"ad_ffmpeg">>, ao |-> <<>>, vd |-> <<"vd_ffmpeg">>, vo |-> <<"vo_null">>,
   vf |-> <<"vf_ffmpeg">>, sd |-> <<"sd_ffmpeg">>, so |-> <<"so_null">>]

MCExternal == {"vd_hw", "ao_app"}

File(local, size, format, a, v, s) ==
  [local |-> local, readable |-> TRUE, size |-> size, format |-> format,
   ast |-> a, vst |-> v, sst |-> s, channels |-> 6, afmt |-> "aac", vfmt |-> "h264", sfmt |-> "ass"]

Para == [disable_audio |-> FALSE, disable_video |-> FALSE, disable_sub |-> FALSE,
         disable_avsync |-> FALSE, disable_hw_vcodec |-> FALSE,
         audio_index |-> -1, video_index |-> -1, sub_index |-> -1]

MCProbing == [demuxer_probe |-> TRUE]

MCJob ==
  {[file |-> File(TRUE, 7, "mkv", 2, 1, 1), para |-> [Para EXCEPT !.audio_index = 2, !.disable_hw_vcodec = TRUE],
    ini |-> [demuxer_probe |-> TRUE, nosub |-> TRUE]],
   [file |-> File(TRUE, 4, "aac", 1, 0, 0), para |-> Para,
    ini |-> [demuxer_probe |-> TRUE, stream_cache |-> TRUE]],
   [file |-> File(FALSE, 3, "mp4", 1, 1, 0), para |-> [Para EXCEPT !.disable_audio = TRUE],
    ini |-> [audio_index |-> 1]],
   [file |-> File(TRUE, 3, "mp4", 1, 1, 0), para |-> [Para EXCEPT !.audio_index = -2],
    ini |-> [novideo |-> TRUE]],
   [file |-> File(TRUE, 0, "none", 0, 0, 0), para |-> Para, ini |-> MCProbing],
   [file |-> File(TRUE, 1, "none", 0, 0, 0), para |-> Para, ini |-> MCProbing],
   [file |-> File(TRUE, 2, "mp3", 1, 1, 0), para |-> Para, ini |-> [noaudio |-> TRUE]]}

(* For the lists of plugins: a file the demuxer opens by itself and one     *)
(* that nothing can be made of.                                             *)
MCOther ==
  {[file |-> File(FALSE, 3, "mp4", 1, 1, 0), para |-> Para, ini |-> [audio_index |-> 1]],
   [file |-> File(TRUE, 2, "none", 0, 0, 0), para |-> Para, ini |-> MCProbing]}

(* What the application does: it plays two files and has a decoder of its  *)
(* own, or it has all its plugins and opens four files, one after another.  *)
(* The second file played is a short local one: that is enough for what may *)
(* have been left over from the first.                                      *)
MCJobs == MCJob \cup MCOther

MCSecond == {j \in MCJob : j.file.local /\ j.file.size \in 2..4}

VARIABLE application

Allowed ==
  \/ /\ application = "plays"
     /\ session <= 2 /\ job \in MCJob /\ (session = 2 => job \in MCSecond)
     /\ head["ao"] = Null
  \/ /\ application = "registers"
     /\ job \in MCOther

MCInit == Init /\ application \in {"plays", "registers"} /\ Allowed

MCNext == Next /\ UNCHANGED application /\ Allowed'

MCSpec == MCInit /\ [][MCNext]_<<vars, application>>

=============================================================================
