---------------------------- MODULE HostServices ----------------------------
(* dthost: the host builds the port and the services a file needs, starts,  *)
(* pauses and resumes them, and takes them down, while their threads run.   *)
(*                                                                          *)
(* Everything here is done by one caller (the player's event loop, or its   *)
(* prepare), step by step: ctl is where it is.  Its steps interleave with   *)
(* the threads of AudioService, VideoService and SubService.  Building may  *)
(* fail at any stage; the branches that clean up are the code's.            *)
EXTENDS AudioService, VideoService, SubService

CONSTANTS Files,      \* the kinds of file: sets of "audio", "video", "sub"
          MayFail     \* the stages of host_init that may fail

ASSUME HostAssumption ==
  /\ \A f \in Files : f \subseteq {"audio", "video", "sub"} /\ f \cap {"audio", "video"} # {}
  /\ MayFail \subseteq {"audio_decoder", "audio_output", "video_decoder", "video_output",
                        "sub_decoder", "sub_output"}

VARIABLES
  ctl,      \* where the host's caller is
  has,      \* has_audio, has_video, has_sub
  failed,   \* the stage that made host_init fail, or "none"
  port,     \* the port exists
  late_device   \* the audio device was opened after audio_output_stop read aoc

hostVars == <<ctl, has, failed, port, late_device>>
vars == <<hostVars, audioVars, videoVars, subVars>>

Quiet == {"ready", "gone"}

Init ==
  /\ AudioInit /\ VideoInit /\ SubInit
  /\ ctl = "port" /\ has \in Files /\ failed = "none" /\ port = FALSE /\ late_device = FALSE

\* The step of the caller from here to there that does what service says.
Goto(here, there) == alive /\ ctl = here /\ ctl' = there
OfAudio(act) == act /\ UNCHANGED <<videoVars, subVars>>
OfVideo(act) == act /\ UNCHANGED <<audioVars, subVars>>
OfSub(act) == act /\ UNCHANGED <<audioVars, videoVars>>
Idle == UNCHANGED <<audioVars, videoVars, subVars>>

AfterVideo == IF "audio" \in has THEN "audio_decoder" ELSE
              IF "sub" \in has THEN "sub_decoder" ELSE "end"
AfterAudio == IF "sub" \in has THEN "sub_decoder" ELSE "end"

-----------------------------------------------------------------------------
(* host_init: port, video, audio, subtitles, and the callbacks at the end   *)

init_port ==
  /\ Goto("port", IF "video" \in has THEN "video_decoder" ELSE AfterVideo)
  /\ port' = TRUE
  /\ UNCHANGED <<has, failed, late_device>> /\ Idle

\* A stage of building goes well, or fails and the clean-up begins.
Stage(here, there) == Goto(here, there) /\ UNCHANGED <<has, failed, port, late_device>>
StageFails(here, there) ==
  /\ here \in MayFail /\ Goto(here, there)
  /\ failed' = IF here \in {"sub_decoder", "sub_output"} THEN failed ELSE here
  /\ UNCHANGED <<has, port, late_device>>

init_video ==
  \/ Stage("video_decoder", "video_output") /\ OfVideo(video_decoder_init)
  \/ Stage("video_output", AfterVideo) /\ OfVideo(video_output_init)
  \/ StageFails("video_decoder", "drop_port") /\ OfVideo(video_decoder_init_fails)
  \/ StageFails("video_output", "drop_video") /\ OfVideo(video_init_undo)
  \/ Stage("drop_video", "drop_port") /\ OfVideo(video_decoder_stop)

init_audio ==
  \/ Stage("audio_decoder", "audio_output") /\ OfAudio(audio_decoder_init)
  \/ Stage("audio_output", "audio_loop") /\ OfAudio(audio_output_init)
  \/ Stage("audio_loop", AfterAudio) /\ OfAudio(audio_init_end)
  \/ StageFails("audio_decoder", "drop_port") /\ OfAudio(audio_decoder_init_fails)
  \/ StageFails("audio_output", "drop_audio") /\ OfAudio(audio_init_undo)
  \/ Stage("drop_audio", "drop_port") /\ OfAudio(audio_decoder_freed)

\* Without its subtitles the host goes on.
init_sub ==
  \/ Stage("sub_decoder", "sub_output") /\ OfSub(sub_decoder_init)
  \/ Stage("sub_output", "end") /\ OfSub(sub_output_init)
  \/ StageFails("sub_output", "drop_sub") /\ OfSub(sub_init_undo)
  \/ /\ "sub_decoder" \in MayFail /\ Goto("sub_decoder", "end")
     /\ has' = has \ {"sub"} /\ UNCHANGED <<failed, port, late_device>>
     /\ OfSub(sub_decoder_init_fails)
  \/ /\ Goto("drop_sub", "end")
     /\ has' = has \ {"sub"} /\ UNCHANGED <<failed, port, late_device>>
     /\ OfSub(sub_decoder_stop)

init_end == Stage("end", "ready") /\ Idle

\* ERR2 and ERR3: the port goes, and dthost_init frees the context.
drop_port ==
  /\ Goto("drop_port", "gone") /\ port' = FALSE
  /\ UNCHANGED <<has, failed, late_device>> /\ Idle

host_init == init_port \/ init_video \/ init_audio \/ init_sub \/ init_end \/ drop_port

-----------------------------------------------------------------------------
(* host_start, host_pause, host_resume: audio by command, video in place    *)

\* The caller's own state, unless it moves on.
Stay == UNCHANGED <<has, failed, port, late_device>>

\* A call begins with the audio service, or with the video service when there
\* is no other.
Call(audio_part, video_part) ==
  Goto("ready", IF "audio" \in has THEN audio_part ELSE video_part) /\ Stay

host_start ==
  \/ Call("start_audio", "start_video") /\ Idle
  \/ Goto("start_audio", "start_video") /\ Stay /\ OfAudio(dtaudio_send("START"))
  \/ /\ Goto("start_video", "start_sub") /\ Stay
     /\ IF "video" \in has THEN OfVideo(video_start) ELSE Idle
  \/ /\ Goto("start_sub", "ready") /\ Stay
     /\ IF "sub" \in has THEN OfSub(sub_start) ELSE Idle

host_pause ==
  \/ Call("pause_audio", "pause_video") /\ Idle
  \/ Goto("pause_audio", "pause_video") /\ Stay /\ OfAudio(dtaudio_send("PAUSE"))
  \/ /\ Goto("pause_video", "ready") /\ Stay
     /\ IF "video" \in has THEN OfVideo(video_pause) ELSE Idle

host_resume ==
  \/ Call("resume_audio", "resume_video") /\ Idle
  \/ Goto("resume_audio", "resume_video") /\ Stay /\ OfAudio(dtaudio_send("RESUME"))
  \/ /\ Goto("resume_video", "ready") /\ Stay
     /\ IF "video" \in has THEN OfVideo(video_resume) ELSE Idle

-----------------------------------------------------------------------------
(* host_stop: audio, video, subtitles, each joined before the next, then    *)
(* the port, and dthost_stop frees the context                              *)

stop_audio ==
  \/ Call("stop_audio", "stop_video") /\ Idle
  \/ Goto("stop_audio", "join_audio") /\ Stay /\ OfAudio(dtaudio_send("STOP"))
  \/ Goto("join_audio", "stop_video") /\ Stay /\ event_loop = "done" /\ Idle

stop_video ==
  \/ /\ Goto("stop_video", IF "video" \in has THEN "join_vo" ELSE "stop_sub") /\ Stay
     /\ IF "video" \in has THEN OfVideo(video_stop) ELSE Idle
  \/ Goto("join_vo", "join_vdec") /\ Stay /\ OfVideo(video_output_stop)
  \/ Goto("join_vdec", "stop_sub") /\ Stay /\ OfVideo(video_decoder_stop)

stop_sub ==
  \/ /\ Goto("stop_sub", IF "sub" \in has THEN "join_so" ELSE "stop_port") /\ Stay
     /\ IF "sub" \in has THEN OfSub(sub_stop) ELSE Idle
  \/ Goto("join_so", "join_sdec") /\ Stay /\ OfSub(sub_output_stop)
  \/ Goto("join_sdec", "stop_port") /\ Stay /\ OfSub(sub_decoder_stop)

stop_port ==
  /\ Goto("stop_port", "gone") /\ port' = FALSE
  /\ UNCHANGED <<has, failed, late_device>> /\ Idle

host_stop == stop_audio \/ stop_video \/ stop_sub \/ stop_port

-----------------------------------------------------------------------------
caller == host_init \/ host_start \/ host_pause \/ host_resume \/ host_stop

\* A step of one of a service's threads.
ByAudio(act) ==
  /\ act
  /\ late_device' = (late_device \/ (ao_status = "EXIT" /\ ~ao_seen /\ ao_device # "open"
                                     /\ ao_device' = "open"))
  /\ UNCHANGED <<ctl, has, failed, port, videoVars, subVars>>
ByVideo(act) == alive /\ act /\ UNCHANGED <<hostVars, audioVars, subVars>>
BySub(act) == alive /\ act /\ UNCHANGED <<hostVars, audioVars, videoVars>>

audio == ByAudio(AudioNext)
video == ByVideo(VideoNext)
sub == BySub(SubNext)
application == alive /\ OfVideo(vout_register_ext) /\ UNCHANGED hostVars

\* The context of the null device, once the output thread has moved from it and
\* freed it; the pointers that still name it are the thread's own voc and the
\* one video_output_stop read before.
Switched(voc) == voc = "null" /\ vo_ctx = "ext"

\* A context is used after it was freed: the thread renders with it, the stop
\* stops and frees it again, or the decoder asks a device that was stopped.
UsesFreed ==
  \/ vo_thread = "render" /\ vo_local \notin vo_open
  \/ ctl = "join_vo" /\ vo_thread = "done" /\ vo_seen \notin vo_open
  \/ adec_thread = "ask" /\ ao_device = "stopped"

\* What comes of that is undefined: it may pass, and the process may die of it.
dies ==
  /\ alive /\ UsesFreed /\ alive' = FALSE
  /\ UNCHANGED <<hostVars, videoVars, subVars, audio_state, audio_events, event_loop,
                 ao_status, ao_seen, audioOutVars, audioDecVars>>

Next == caller \/ audio \/ video \/ sub \/ application \/ dies

\* Threads that can run do.  The caller finishes what it began; whether and
\* what the player asks next is open.
CallerBusy == ctl \notin Quiet /\ caller
Fairness == /\ WF_vars(CallerBusy)
            /\ WF_vars(ByAudio(event_handle_loop)) /\ WF_vars(ByAudio(audio_output_thread))
            /\ WF_vars(ByAudio(audio_decode_loop))
            /\ WF_vars(ByVideo(video_output_thread)) /\ WF_vars(ByVideo(video_decode_loop))
            /\ WF_vars(BySub(sub_output_thread)) /\ WF_vars(BySub(sub_decode_loop))

Spec == Init /\ [][Next]_vars /\ Fairness

-----------------------------------------------------------------------------
\* Where the caller can be: building, quiet, in a call, stopping.
BuildPlaces == {"port", "video_decoder", "video_output", "drop_video", "audio_decoder",
                "audio_output", "audio_loop", "drop_audio", "sub_decoder", "sub_output",
                "drop_sub", "end", "drop_port"}
CallPlaces == {"start_audio", "start_video", "start_sub", "pause_audio", "pause_video",
               "resume_audio", "resume_video"}
StopPlaces == {"stop_audio", "join_audio", "stop_video", "join_vo", "join_vdec",
               "stop_sub", "join_so", "join_sdec", "stop_port"}
Stopping == ctl \in StopPlaces

TypeOK ==
  /\ AudioTypeOK /\ VideoTypeOK /\ SubTypeOK
  /\ ctl \in BuildPlaces \cup Quiet \cup CallPlaces \cup StopPlaces
  /\ has \subseteq {"audio", "video", "sub"} /\ failed \in {"none"} \cup MayFail
  /\ {port, late_device} \subseteq BOOLEAN

\* Everything the threads of a service work on is there as long as they run:
\* the PCM ring, the picture queue, the subtitle queue, the device a picture or
\* a subtitle is shown on, the device the decoder asks how much it holds.  It is
\* the order of the stops and the joins between them that gives this - except
\* that after a dynamic switch the output thread's own pointer, and the one a
\* stop had read by then, name the context that was freed (Switched), and that
\* a decoder which looked at the output before its EXIT asks the device after it.
UsesLive ==
  /\ ao_thread \in {"top", "write"} /\ ao_status # "IDLE" => pcm >= 0
  /\ adec_thread \in AdecRuns => pcm >= 0
  /\ adec_thread = "ask" /\ ao_status # "EXIT" => ao_device \in {"open", "paused"}
  /\ vo_thread \in {"top", "switch", "render"} =>
       /\ vo_queue >= 0 /\ vo_ctx \in vo_open
       /\ vo_local \in vo_open \/ Switched(vo_local)
  /\ ctl = "join_vo" => vo_seen \in vo_open \/ Switched(vo_seen)
  /\ vdec_thread \in {"read", "receive", "push"} => vo_queue >= 0
  /\ so_thread \in {"top", "render"} => so_queue >= 0 /\ so_open
  /\ sdec_thread \in {"read", "decode"} => so_queue >= 0

\* When the host's context is freed no thread is left that calls back into it,
\* no device is left open and the port is gone - unless audio failed to build,
\* which leaves the video threads behind, or a device was opened behind the back
\* of the stop (late_device; a video device the output thread switched to).
NothingOutlivesHost ==
  ctl = "gone" /\ failed \notin {"audio_decoder", "audio_output"} =>
    /\ ~AudioThreads /\ ~VideoThreads /\ ~SubThreads /\ ~port /\ ~so_open
    /\ ao_device \in {"open", "paused"} => late_device
    /\ vo_open # {} => vo_seen = "null" /\ vo_ctx = "ext"

\* What a thread works on outlives it, and no thread outlives the host: the two
\* together are what the order of stops and joins is for.
LivesNest == UsesLive /\ NothingOutlivesHost

\* video_output_thread moves to a device that was registered later, and shows
\* its pictures with that device's context.
ShowsOnItsDevice == vo_thread = "render" => vo_local \in vo_open

\* When the caller is back and audio has carried out its commands, audio and
\* video are in the same state: both wait, both play, or both are paused.
InStep ==
  ctl = "ready" /\ {"audio", "video"} \subseteq has /\ audio_events = <<>> /\ alive
    => audio_state = video_status

\* A paused output writes at most the piece of PCM it had already read.
PauseIsPrompt == late_writes <= 1

\* A stop ends: every thread notices, every join returns.
StopEnds == Stopping /\ alive ~> ctl = "gone" \/ ~alive
=============================================================================
