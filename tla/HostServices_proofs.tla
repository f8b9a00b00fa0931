------------------------- MODULE HostServices_proofs -------------------------
(* For queues and rings of every size, every kind of file and every stage   *)
(* of host_init that may fail: what a thread works on outlives the thread,  *)
(* no thread outlives the host, audio and video are in the same state when  *)
(* the caller is back, and a paused output writes once more at most.        *)
(*                                                                          *)
(* A service has no state that says how far it was built or taken down: the *)
(* place of the caller says it, with what failed.  Phase turns the two into *)
(* a name, and the invariant tells for each phase of a service which of its *)
(* threads run, what they will find, and what exists.                       *)
EXTENDS HostServices, SequenceTheorems, TLAPS

-----------------------------------------------------------------------------
(* The caller.                                                              *)

VideoPlaces == {"video_decoder", "video_output", "drop_video", "join_vo", "join_vdec"}
AudioPlaces == {"audio_decoder", "audio_output", "audio_loop", "drop_audio", "start_audio",
                "pause_audio", "resume_audio", "stop_audio", "join_audio"}
SubPlaces == {"sub_decoder", "sub_output", "drop_sub", "join_so", "join_sdec"}

\* Each place belongs to a service the file has, and to the stage that failed.
PlaceInv ==
  /\ ctl \in VideoPlaces => "video" \in has
  /\ ctl \in AudioPlaces => "audio" \in has
  /\ ctl \in SubPlaces => "sub" \in has
  /\ failed \in {"none", "video_decoder", "video_output", "audio_decoder", "audio_output"}
  /\ failed # "none" => ctl \in {"drop_video", "drop_audio", "drop_port", "gone"}
  /\ failed \in {"video_decoder", "video_output"} => "video" \in has
  /\ failed \in {"audio_decoder", "audio_output"} => "audio" \in has
  /\ ctl = "drop_video" => failed = "video_output"
  /\ ctl = "drop_audio" => failed = "audio_output"
  /\ ctl = "drop_port" => failed # "none"
  /\ ctl = "gone" => ~port

-----------------------------------------------------------------------------
(* The video service.                                                       *)

VideoPhase ==
  IF "video" \notin has \/ ctl \in {"port", "video_decoder"} \/ failed = "video_decoder"
    THEN "none"
  ELSE IF ctl = "video_output" THEN "half"
  ELSE IF ctl = "drop_video" THEN "dropping"
  ELSE IF failed = "video_output" THEN "dropped"
  ELSE IF ctl = "join_vo" THEN "stopping"
  ELSE IF ctl = "join_vdec" THEN "shown"
  ELSE IF ctl \in {"stop_sub", "join_so", "join_sdec", "stop_port"} THEN "stopped"
  ELSE IF ctl = "gone" /\ failed = "none" THEN "stopped"
  ELSE "up"

\* The status of the service and of its output.
VideoStatus ==
  \/ video_status = "INITED" /\ vo_status = "IDLE"
  \/ video_status = "ACTIVE" /\ vo_status = "RUNNING"
  \/ video_status = "PAUSED" /\ vo_status = "PAUSE"

VideoInv ==
  LET decodes == vdec_thread \in {"read", "receive", "push"}
      at(phases) == VideoPhase \in phases
  IN
  /\ at({"none", "half", "dropping", "dropped"}) =>
       vo_thread = "none" /\ vo_open = {} /\ vo_status = "IDLE"
  /\ at({"none"}) => vdec_thread = "none" /\ vo_queue = -1
  /\ at({"half", "up", "stopping"}) => decodes /\ vdec_status = "RUNNING" /\ vo_queue >= 0
  /\ at({"dropping", "shown"}) =>
       (decodes \/ vdec_thread = "done") /\ vdec_status = "EXIT" /\ vo_queue >= 0
  /\ at({"dropped", "stopped"}) => vdec_thread = "done" /\ vo_queue = -1
  /\ at({"up", "stopping"}) =>
       /\ vo_ctx \in {"null", "ext"} /\ vo_open = {vo_ctx}
       /\ vo_local = vo_ctx \/ Switched(vo_local)
  /\ at({"up"}) => /\ vo_thread \in {"top", "switch", "render"}
                   /\ VideoStatus
  /\ at({"stopping"}) =>
       /\ vo_thread \in {"top", "switch", "render", "done"} /\ vo_status = "EXIT"
       /\ vo_seen = vo_ctx \/ Switched(vo_seen)
  /\ at({"shown", "stopped"}) =>
       /\ vo_thread = "done"
       /\ vo_open # {} => vo_seen = "null" /\ vo_ctx = "ext"
  /\ vo_thread = "switch" => vo_ctx = "null" /\ vo_ext
  /\ vdec_thread \in {"receive", "push"} => vo_queue < PictureQueue

-----------------------------------------------------------------------------
(* The subtitle service.                                                    *)

SubPhase ==
  IF "sub" \notin has \/ failed # "none" \/ ctl = "sub_decoder" THEN "none"
  ELSE IF ctl \in BuildPlaces \ {"sub_output", "drop_sub", "end"} THEN "none"
  ELSE IF ctl = "sub_output" THEN "half"
  ELSE IF ctl = "drop_sub" THEN "dropping"
  ELSE IF ctl = "join_so" THEN "stopping"
  ELSE IF ctl = "join_sdec" THEN "shown"
  ELSE IF ctl \in {"stop_port", "gone"} THEN "stopped"
  ELSE "up"

SubInv ==
  LET decodes == sdec_thread \in {"read", "decode"}
      at(phases) == SubPhase \in phases
  IN
  /\ at({"none", "half", "dropping"}) => so_thread = "none" /\ ~so_open /\ so_status = "IDLE"
  /\ at({"none", "stopped"}) => sdec_thread \in {"none", "done"} /\ so_queue = -1
  /\ at({"half", "up", "stopping"}) => decodes /\ sdec_status = "RUNNING" /\ so_queue >= 0
  /\ at({"dropping", "shown"}) =>
       (decodes \/ sdec_thread = "done") /\ sdec_status = "EXIT" /\ so_queue >= 0
  /\ at({"up", "stopping"}) => so_open
  /\ at({"up"}) => so_thread \in {"top", "render"} /\ sub_status \in {"INITED", "ACTIVE"}
  /\ at({"up"}) => so_status # "EXIT"
  /\ at({"stopping"}) => so_thread \in {"top", "render", "done"} /\ so_status = "EXIT"
  /\ at({"shown", "stopped"}) => so_thread = "done" /\ ~so_open
  /\ sdec_thread = "decode" => so_queue < SubQueue

-----------------------------------------------------------------------------
(* The audio service.                                                       *)

AudioPhase ==
  IF "audio" \notin has \/ failed \in {"video_decoder", "video_output", "audio_decoder"}
    THEN "none"
  ELSE IF ctl \in {"port", "video_decoder", "video_output", "audio_decoder"} THEN "none"
  ELSE IF ctl = "audio_output" THEN "half"
  ELSE IF ctl = "drop_audio" THEN "dropping"
  ELSE IF failed = "audio_output" THEN "dropped"
  ELSE IF ctl = "audio_loop" THEN "output"
  ELSE "up"

\* Behind the join of the event loop.
AudioJoined == ctl \in (StopPlaces \ {"stop_audio", "join_audio"}) \cup {"gone"}

\* The same of the audio service.
AudioStatus ==
  \/ audio_state = "INITED" /\ ao_status = "IDLE"
  \/ audio_state = "ACTIVE" /\ ao_status = "RUNNING"
  \/ audio_state = "PAUSED" /\ ao_status = "PAUSE"

\* Of each phase, and once the event loop runs of each of its places.
AudioInv ==
  LET decodes == adec_thread \in AdecRuns
      at(phases) == AudioPhase \in phases
      loop(places) == AudioPhase = "up" /\ event_loop \in places
  IN
  /\ at({"none", "half", "dropping", "dropped"}) =>
       ao_thread = "none" /\ ao_device = "none" /\ ao_status = "IDLE"
  /\ at({"none", "half", "dropping", "dropped", "output"}) =>
       event_loop = "none" /\ audio_events = <<>>
  /\ at({"none"}) => adec_thread = "none" /\ pcm = -1
  /\ at({"half", "output"}) \/ loop({"run", "join_output"}) =>
       decodes /\ adec_status = "RUNNING" /\ pcm >= 0
  /\ at({"dropping"}) \/ loop({"join_decoder"}) =>
       (decodes \/ adec_thread = "done") /\ adec_status = "EXIT" /\ pcm >= 0
  /\ at({"dropped"}) \/ loop({"done"}) => adec_thread = "done" /\ pcm = -1
  /\ at({"output"}) => ao_thread = "top" /\ ao_device = "none" /\ ao_status = "IDLE"
  /\ at({"up"}) => event_loop \in {"run", "join_output", "join_decoder", "done"}
  /\ loop({"run"}) => /\ ao_thread \in {"top", "write", "done"}
                      /\ AudioStatus
  /\ loop({"join_output"}) =>
       /\ ao_thread \in {"top", "write", "done"} /\ ao_status = "EXIT"
       /\ ao_device \in {"open", "paused"} => ao_seen \/ late_device
  /\ loop({"join_decoder", "done"}) =>
       ao_thread = "done" /\ (ao_device \in {"open", "paused"} => late_device)

\* The loop leaves when it is told to stop, which is the last it is told.
StopInv ==
  /\ event_loop \in {"join_output", "join_decoder", "done"} =>
       audio_events = <<>> /\ (ctl = "join_audio" \/ AudioJoined)
  /\ AudioPhase = "up" /\ AudioJoined => event_loop = "done"
  /\ \A i \in 1 .. Len(audio_events) :
       audio_events[i] = "STOP" <=> ctl = "join_audio" /\ i = Len(audio_events)
  /\ ctl = "join_audio" /\ event_loop = "run" => audio_events # <<>>

\* A write of the PCM that was read before the pause is the only late one.
PauseInv ==
  /\ late_writes \in {0, 1}
  /\ audio_state = "PAUSED" =>
       /\ ao_status # "RUNNING"
       /\ late_writes = 1 => ao_thread # "write"

\* The device the decoder asks is there until the output was told to end; only
\* the event loop stops a device, and it tells the output first.
AskInv ==
  /\ adec_thread = "ask" => ao_device \in {"open", "paused", "stopped"}
  /\ ao_device = "stopped" => ao_status = "EXIT"

-----------------------------------------------------------------------------
(* Audio and video in step.                                                 *)

\* What a command makes of the state of either service.
Moved(state, command) ==
  IF state = "INITED" /\ command = "START" THEN "ACTIVE"
  ELSE IF state = "ACTIVE" /\ command = "PAUSE" THEN "PAUSED"
  ELSE IF state = "PAUSED" /\ command = "RESUME" THEN "ACTIVE"
  ELSE state

\* Where the call that is under way will have moved the video service.
Target ==
  IF ctl = "start_video" THEN Moved(video_status, "START")
  ELSE IF ctl = "pause_video" THEN Moved(video_status, "PAUSE")
  ELSE IF ctl = "resume_video" THEN Moved(video_status, "RESUME")
  ELSE video_status

States == {"INITED", "ACTIVE", "PAUSED"}

\* The states a service goes through, one command after the other, from state
\* to last.
Leads(state, commands, last) ==
  \E states \in [1 .. Len(commands) + 1 -> States] :
    /\ states[1] = state /\ states[Len(commands) + 1] = last
    /\ \A i \in 1 .. Len(commands) : states[i + 1] = Moved(states[i], commands[i])

Together == VideoPhase = "up" /\ ctl \notin StopPlaces /\ failed = "none"

\* The commands on their way lead audio where the video service is, or will be.
StepInv ==
  Together =>
    /\ ctl \in BuildPlaces => video_status = "INITED"
    /\ AudioPhase = "up" => Leads(audio_state, audio_events, Target)

IInv ==
  /\ TypeOK /\ PlaceInv /\ VideoInv /\ SubInv /\ AudioInv
  /\ StopInv /\ PauseInv /\ StepInv /\ AskInv

-----------------------------------------------------------------------------
(* A service that is in the same phase as before is as it was.              *)

LEMMA VideoKept ==
  ASSUME VideoInv, UNCHANGED videoVars, VideoPhase' = VideoPhase
  PROVE  VideoInv'
BY DEF VideoInv, videoVars, VideoStatus, Switched

LEMMA SubKept ==
  ASSUME SubInv, UNCHANGED subVars, SubPhase' = SubPhase
  PROVE  SubInv'
BY DEF SubInv, subVars

LEMMA AudioKept ==
  ASSUME AudioInv, UNCHANGED <<audioVars, late_device>>, AudioPhase' = AudioPhase
  PROVE  AudioInv'
BY DEF AudioInv, audioVars, AudioStatus

\* The phases depend on the caller alone.
LEMMA SamePhases ==
  ASSUME UNCHANGED <<ctl, has, failed>>
  PROVE  /\ VideoPhase' = VideoPhase /\ SubPhase' = SubPhase /\ AudioPhase' = AudioPhase
         /\ AudioJoined' = AudioJoined
BY DEF VideoPhase, SubPhase, AudioPhase, AudioJoined

-----------------------------------------------------------------------------
(* The threads.                                                             *)

LEMMA VideoThreadKeeps ==
  ASSUME TypeOK, VideoInv, VideoNext, UNCHANGED <<ctl, has, failed>>
  PROVE  VideoTypeOK' /\ VideoInv'
<1>1. VideoPhase' = VideoPhase
  BY SamePhases
<1> USE <1>1, VideoAssumption DEF TypeOK, VideoTypeOK, VideoInv, VideoStatus, Switched
<1>2. CASE vo_exit
  BY <1>2 DEF vo_exit, voCtxVars, vdecVars
<1>3. CASE vo_find
  BY <1>3 DEF vo_find, SwitchDue, voCtxVars, vdecVars
<1>4. CASE vo_switch
  BY <1>4 DEF vo_switch, vdecVars
<1>5. CASE vo_take
  BY <1>5 DEF vo_take, voCtxVars, vdecVars
<1>6. CASE vo_render
  BY <1>6 DEF vo_render, voCtxVars, vdecVars
<1>7. CASE vdec_exit
  BY <1>7 DEF vdec_exit, voCtxVars
<1>8. CASE vdec_send
  BY <1>8 DEF vdec_send, voCtxVars
<1>9. CASE vdec_receive
  BY <1>9 DEF vdec_receive, voCtxVars
<1>10. CASE vdec_push
  BY <1>10 DEF vdec_push, voCtxVars
<1> QED
  BY <1>2, <1>3, <1>4, <1>5, <1>6, <1>7, <1>8, <1>9, <1>10
  DEF VideoNext, video_output_thread, video_decode_loop

LEMMA SubThreadKeeps ==
  ASSUME TypeOK, SubInv, SubNext, UNCHANGED <<ctl, has, failed>>
  PROVE  SubTypeOK' /\ SubInv'
<1>1. SubPhase' = SubPhase
  BY SamePhases
<1> USE <1>1, SubAssumption DEF TypeOK, SubTypeOK, SubInv
<1>2. CASE sub_output_thread
  BY <1>2 DEF sub_output_thread, so_exit, so_take, so_render, sdecVars
<1>3. CASE sub_decode_loop
  BY <1>3 DEF sub_decode_loop, sdec_exit, sdec_read, sdec_decode, soVars
<1> QED BY <1>2, <1>3 DEF SubNext

LEMMA AudioThreadKeeps ==
  ASSUME TypeOK, AudioInv, audio
  PROVE  AudioTypeOK' /\ AudioInv'
<1>1. AudioPhase' = AudioPhase
  BY SamePhases DEF audio, ByAudio
<1> USE <1>1, AudioAssumption DEF TypeOK, AudioTypeOK, AudioInv, AudioStatus, AudioCommands, AdecRuns
<1>2. CASE audio_start
  BY <1>2 DEF audio, ByAudio, audio_start, Command, audioOutVars, audioDecVars
<1>3. CASE audio_pause
  BY <1>3 DEF audio, ByAudio, audio_pause, Command, audioDecVars
<1>4. CASE audio_resume
  <2>1. alive' \in BOOLEAN
    BY <1>4 DEF audio_resume
  <2>2. CASE audio_state = "PAUSED"
    <3>1. /\ ao_status' = "RUNNING" /\ audio_state' = "ACTIVE"
          /\ ao_device' = IF ao_device = "paused" THEN "open" ELSE ao_device
          /\ audio_events # <<>> /\ audio_events' = Tail(audio_events) /\ event_loop = "run"
          /\ UNCHANGED <<event_loop, ao_seen, ao_thread, ao_holds, late_writes, audioDecVars>>
      BY <1>4, <2>2 DEF audio_resume, Command
    <3> QED BY <2>1, <2>2, <3>1 DEF audioDecVars
  <2>3. CASE audio_state # "PAUSED"
    BY <1>4, <2>3 DEF audio_resume, Command, audioDecVars
  <2> QED BY <2>2, <2>3
<1>5. CASE audio_stop
  <2>1. ao_seen' \in BOOLEAN
    BY <1>5 DEF audio_stop
  <2> QED BY <1>5, <2>1 DEF audio, ByAudio, audio_stop, Command, audioOutVars, audioDecVars
<1>6. CASE audio_output_stop
  BY <1>6 DEF audio, ByAudio, audio_output_stop
<1>7. CASE audio_decoder_stop
  BY <1>7 DEF audio, ByAudio, audio_decoder_stop, AudioDecoderFreed, audioOutVars
<1>8. CASE ao_exit
  BY <1>8 DEF audio, ByAudio, ao_exit, audioDecVars
<1>9. CASE ao_read
  BY <1>9 DEF audio, ByAudio, ao_read
<1>10. CASE ao_open
  <2>1. late_device \/ (ao_status = "EXIT" /\ ~ao_seen) => late_device'
    BY <1>10 DEF audio, ByAudio, ao_open
  <2> QED BY <1>10, <2>1 DEF ao_open, audioDecVars
<1>11. CASE ao_open_fails
  BY <1>11 DEF audio, ByAudio, ao_open_fails, audioDecVars
<1>12. CASE ao_write
  BY <1>12 DEF audio, ByAudio, ao_write, audioDecVars
<1>13. CASE adec_exit
  BY <1>13 DEF audio, ByAudio, adec_exit, audioOutVars
<1>14. CASE adec_decode
  BY <1>14 DEF audio, ByAudio, adec_decode, audioOutVars
<1>15. CASE adec_put
  BY <1>15 DEF audio, ByAudio, adec_put, audioOutVars
<1>16. CASE adec_ask
  BY <1>16 DEF audio, ByAudio, adec_ask, audioOutVars
<1>17. CASE adec_asked
  BY <1>17 DEF audio, ByAudio, adec_asked, audioOutVars
<1> QED
  BY <1>2, <1>3, <1>4, <1>5, <1>6, <1>7, <1>8, <1>9, <1>10, <1>11, <1>12, <1>13, <1>14, <1>15,
     <1>16, <1>17
  DEF audio, ByAudio, AudioNext, event_handle_loop, audio_output_thread, audio_decode_loop

-----------------------------------------------------------------------------
(* The caller: its own state.                                               *)

CallerState == /\ ctl \in BuildPlaces \cup Quiet \cup CallPlaces \cup StopPlaces
               /\ has \subseteq {"audio", "video", "sub"} /\ failed \in {"none"} \cup MayFail
               /\ {port, late_device} \subseteq BOOLEAN

LEMMA CallerPlaces ==
  ASSUME TypeOK, PlaceInv, caller
  PROVE  CallerState' /\ PlaceInv'
<1> USE DEF CallerState, TypeOK, PlaceInv, BuildPlaces, Quiet, CallPlaces, StopPlaces,
            VideoPlaces, AudioPlaces, SubPlaces, Goto, Stage, StageFails, Stay, AfterVideo, AfterAudio
<1>1. CASE init_port
  BY <1>1 DEF init_port
<1>2. CASE init_video
  BY <1>2 DEF init_video
<1>3. CASE init_audio
  BY <1>3 DEF init_audio
<1>4. CASE init_sub
  BY <1>4 DEF init_sub
<1>5. CASE init_end \/ drop_port
  BY <1>5 DEF init_end, drop_port
<1>6. CASE host_start
  BY <1>6 DEF host_start, Call
<1>7. CASE host_pause
  BY <1>7 DEF host_pause, Call
<1>8. CASE host_resume
  BY <1>8 DEF host_resume, Call
<1>9. CASE stop_audio
  BY <1>9 DEF stop_audio, Call
<1>10. CASE stop_video
  BY <1>10 DEF stop_video
<1>11. CASE stop_sub
  BY <1>11 DEF stop_sub
<1>12. CASE stop_port
  BY <1>12 DEF stop_port
<1> QED
  BY <1>1, <1>2, <1>3, <1>4, <1>5, <1>6, <1>7, <1>8, <1>9, <1>10, <1>11, <1>12
  DEF caller, host_init, host_stop

-----------------------------------------------------------------------------
(* The caller: what it does to the video service.                           *)

\* Most of its steps leave the service alone, and in its phase.
LEMMA VideoElsewhere ==
  ASSUME PlaceInv, TypeOK,
         init_port \/ init_audio \/ init_sub \/ init_end \/ drop_port
           \/ stop_audio \/ stop_sub \/ stop_port
  PROVE  UNCHANGED videoVars /\ VideoPhase' = VideoPhase
<1> USE DEF PlaceInv, TypeOK, VideoPhase, Goto, Stage, StageFails, Stay, AfterVideo, AfterAudio, Idle,
            VideoPlaces, AudioPlaces, SubPlaces, OfAudio, OfSub
<1>1. CASE init_port
  BY <1>1 DEF init_port
<1>2. CASE init_audio
  BY <1>2 DEF init_audio
<1>3. CASE init_sub
  BY <1>3 DEF init_sub
<1>4. CASE init_end \/ drop_port
  BY <1>4 DEF init_end, drop_port
<1>5. CASE stop_audio
  BY <1>5 DEF stop_audio, Call
<1>6. CASE stop_sub
  BY <1>6 DEF stop_sub
<1>7. CASE stop_port
  BY <1>7 DEF stop_port
<1> QED BY <1>1, <1>2, <1>3, <1>4, <1>5, <1>6, <1>7

LEMMA VideoBuilt ==
  ASSUME TypeOK, PlaceInv, VideoInv, init_video
  PROVE  VideoTypeOK' /\ VideoInv'
<1> USE VideoAssumption
    DEF TypeOK, VideoTypeOK, PlaceInv, VideoInv, Switched, VideoStatus, VideoPhase, Goto, Stage, StageFails,
        OfVideo, AfterVideo, VideoPlaces, AudioPlaces, SubPlaces, voCtxVars, vdecVars
<1>1. CASE Stage("video_decoder", "video_output") /\ OfVideo(video_decoder_init)
  BY <1>1 DEF video_decoder_init
<1>2. CASE Stage("video_output", AfterVideo) /\ OfVideo(video_output_init)
  BY <1>2 DEF video_output_init, Selected
<1>3. CASE StageFails("video_decoder", "drop_port") /\ OfVideo(video_decoder_init_fails)
  BY <1>3 DEF video_decoder_init_fails
<1>4. CASE StageFails("video_output", "drop_video") /\ OfVideo(video_init_undo)
  BY <1>4 DEF video_init_undo
<1>5. CASE Stage("drop_video", "drop_port") /\ OfVideo(video_decoder_stop)
  BY <1>5 DEF video_decoder_stop
<1> QED BY <1>1, <1>2, <1>3, <1>4, <1>5 DEF init_video

LEMMA VideoCalled ==
  ASSUME TypeOK, PlaceInv, VideoInv, host_start \/ host_pause \/ host_resume
  PROVE  VideoTypeOK' /\ VideoInv'
<1>1. VideoPhase' = VideoPhase
  BY DEF host_start, host_pause, host_resume, Call, Goto, Stay, VideoPhase
<1>2. CASE UNCHANGED videoVars
  BY <1>1, <1>2, VideoKept DEF TypeOK, VideoTypeOK, videoVars
<1>3. CASE "video" \in has /\ ctl \in CallPlaces /\ (video_start \/ video_pause \/ video_resume)
  BY <1>1, <1>3 DEF TypeOK, VideoTypeOK, PlaceInv, VideoInv, Switched, VideoStatus, VideoPhase, CallPlaces,
     video_start, video_pause, video_resume, voCtxVars, vdecVars
<1> QED
  BY <1>2, <1>3 DEF host_start, host_pause, host_resume, Call, Goto, CallPlaces, OfVideo, OfAudio,
     OfSub, Idle

LEMMA VideoStopped ==
  ASSUME TypeOK, PlaceInv, VideoInv, stop_video
  PROVE  VideoTypeOK' /\ VideoInv'
<1>1. CASE "video" \in has /\ ctl = "stop_video"
  BY <1>1 DEF TypeOK, VideoTypeOK, PlaceInv, VideoInv, Switched, VideoStatus, VideoPhase, stop_video, Goto, Stay,
     OfVideo, video_stop, vdecVars
<1>2. CASE "video" \notin has
  <2>1. UNCHANGED videoVars /\ VideoPhase' = VideoPhase
    BY <1>2 DEF PlaceInv, VideoPhase, VideoPlaces, stop_video, Goto, Stay, Idle
  <2> QED BY <2>1, VideoKept DEF TypeOK, VideoTypeOK, videoVars
<1>3. CASE "video" \in has /\ ctl = "join_vo"
  BY <1>3 DEF TypeOK, VideoTypeOK, PlaceInv, VideoInv, Switched, VideoPhase, stop_video, Goto, Stay,
     OfVideo, video_output_stop
<1>4. CASE "video" \in has /\ ctl = "join_vdec"
  <2>1. /\ ctl' = "stop_sub" /\ UNCHANGED <<has, failed>> /\ failed = "none"
        /\ video_decoder_stop
    BY <1>4 DEF PlaceInv, stop_video, Goto, Stay, OfVideo
  <2> QED
    BY <1>4, <2>1, VideoAssumption
    DEF TypeOK, VideoTypeOK, VideoInv, Switched, VideoPhase, video_decoder_stop, voCtxVars, vdecVars
<1> QED BY <1>1, <1>2, <1>3, <1>4 DEF stop_video, Goto

LEMMA CallerVideo ==
  ASSUME TypeOK, PlaceInv, VideoInv, caller
  PROVE  VideoTypeOK' /\ VideoInv'
<1>1. CASE UNCHANGED videoVars /\ VideoPhase' = VideoPhase
  BY <1>1, VideoKept DEF TypeOK, VideoTypeOK, videoVars
<1> QED
  BY <1>1, VideoElsewhere, VideoBuilt, VideoCalled, VideoStopped DEF caller, host_init, host_stop

-----------------------------------------------------------------------------
(* The caller: what it does to the subtitle service.                        *)

LEMMA SubElsewhere ==
  ASSUME PlaceInv, TypeOK,
         init_port \/ init_video \/ init_audio \/ init_end \/ drop_port
           \/ host_pause \/ host_resume \/ stop_audio \/ stop_video \/ stop_port
  PROVE  UNCHANGED subVars /\ SubPhase' = SubPhase
<1> USE DEF PlaceInv, TypeOK, SubPhase, BuildPlaces, Goto, Stage, StageFails, Stay, AfterVideo,
            AfterAudio, Idle, VideoPlaces, AudioPlaces, SubPlaces, OfAudio, OfVideo
<1>1. CASE init_port
  BY <1>1 DEF init_port
<1>2. CASE init_video
  BY <1>2 DEF init_video
<1>3. CASE init_audio
  BY <1>3 DEF init_audio
<1>4. CASE init_end \/ drop_port
  BY <1>4 DEF init_end, drop_port
<1>5. CASE host_pause \/ host_resume
  BY <1>5 DEF host_pause, host_resume, Call
<1>6. CASE stop_audio
  BY <1>6 DEF stop_audio, Call
<1>7. CASE stop_video
  BY <1>7 DEF stop_video
<1>8. CASE stop_port
  BY <1>8 DEF stop_port
<1> QED BY <1>1, <1>2, <1>3, <1>4, <1>5, <1>6, <1>7, <1>8

LEMMA SubBuilt ==
  ASSUME TypeOK, PlaceInv, SubInv, init_sub
  PROVE  SubTypeOK' /\ SubInv'
<1> USE SubAssumption
    DEF TypeOK, SubTypeOK, PlaceInv, SubInv, SubPhase, BuildPlaces, SubPlaces, Goto, Stage, StageFails,
        OfSub, soVars, sdecVars
<1>1. CASE Stage("sub_decoder", "sub_output") /\ OfSub(sub_decoder_init)
  BY <1>1 DEF sub_decoder_init
<1>2. CASE Stage("sub_output", "end") /\ OfSub(sub_output_init)
  BY <1>2 DEF sub_output_init
<1>3. CASE StageFails("sub_output", "drop_sub") /\ OfSub(sub_init_undo)
  BY <1>3 DEF sub_init_undo
<1>4. CASE ctl = "sub_decoder" /\ ctl' = "end" /\ has' = has \ {"sub"} /\ sub_decoder_init_fails
  BY <1>4 DEF sub_decoder_init_fails
<1>5. CASE /\ ctl = "drop_sub" /\ ctl' = "end" /\ has' = has \ {"sub"} /\ failed' = failed
           /\ sub_decoder_stop
  BY <1>5 DEF sub_decoder_stop
<1> HIDE DEF TypeOK, SubTypeOK, PlaceInv, SubInv, SubPhase, Stage, StageFails
<1> QED BY <1>1, <1>2, <1>3, <1>4, <1>5 DEF init_sub

LEMMA SubStarted ==
  ASSUME TypeOK, PlaceInv, SubInv, host_start
  PROVE  SubTypeOK' /\ SubInv'
<1>1. SubPhase' = SubPhase
  BY DEF host_start, Call, Goto, Stay, SubPhase, BuildPlaces
<1>2. CASE UNCHANGED subVars
  BY <1>1, <1>2, SubKept DEF TypeOK, SubTypeOK, subVars
<1>3. CASE "sub" \in has /\ ctl = "start_sub" /\ sub_start
  BY <1>1, <1>3 DEF TypeOK, SubTypeOK, PlaceInv, SubInv, SubPhase, BuildPlaces, sub_start, sdecVars
<1> QED BY <1>2, <1>3 DEF host_start, Call, Goto, OfVideo, OfAudio, OfSub, Idle

LEMMA SubStopped ==
  ASSUME TypeOK, PlaceInv, SubInv, stop_sub
  PROVE  SubTypeOK' /\ SubInv'
<1>1. CASE "sub" \in has /\ ctl = "stop_sub"
  <2>1. /\ ctl' = "join_so" /\ UNCHANGED <<has, failed>> /\ failed = "none" /\ sub_stop
    BY <1>1 DEF PlaceInv, stop_sub, Goto, Stay, OfSub
  <2> QED BY <1>1, <2>1 DEF TypeOK, SubTypeOK, SubInv, SubPhase, BuildPlaces, sub_stop, sdecVars
<1>2. CASE "sub" \notin has
  <2>1. UNCHANGED subVars /\ SubPhase' = SubPhase
    BY <1>2 DEF PlaceInv, SubPhase, SubPlaces, stop_sub, Goto, Stay, Idle
  <2> QED BY <2>1, SubKept DEF TypeOK, SubTypeOK, subVars
<1>3. CASE "sub" \in has /\ ctl = "join_so"
  <2>1. /\ ctl' = "join_sdec" /\ UNCHANGED <<has, failed>> /\ failed = "none" /\ sub_output_stop
    BY <1>3 DEF PlaceInv, stop_sub, Goto, Stay, OfSub
  <2> QED BY <1>3, <2>1 DEF TypeOK, SubTypeOK, SubInv, SubPhase, BuildPlaces, sub_output_stop
<1>4. CASE "sub" \in has /\ ctl = "join_sdec"
  <2>1. /\ ctl' = "stop_port" /\ UNCHANGED <<has, failed>> /\ failed = "none" /\ sub_decoder_stop
    BY <1>4 DEF PlaceInv, stop_sub, Goto, Stay, OfSub
  <2> QED
    BY <1>4, <2>1, SubAssumption
    DEF TypeOK, SubTypeOK, SubInv, SubPhase, BuildPlaces, sub_decoder_stop, soVars, sdecVars
<1> QED BY <1>1, <1>2, <1>3, <1>4 DEF stop_sub, Goto

LEMMA CallerSub ==
  ASSUME TypeOK, PlaceInv, SubInv, caller
  PROVE  SubTypeOK' /\ SubInv'
<1>1. CASE UNCHANGED subVars /\ SubPhase' = SubPhase
  BY <1>1, SubKept DEF TypeOK, SubTypeOK, subVars
<1> QED
  BY <1>1, SubElsewhere, SubBuilt, SubStarted, SubStopped DEF caller, host_init, host_stop

-----------------------------------------------------------------------------
(* The caller: what it does to the audio service.                           *)

LEMMA AudioElsewhere ==
  ASSUME PlaceInv, TypeOK,
         init_port \/ init_video \/ init_sub \/ init_end \/ drop_port
           \/ stop_video \/ stop_sub \/ stop_port
  PROVE  UNCHANGED <<audioVars, late_device>> /\ AudioPhase' = AudioPhase
<1> USE DEF PlaceInv, TypeOK, AudioPhase, Goto, Stage, StageFails, Stay, AfterVideo, AfterAudio, Idle,
            VideoPlaces, AudioPlaces, SubPlaces, OfVideo, OfSub
<1>1. CASE init_port
  BY <1>1 DEF init_port
<1>2. CASE init_video
  BY <1>2 DEF init_video
<1>3. CASE init_sub
  BY <1>3 DEF init_sub
<1>4. CASE init_end \/ drop_port
  BY <1>4 DEF init_end, drop_port
<1>5. CASE stop_video
  BY <1>5 DEF stop_video
<1>6. CASE stop_sub
  BY <1>6 DEF stop_sub
<1>7. CASE stop_port
  BY <1>7 DEF stop_port
<1> QED BY <1>1, <1>2, <1>3, <1>4, <1>5, <1>6, <1>7

LEMMA AudioBuilt ==
  ASSUME TypeOK, PlaceInv, AudioInv, init_audio
  PROVE  AudioTypeOK' /\ AudioInv'
<1> USE AudioAssumption
    DEF TypeOK, AudioTypeOK, AdecRuns, PlaceInv, AudioInv, AudioPhase, AudioStatus, Goto, Stage, StageFails,
        OfAudio, AfterAudio, AudioPlaces, SubPlaces, audioOutVars, audioDecVars
<1>1. CASE Stage("audio_decoder", "audio_output") /\ OfAudio(audio_decoder_init)
  BY <1>1 DEF audio_decoder_init
<1>2. CASE Stage("audio_output", "audio_loop") /\ OfAudio(audio_output_init)
  BY <1>2 DEF audio_output_init
<1>3. CASE Stage("audio_loop", AfterAudio) /\ OfAudio(audio_init_end)
  BY <1>3 DEF audio_init_end
<1>4. CASE StageFails("audio_decoder", "drop_port") /\ OfAudio(audio_decoder_init_fails)
  BY <1>4 DEF audio_decoder_init_fails
<1>5. CASE StageFails("audio_output", "drop_audio") /\ OfAudio(audio_init_undo)
  BY <1>5 DEF audio_init_undo
<1>6. CASE Stage("drop_audio", "drop_port") /\ OfAudio(audio_decoder_freed)
  BY <1>6 DEF audio_decoder_freed, AudioDecoderFreed
<1> HIDE DEF TypeOK, AudioTypeOK, PlaceInv, AudioInv, AudioPhase, Stage, StageFails
<1> QED BY <1>1, <1>2, <1>3, <1>4, <1>5, <1>6 DEF init_audio

\* A call posts a command at most; with the first of a stop it waits for the
\* event loop to leave.
LEMMA AudioCalled ==
  ASSUME TypeOK, PlaceInv, AudioInv, host_start \/ host_pause \/ host_resume \/ stop_audio
  PROVE  AudioTypeOK' /\ AudioInv'
<1>1. AudioPhase' = AudioPhase /\ late_device' = late_device
  BY DEF host_start, host_pause, host_resume, stop_audio, Call, Goto, Stay, AudioPhase
<1>2. CASE UNCHANGED audioVars
  BY <1>1, <1>2, AudioKept DEF TypeOK, AudioTypeOK, audioVars
<1>3. CASE "audio" \in has /\ ctl \in AudioPlaces \cap (CallPlaces \cup StopPlaces)
           /\ \E command \in AudioCommands : dtaudio_send(command)
  <2>1. PICK command \in AudioCommands : dtaudio_send(command)
    BY <1>3
  <2>2. /\ audio_events' = Append(audio_events, command) /\ Len(audio_events) < MaxCommands
        /\ UNCHANGED <<audio_state, event_loop, ao_status, ao_seen, ao_thread, ao_holds, ao_device,
                       late_writes, adec_status, adec_thread, pcm, alive>>
    BY <2>1 DEF dtaudio_send, audioOutVars, audioDecVars
  <2>3. AudioPhase = "up"
    BY <1>3 DEF PlaceInv, AudioPhase, AudioPlaces, CallPlaces, StopPlaces
  <2>4. AudioTypeOK'
    BY <2>2, AudioAssumption DEF TypeOK, AudioTypeOK
  <2>5. AudioInv'
    BY <1>1, <2>2, <2>3 DEF AudioInv, AudioStatus
  <2> QED BY <2>4, <2>5
<1> QED
  BY <1>2, <1>3 DEF host_start, host_pause, host_resume, stop_audio, Call, Goto, CallPlaces, StopPlaces,
     AudioPlaces, OfVideo, OfAudio, OfSub, Idle, AudioCommands, PlaceInv

LEMMA CallerAudio ==
  ASSUME TypeOK, PlaceInv, AudioInv, caller
  PROVE  AudioTypeOK' /\ AudioInv'
<1>1. CASE UNCHANGED <<audioVars, late_device>> /\ AudioPhase' = AudioPhase
  BY <1>1, AudioKept DEF TypeOK, AudioTypeOK, audioVars
<1> QED
  BY <1>1, AudioElsewhere, AudioBuilt, AudioCalled DEF caller, host_init, host_stop

-----------------------------------------------------------------------------
(* The stop is the last command.                                            *)

\* What is left when the head of a queue is taken, and when one is added.
LEMMA Taken ==
  ASSUME NEW queue \in Seq(AudioCommands), queue # <<>>
  PROVE  /\ Len(queue) \in Nat \ {0} /\ Head(queue) = queue[1] /\ queue[1] \in AudioCommands
         /\ Len(Tail(queue)) = Len(queue) - 1 /\ (Tail(queue) = <<>> <=> Len(queue) = 1)
         /\ \A i \in 1 .. Len(queue) - 1 : Tail(queue)[i] = queue[i + 1]
<1>1. Tail(queue) \in Seq(AudioCommands) /\ Len(Tail(queue)) = Len(queue) - 1
  OBVIOUS
<1>2. Tail(queue) # <<>> => Len(Tail(queue)) \in Nat \ {0}
  BY <1>1, EmptySeq
<1>3. Tail(queue) = <<>> => Len(Tail(queue)) = 0
  BY EmptySeq
<1>4. Tail(queue) = <<>> <=> Len(queue) = 1
  BY <1>1, <1>2, <1>3
<1> QED BY <1>1, <1>4

LEMMA Added ==
  ASSUME NEW queue \in Seq(AudioCommands), NEW command \in AudioCommands
  PROVE  /\ Len(queue) \in Nat /\ Len(Append(queue, command)) = Len(queue) + 1
         /\ \A i \in 1 .. Len(queue) : Append(queue, command)[i] = queue[i]
         /\ Append(queue, command)[Len(queue) + 1] = command
         /\ Append(queue, command) # <<>>
OBVIOUS

\* There is an event loop when, and only when, the service is complete.
LEMMA LoopUp ==
  ASSUME AudioInv
  PROVE  /\ event_loop # "none" <=> AudioPhase = "up"
         /\ AudioPhase # "up" => audio_events = <<>>
         /\ event_loop = "run" => AudioStatus /\ ao_thread \in {"top", "write", "done"}
BY DEF AudioInv, AudioPhase

LEMMA StopKept ==
  ASSUME StopInv, UNCHANGED <<ctl, has, failed, event_loop, audio_events>>
  PROVE  StopInv'
BY SamePhases DEF StopInv

LEMMA AudioStop ==
  ASSUME TypeOK, AudioInv, StopInv, audio
  PROVE  StopInv'
<1>1. UNCHANGED <<ctl, has, failed>>
  BY DEF audio, ByAudio
<1>2. AudioPhase' = AudioPhase /\ AudioJoined' = AudioJoined
  BY <1>1, SamePhases
<1>3. ASSUME NEW command \in AudioCommands, Command(command)
      PROVE  /\ AudioPhase = "up" /\ event_loop = "run" /\ ~AudioJoined /\ AudioStatus
             /\ Len(audio_events) \in Nat \ {0} /\ audio_events[1] = command
             /\ Len(audio_events') = Len(audio_events) - 1
             /\ \A i \in 1 .. Len(audio_events') : audio_events'[i] = audio_events[i + 1]
             /\ command = "STOP" => ctl = "join_audio" /\ Len(audio_events) = 1 /\ audio_events' = <<>>
             /\ ctl = "join_audio" /\ command # "STOP" => audio_events' # <<>>
  <2>1. /\ event_loop = "run" /\ audio_events # <<>> /\ Head(audio_events) = command
        /\ audio_events' = Tail(audio_events) /\ audio_events \in Seq(AudioCommands)
    BY <1>3 DEF Command, TypeOK, AudioTypeOK
  <2>2. AudioPhase = "up" /\ ~AudioJoined /\ AudioStatus
    BY <2>1, LoopUp DEF StopInv
  <2>3. /\ Len(audio_events) \in Nat \ {0} /\ audio_events[1] = command
        /\ Len(audio_events') = Len(audio_events) - 1 /\ (audio_events' = <<>> <=> Len(audio_events) = 1)
        /\ \A i \in 1 .. Len(audio_events) - 1 : audio_events'[i] = audio_events[i + 1]
    BY <2>1, Taken
  <2>4. 1 \in 1 .. Len(audio_events)
    BY <2>3
  <2>5. command = "STOP" <=> ctl = "join_audio" /\ 1 = Len(audio_events)
    BY <2>3, <2>4 DEF StopInv
  <2> QED BY <2>1, <2>2, <2>3, <2>5
<1>4. CASE audio_start \/ audio_pause \/ audio_resume
  <2>1. PICK command \in AudioCommands \ {"STOP"} : Command(command)
    BY <1>4 DEF audio_start, audio_pause, audio_resume, AudioCommands
  <2>2. event_loop' = "run"
    BY <1>3, <1>4, <2>1 DEF audio_start, audio_pause, audio_resume
  <2> QED BY <1>1, <1>2, <1>3, <2>1, <2>2 DEF StopInv
<1>5. CASE audio_stop
  <2>1. Command("STOP") /\ "STOP" \in AudioCommands
    BY <1>5 DEF audio_stop, AudioCommands
  <2>2. audio_state \in {"INITED", "ACTIVE", "PAUSED"}
    BY <1>3, <2>1 DEF AudioStatus
  <2>3. event_loop' = "join_output"
    BY <1>5, <2>2 DEF audio_stop
  <2> QED BY <1>1, <1>2, <1>3, <2>1, <2>3 DEF StopInv
<1>6. CASE audio_output_stop \/ audio_decoder_stop
  BY <1>1, <1>2, <1>6 DEF StopInv, audio_output_stop, audio_decoder_stop
<1>7. CASE audio_output_thread \/ audio_decode_loop
  <2>1. UNCHANGED <<audio_events, event_loop>>
    BY <1>7 DEF audio_output_thread, audio_decode_loop, ao_exit, ao_read, ao_open, ao_open_fails,
       ao_write, adec_exit, adec_decode, adec_ask, adec_asked, adec_put
  <2> QED BY <1>1, <2>1, StopKept
<1> QED BY <1>4, <1>5, <1>6, <1>7 DEF audio, ByAudio, AudioNext, event_handle_loop

\* The caller stops the audio service once, and goes on when its loop has left.
LEMMA CallerCourse ==
  ASSUME PlaceInv, caller
  PROVE  /\ ctl = "stop_audio" =>
              ctl' = "join_audio" /\ dtaudio_send("STOP") /\ UNCHANGED <<has, failed>>
         /\ ctl = "join_audio" =>
              ctl' = "stop_video" /\ event_loop = "done" /\ UNCHANGED <<has, failed, audioVars>>
         /\ ctl # "stop_audio" => ctl' # "join_audio"
         /\ AudioJoined => AudioJoined' /\ AudioPhase' = AudioPhase /\ UNCHANGED audioVars
         /\ AudioJoined' => AudioJoined \/ ctl = "join_audio" \/ AudioPhase' # "up"
         /\ ctl # "stop_audio" =>
              \/ UNCHANGED audioVars
              \/ init_audio
              \/ \E command \in AudioCommands \ {"STOP"} : dtaudio_send(command)
<1> USE DEF Stage, StageFails, Goto, Stay, Call, AudioJoined, StopPlaces, AudioPhase, PlaceInv, AudioPlaces,
            OfVideo, OfSub, OfAudio, Idle, AfterVideo, AfterAudio, AudioCommands
<1>1. CASE init_port \/ init_video \/ init_sub \/ init_end \/ drop_port
  BY <1>1 DEF init_port, init_video, init_sub, init_end, drop_port
<1>2. CASE init_audio
  BY <1>2 DEF init_audio
<1>3. CASE host_start
  BY <1>3 DEF host_start
<1>4. CASE host_pause \/ host_resume
  BY <1>4 DEF host_pause, host_resume
<1>5. CASE stop_audio
  BY <1>5 DEF stop_audio
<1>6. CASE stop_video \/ stop_sub \/ stop_port
  BY <1>6 DEF stop_video, stop_sub, stop_port
<1> HIDE DEF Stage, StageFails, Goto, Stay, Call, AudioJoined, AudioPhase
<1> QED BY <1>1, <1>2, <1>3, <1>4, <1>5, <1>6 DEF caller, host_init, host_stop

LEMMA CallerStop ==
  ASSUME TypeOK, PlaceInv, AudioInv, StopInv, caller
  PROVE  StopInv'
<1>1. audio_events \in Seq(AudioCommands) /\ "STOP" \in AudioCommands
  BY DEF TypeOK, AudioTypeOK, AudioCommands
<1>2. CASE ctl = "stop_audio"
  <2>1. /\ ctl' = "join_audio" /\ UNCHANGED <<has, failed, event_loop>>
        /\ audio_events' = Append(audio_events, "STOP")
    BY <1>2, CallerCourse DEF dtaudio_send
  <2>2. AudioPhase = "up" /\ ~AudioJoined /\ ~AudioJoined'
    BY <1>2, <2>1 DEF AudioPhase, AudioJoined, StopPlaces, PlaceInv, AudioPlaces
  <2>3. event_loop = "run"
    BY <1>2, <2>2, LoopUp DEF StopInv, AudioInv
  <2> QED BY <1>1, <1>2, <2>1, <2>2, <2>3, Added DEF StopInv
<1>3. CASE ctl = "join_audio"
  <2>1. ctl' = "stop_video" /\ event_loop' = "done" /\ audio_events' = <<>>
    BY <1>3, CallerCourse DEF StopInv, audioVars
  <2> QED BY <2>1 DEF StopInv, AudioJoined, StopPlaces
<1>4. CASE AudioJoined
  BY <1>4, CallerCourse DEF StopInv, AudioJoined, StopPlaces, audioVars
<1>5. CASE ctl \notin {"stop_audio", "join_audio"} /\ ~AudioJoined
  <2>1. event_loop \in {"none", "run"}
    BY <1>5 DEF StopInv, TypeOK, AudioTypeOK
  <2>2. event_loop' \in {"none", "run"}
    BY <1>5, <2>1, CallerCourse
    DEF audioVars, dtaudio_send, init_audio, OfAudio, audio_decoder_init, audio_decoder_init_fails,
        audio_output_init, audio_init_end, audio_init_undo, audio_decoder_freed
  <2>3. \A i \in 1 .. Len(audio_events) : audio_events[i] # "STOP"
    BY <1>5 DEF StopInv
  <2>4. \/ UNCHANGED audio_events
        \/ \E command \in AudioCommands \ {"STOP"} : audio_events' = Append(audio_events, command)
    BY <1>5, CallerCourse
    DEF audioVars, dtaudio_send, init_audio, OfAudio, audio_decoder_init, audio_decoder_init_fails,
        audio_output_init, audio_init_end, audio_init_undo, audio_decoder_freed
  <2>5. \A i \in 1 .. Len(audio_events') : audio_events'[i] # "STOP"
    BY <1>1, <2>3, <2>4, Added
  <2> QED BY <1>5, <2>2, <2>5, CallerCourse DEF StopInv
<1> QED BY <1>2, <1>3, <1>4, <1>5

-----------------------------------------------------------------------------
(* A write after the pause.                                                 *)

LEMMA AudioPause ==
  ASSUME TypeOK, AudioInv, PauseInv, audio
  PROVE  PauseInv'
<1> USE DEF PauseInv
<1>1. CASE audio_start
  BY <1>1, LoopUp DEF audio_start, Command, audioOutVars, AudioStatus
<1>2. CASE audio_pause
  BY <1>2, LoopUp DEF audio_pause, Command, AudioStatus
<1>3. CASE audio_resume
  BY <1>3 DEF audio_resume
<1>4. CASE audio_stop
  BY <1>4 DEF audio_stop, audioOutVars
<1>5. CASE audio_output_stop \/ audio_decoder_stop
  BY <1>5 DEF audio_output_stop, audio_decoder_stop, audioOutVars
<1>6. CASE ao_exit \/ ao_read \/ ao_open \/ ao_open_fails
  BY <1>6 DEF ao_exit, ao_read, ao_open, ao_open_fails
<1>7. CASE ao_write
  BY <1>7 DEF ao_write
<1>8. CASE audio_decode_loop
  BY <1>8 DEF audio_decode_loop, adec_exit, adec_decode, adec_ask, adec_asked, adec_put, audioOutVars
<1> QED
  BY <1>1, <1>2, <1>3, <1>4, <1>5, <1>6, <1>7, <1>8
  DEF audio, ByAudio, AudioNext, event_handle_loop, audio_output_thread

LEMMA CallerPause ==
  ASSUME PlaceInv, AudioInv, PauseInv, caller
  PROVE  PauseInv'
<1>1. CASE UNCHANGED <<audio_state, ao_status, ao_thread, late_writes>>
  BY <1>1 DEF PauseInv
<1>2. CASE audio_state' # "PAUSED" /\ UNCHANGED late_writes
  BY <1>2 DEF PauseInv
<1>3. CASE ao_status' = "IDLE" /\ ao_thread' = "top" /\ UNCHANGED late_writes
  BY <1>3 DEF PauseInv
<1> QED
  BY <1>1, <1>2, <1>3, CallerCourse
  DEF audioVars, audioOutVars, dtaudio_send, init_audio, OfAudio, audio_decoder_init,
      audio_decoder_init_fails, audio_output_init, audio_init_end, audio_init_undo, audio_decoder_freed

-----------------------------------------------------------------------------
(* The device the decoder asks.                                             *)

LEMMA AudioAsk ==
  ASSUME TypeOK, AudioInv, AskInv, audio
  PROVE  AskInv'
<1> USE DEF AskInv
<1>1. CASE audio_start
  BY <1>1, LoopUp DEF audio_start, Command, audioOutVars, audioDecVars, AudioStatus
<1>2. CASE audio_pause
  BY <1>2, LoopUp DEF audio_pause, Command, audioDecVars, AudioStatus
<1>3. CASE audio_resume
  BY <1>3, LoopUp DEF audio_resume, Command, audioDecVars, AudioStatus
<1>4. CASE audio_stop
  BY <1>4 DEF audio_stop, audioOutVars, audioDecVars
<1>5. CASE audio_output_stop
  <2>1. event_loop = "join_output" /\ AudioPhase = "up"
    BY <1>5, LoopUp DEF audio_output_stop
  <2>2. ao_status = "EXIT"
    BY <2>1 DEF AudioInv
  <2> QED BY <1>5, <2>2 DEF audio_output_stop
<1>6. CASE audio_decoder_stop
  BY <1>6 DEF audio_decoder_stop, AudioDecoderFreed, audioOutVars
<1>7. CASE ao_exit \/ ao_read \/ ao_open \/ ao_open_fails \/ ao_write
  <2>1. UNCHANGED <<adec_thread, ao_status>>
    BY <1>7 DEF ao_exit, ao_read, ao_open, ao_open_fails, ao_write, audioDecVars
  <2>2. UNCHANGED ao_device \/ (ao_device = "none" /\ ao_device' \in {"none", "open", "failed"})
    BY <1>7 DEF ao_exit, ao_read, ao_open, ao_open_fails, ao_write
  <2> QED BY <2>1, <2>2
<1>8. CASE audio_decode_loop
  BY <1>8 DEF audio_decode_loop, adec_exit, adec_decode, adec_ask, adec_asked, adec_put, audioOutVars
<1> QED
  BY <1>1, <1>2, <1>3, <1>4, <1>5, <1>6, <1>7, <1>8
  DEF audio, ByAudio, AudioNext, event_handle_loop, audio_output_thread

LEMMA CallerAsk ==
  ASSUME PlaceInv, AudioInv, AskInv, caller
  PROVE  AskInv'
<1>1. CASE UNCHANGED <<adec_thread, ao_status, ao_device>>
  BY <1>1 DEF AskInv
<1>2. CASE init_audio
  <2>1. CASE ctl \in {"audio_decoder", "audio_output", "drop_audio"}
    <3>1. ao_device = "none"
      BY <2>1 DEF AudioInv, AudioPhase, PlaceInv, AudioPlaces
    <3> QED
      BY <1>2, <2>1, <3>1
      DEF AskInv, init_audio, Stage, StageFails, Goto, OfAudio, audio_decoder_init,
          audio_decoder_init_fails, audio_output_init, audio_init_undo, audio_decoder_freed,
          audioOutVars, audioDecVars
  <2>2. CASE ctl \notin {"audio_decoder", "audio_output", "drop_audio"}
    BY <1>1, <1>2, <2>2 DEF init_audio, Stage, StageFails, Goto, OfAudio, audio_init_end, audioOutVars, audioDecVars
  <2> QED BY <2>1, <2>2
<1>3. CASE UNCHANGED audioVars \/ \E command \in AudioCommands : dtaudio_send(command)
  BY <1>1, <1>3 DEF audioVars, dtaudio_send, audioOutVars, audioDecVars
<1> QED BY <1>2, <1>3, CallerCourse DEF AudioCommands

-----------------------------------------------------------------------------
(* Audio and video in step.                                                 *)

LEMMA LeadsTaken ==
  ASSUME NEW commands \in Seq(AudioCommands), commands # <<>>, NEW state, NEW last,
         Leads(state, commands, last)
  PROVE  Leads(Moved(state, Head(commands)), Tail(commands), last)
<1> DEFINE n == Len(commands)
<1>1. /\ n \in Nat \ {0} /\ Head(commands) = commands[1] /\ Len(Tail(commands)) = n - 1
      /\ \A i \in 1 .. n - 1 : Tail(commands)[i] = commands[i + 1]
  BY Taken
<1>2. PICK states \in [1 .. n + 1 -> States] :
        /\ states[1] = state /\ states[n + 1] = last
        /\ \A i \in 1 .. n : states[i + 1] = Moved(states[i], commands[i])
  BY DEF Leads
<1> DEFINE rest == [i \in 1 .. n |-> states[i + 1]]
<1> HIDE DEF n
<1>3. rest \in [1 .. n -> States] /\ rest[1] = states[2] /\ rest[n] = last
  BY <1>1, <1>2
<1>4. states[2] = Moved(state, commands[1])
  BY <1>1, <1>2
<1>5. \A i \in 1 .. n - 1 : rest[i + 1] = Moved(rest[i], Tail(commands)[i])
  BY <1>1, <1>2
<1> HIDE DEF rest
<1> QED BY <1>1, <1>3, <1>4, <1>5 DEF Leads

LEMMA LeadsAdded ==
  ASSUME NEW commands \in Seq(AudioCommands), NEW command \in AudioCommands, NEW state, NEW last,
         Leads(state, commands, last)
  PROVE  Leads(state, Append(commands, command), Moved(last, command))
<1> DEFINE n == Len(commands)
           more == Append(commands, command)
<1>1. /\ n \in Nat /\ Len(more) = n + 1 /\ more[n + 1] = command
      /\ \A i \in 1 .. n : more[i] = commands[i]
  BY Added
<1>2. PICK states \in [1 .. n + 1 -> States] :
        /\ states[1] = state /\ states[n + 1] = last
        /\ \A i \in 1 .. n : states[i + 1] = Moved(states[i], commands[i])
  BY DEF Leads
<1> DEFINE longer == [i \in 1 .. n + 2 |-> IF i = n + 2 THEN Moved(last, command) ELSE states[i]]
<1> HIDE DEF n, more
<1>3. last \in States /\ Moved(last, command) \in States
  BY <1>1, <1>2 DEF Moved, States
<1>4. /\ longer \in [1 .. (n + 1) + 1 -> States] /\ longer[1] = state
      /\ longer[(n + 1) + 1] = Moved(last, command) /\ longer[n + 1] = last
  BY <1>1, <1>2, <1>3
<1>5. ASSUME NEW i \in 1 .. n + 1
      PROVE  longer[i + 1] = Moved(longer[i], more[i])
  BY <1>1, <1>2, <1>4
<1> HIDE DEF longer
<1>6. \A i \in 1 .. n + 1 : longer[i + 1] = Moved(longer[i], more[i])
  BY <1>5
<1> QED BY <1>1, <1>4, <1>6 DEF Leads, more

LEMMA LeadsEmpty ==
  ASSUME NEW state, NEW last
  PROVE  Leads(state, <<>>, last) <=> state \in States /\ state = last
<1>1. ASSUME Leads(state, <<>>, last)
      PROVE  state \in States /\ state = last
  BY <1>1 DEF Leads
<1>2. ASSUME state \in States, state = last
      PROVE  Leads(state, <<>>, last)
  <2> DEFINE only == [i \in 1 .. 1 |-> state]
  <2>1. only \in [1 .. Len(<<>>) + 1 -> States] /\ only[1] = state /\ only[Len(<<>>) + 1] = last
    BY <1>2
  <2> HIDE DEF only
  <2> QED BY <2>1 DEF Leads
<1> QED BY <1>1, <1>2

LEMMA StepKept ==
  ASSUME StepInv, UNCHANGED <<audio_state, audio_events, video_status>>,
         Together' => Together, ctl' \in BuildPlaces => ctl \in BuildPlaces,
         AudioPhase' = "up" => AudioPhase = "up", Target' = Target
  PROVE  StepInv'
<1>1. Leads(audio_state, audio_events, Target)' <=> Leads(audio_state, audio_events, Target)
  BY DEF Leads
<1> QED BY <1>1 DEF StepInv

LEMMA AudioStep ==
  ASSUME TypeOK, AudioInv, StopInv, StepInv, audio
  PROVE  StepInv'
<1>1. /\ Together' = Together /\ AudioPhase' = AudioPhase /\ Target' = Target
      /\ UNCHANGED <<ctl, video_status>>
  BY SamePhases DEF audio, ByAudio, videoVars, Together, Target
<1>2. CASE UNCHANGED <<audio_state, audio_events>>
  BY <1>1, <1>2, StepKept
<1>3. CASE ~Together
  BY <1>1, <1>3 DEF StepInv
<1>4. ASSUME Together, audio_events # <<>>, AudioPhase = "up",
             audio_state' = Moved(audio_state, Head(audio_events)), audio_events' = Tail(audio_events)
      PROVE  StepInv'
  <2>1. Leads(audio_state', audio_events', Target)
    BY <1>4, LeadsTaken DEF StepInv, TypeOK, AudioTypeOK
  <2>2. Leads(audio_state, audio_events, Target)'
    BY <1>1, <2>1 DEF Leads
  <2> QED BY <1>1, <1>4, <2>2 DEF StepInv
<1>5. CASE audio_start \/ audio_pause \/ audio_resume
  <2>1. event_loop = "run" /\ audio_events # <<>> /\ audio_events' = Tail(audio_events)
    BY <1>5 DEF audio_start, audio_pause, audio_resume, Command
  <2>2. audio_state' = Moved(audio_state, Head(audio_events))
    BY <1>5 DEF audio_start, audio_pause, audio_resume, Command, Moved
  <2> QED BY <1>3, <1>4, <2>1, <2>2, LoopUp
<1>6. CASE audio_stop
  <2>1. /\ audio_events \in Seq(AudioCommands) /\ audio_events # <<>> /\ Head(audio_events) = "STOP"
    BY <1>6 DEF audio_stop, Command, TypeOK, AudioTypeOK
  <2>2. 1 \in 1 .. Len(audio_events) /\ audio_events[1] = "STOP"
    BY <2>1, Taken
  <2>3. ctl = "join_audio"
    BY <2>2 DEF StopInv
  <2> QED BY <1>3, <2>3 DEF Together, StopPlaces
<1>7. CASE audio_output_stop \/ audio_decoder_stop
  <2>1. ctl = "join_audio" \/ AudioJoined
    BY <1>7 DEF audio_output_stop, audio_decoder_stop, StopInv
  <2> QED BY <1>3, <2>1 DEF Together, StopPlaces, AudioJoined, VideoPhase
<1>8. CASE audio_output_thread \/ audio_decode_loop
  BY <1>2, <1>8 DEF audio_output_thread, audio_decode_loop, ao_exit, ao_read, ao_open, ao_open_fails,
     ao_write, adec_exit, adec_decode, adec_ask, adec_asked, adec_put
<1> QED BY <1>5, <1>6, <1>7, <1>8 DEF audio, ByAudio, AudioNext, event_handle_loop

\* The video service is INITED while the host is being built, and audio when
\* its event loop starts.
LEMMA BuildStep ==
  ASSUME TypeOK, PlaceInv, AudioInv, StepInv, host_init
  PROVE  StepInv'
<1>1. CASE ~Together'
  BY <1>1 DEF StepInv
<1>2. CASE ctl = "video_output" /\ Together'
  <2>1. video_status' = "INITED" /\ UNCHANGED <<has, failed>> /\ ctl' = AfterVideo
    BY <1>2 DEF host_init, init_port, init_video, init_audio, init_sub, init_end, drop_port, Stage,
       StageFails, Goto, OfVideo, video_output_init, Together, VideoPhase, PlaceInv
  <2>2. AudioPhase' # "up"
    BY <2>1, <1>2 DEF AudioPhase, AfterVideo, PlaceInv
  <2> QED BY <2>1, <2>2 DEF StepInv
<1>3. CASE ctl = "audio_loop" /\ Together'
  <2>1. audio_state' = "INITED" /\ UNCHANGED <<has, failed, video_status, audio_events>>
        /\ ctl' = AfterAudio /\ ctl' \notin {"start_video", "pause_video", "resume_video"}
    BY <1>3 DEF host_init, init_port, init_video, init_audio, init_sub, init_end, drop_port, Stage,
       StageFails, Goto, OfAudio, audio_init_end, AfterAudio, videoVars
  <2>2. Together /\ ctl \in BuildPlaces
    BY <1>3, <2>1 DEF Together, VideoPhase, StopPlaces, AfterAudio, BuildPlaces, PlaceInv
  <2>3. audio_events = <<>>
    BY <1>3 DEF AudioInv, AudioPhase, PlaceInv
  <2>4. video_status' = "INITED" /\ Target' = "INITED" /\ audio_events' = <<>>
    BY <2>1, <2>2, <2>3 DEF StepInv, Target
  <2>5. Leads("INITED", <<>>, "INITED")
    BY LeadsEmpty DEF States
  <2>6. Leads(audio_state, audio_events, Target)'
    BY <2>1, <2>4, <2>5 DEF Leads
  <2> QED BY <2>4, <2>6 DEF StepInv
<1>4. CASE ctl \notin {"video_output", "audio_loop"} /\ Together'
  <2>1. /\ UNCHANGED video_status /\ (AudioPhase' = "up" => AudioPhase = "up") /\ Together
        /\ ctl \in BuildPlaces /\ ctl' \notin {"start_video", "pause_video", "resume_video"}
    BY <1>4 DEF host_init, init_port, init_video, init_audio, init_sub, init_end, drop_port, Stage,
       StageFails, Goto, OfAudio, OfVideo, OfSub, Idle, videoVars, Together, VideoPhase, AudioPhase,
       PlaceInv, AfterVideo, AfterAudio, StopPlaces, BuildPlaces, VideoPlaces, AudioPlaces, SubPlaces
  <2>2. Target' = Target
    BY <1>4, <2>1 DEF Target, BuildPlaces
  <2>3. CASE AudioPhase # "up"
    BY <2>1, <2>3 DEF StepInv
  <2>4. CASE AudioPhase = "up"
    <3>1. UNCHANGED <<audio_state, audio_events>>
      BY <1>4, <2>1, <2>4 DEF host_init, init_port, init_video, init_audio, init_sub, init_end,
         drop_port, Stage, StageFails, Goto, OfAudio, OfVideo, OfSub, Idle, audioVars, AudioPhase,
         PlaceInv, Together
    <3> QED BY <2>1, <2>2, <3>1, StepKept
  <2> QED BY <2>3, <2>4
<1> QED BY <1>1, <1>2, <1>3, <1>4

\* The command is on its way to audio before video is moved in place.
LEMMA CallStep ==
  ASSUME TypeOK, PlaceInv, StepInv, host_start \/ host_pause \/ host_resume
  PROVE  StepInv'
<1>1. /\ AudioPhase' = AudioPhase /\ Together' = Together /\ ctl' \notin BuildPlaces
      /\ AudioPhase = "up" => "audio" \in has
      /\ Together => "video" \in has
  BY DEF host_start, host_pause, host_resume, Call, Goto, Stay, AudioPhase, VideoPhase, Together,
     StopPlaces, BuildPlaces
<1>2. CASE ~Together \/ AudioPhase # "up"
  BY <1>1, <1>2 DEF StepInv
<1>3. CASE Together /\ AudioPhase = "up"
  <2> USE DEF host_start, host_pause, host_resume, Call, Goto
  <2>1. CASE ctl \in {"ready", "start_sub"}
    <3>1. /\ UNCHANGED <<audio_state, audio_events, video_status>>
          /\ ctl' \notin {"start_video", "pause_video", "resume_video"}
      BY <1>1, <1>3, <2>1 DEF Idle, OfSub, audioVars, videoVars
    <3>2. Target' = Target
      BY <2>1, <3>1 DEF Target
    <3> QED BY <1>1, <3>1, <3>2, StepKept
  <2>2. CASE ctl \in {"start_video", "pause_video", "resume_video"}
    <3>1. /\ UNCHANGED <<audio_state, audio_events>> /\ video_status' = Target
          /\ ctl' \notin {"start_video", "pause_video", "resume_video"}
      BY <1>1, <1>3, <2>2 DEF OfVideo, audioVars, video_start, video_pause, video_resume, Target, Moved
    <3>2. Target' = Target
      BY <3>1 DEF Target
    <3>3. Leads(audio_state, audio_events, Target)' <=> Leads(audio_state, audio_events, Target)
      BY <3>1, <3>2 DEF Leads
    <3> QED BY <1>1, <1>3, <3>3 DEF StepInv
  <2>3. CASE ctl \in {"start_audio", "pause_audio", "resume_audio"}
    <3>1. PICK command \in {"START", "PAUSE", "RESUME"} :
            /\ dtaudio_send(command) /\ UNCHANGED video_status
            /\ ctl' = (CASE command = "START" -> "start_video" [] command = "PAUSE" -> "pause_video"
                         [] command = "RESUME" -> "resume_video")
      BY <2>3 DEF OfAudio, videoVars
    <3>2. audio_events' = Append(audio_events, command) /\ UNCHANGED audio_state
      BY <3>1 DEF dtaudio_send
    <3>3. Target = video_status /\ Target' = Moved(video_status, command)
      BY <2>3, <3>1 DEF Target
    <3>4. Leads(audio_state, Append(audio_events, command), Moved(video_status, command))
      BY <1>3, <3>3, LeadsAdded DEF StepInv, TypeOK, AudioTypeOK, AudioCommands
    <3>5. Leads(audio_state, audio_events, Target)'
      BY <3>2, <3>3, <3>4 DEF Leads
    <3> QED BY <1>1, <3>5 DEF StepInv
  <2> QED BY <2>1, <2>2, <2>3
<1> QED BY <1>2, <1>3

LEMMA CallerStep ==
  ASSUME TypeOK, PlaceInv, AudioInv, StepInv, caller
  PROVE  StepInv'
<1>1. CASE host_stop
  <2>1. ctl' \in StopPlaces \/ (ctl' = "gone" /\ failed' = "none")
    BY <1>1 DEF host_stop, stop_audio, stop_video, stop_sub, stop_port, Call, Goto, Stay, StopPlaces,
       PlaceInv
  <2>2. ~Together'
    BY <2>1 DEF Together, VideoPhase
  <2> QED BY <2>2 DEF StepInv
<1> QED BY <1>1, BuildStep, CallStep DEF caller

-----------------------------------------------------------------------------
(* The invariant.                                                           *)

LEMMA Initially ==
  ASSUME Init
  PROVE  IInv
<1>1. TypeOK
  <2>1. AudioTypeOK
    <3>1. audio_events = <<>>
      BY DEF Init, AudioInit
    <3>2. audio_events \in Seq(AudioCommands) /\ Len(audio_events) = 0
      BY <3>1, EmptySeq
    <3>3. pcm \in -1 .. PcmRing /\ late_writes \in Nat /\ 0 <= MaxCommands
      BY AudioAssumption DEF Init, AudioInit
    <3>4. {ao_holds, ao_seen, alive} \subseteq BOOLEAN
      BY DEF Init, AudioInit
    <3> QED BY <3>2, <3>3, <3>4 DEF Init, AudioInit, AudioTypeOK, AdecRuns
  <2>2. VideoTypeOK
    <3>1. vo_queue \in -1 .. PictureQueue
      BY VideoAssumption DEF Init, VideoInit
    <3> QED BY <3>1 DEF Init, VideoInit, VideoTypeOK
  <2>4. SubTypeOK
    <3>1. so_queue \in -1 .. SubQueue
      BY SubAssumption DEF Init, SubInit
    <3> QED BY <3>1 DEF Init, SubInit, SubTypeOK
  <2>3. CallerState
    BY HostAssumption DEF Init, CallerState, BuildPlaces
  <2> QED BY <2>1, <2>2, <2>3, <2>4 DEF TypeOK, CallerState
<1> USE HostAssumption DEF Init, AudioInit, VideoInit, SubInit
<1>2. PlaceInv
  BY DEF PlaceInv, VideoPlaces, AudioPlaces, SubPlaces
<1>3. VideoInv /\ SubInv
  BY DEF VideoInv, VideoPhase, SubInv, SubPhase, BuildPlaces
<1>4. AudioPhase = "none" /\ ~Together
  BY DEF AudioPhase, Together, VideoPhase
<1>5. AudioInv
  BY <1>4 DEF AudioInv
<1>6. StopInv /\ PauseInv /\ StepInv /\ AskInv
  BY <1>4 DEF StopInv, PauseInv, StepInv, AskInv
<1> QED BY <1>1, <1>2, <1>3, <1>5, <1>6 DEF IInv

LEMMA NextKeeps ==
  ASSUME IInv, [Next]_vars
  PROVE  IInv'
<1> USE DEF IInv
<1>1. CASE caller
  BY <1>1, CallerPlaces, CallerVideo, CallerSub, CallerAudio, CallerStop, CallerPause, CallerAsk, CallerStep
  DEF CallerState, TypeOK
<1>2. CASE audio
  <2>1. UNCHANGED <<ctl, has, failed, port, videoVars, subVars>>
    BY <1>2 DEF audio, ByAudio
  <2>2. VideoInv' /\ SubInv'
    BY <2>1, SamePhases, VideoKept, SubKept
  <2>3. PlaceInv'
    BY <2>1 DEF PlaceInv
  <2>4. AudioTypeOK' /\ AudioInv'
    BY <1>2, AudioThreadKeeps
  <2>5. late_device' \in BOOLEAN
    BY <1>2 DEF audio, ByAudio
  <2>6. VideoTypeOK' /\ SubTypeOK'
    BY <2>1 DEF TypeOK, VideoTypeOK, SubTypeOK, videoVars, subVars
  <2>7. TypeOK'
    BY <2>1, <2>4, <2>5, <2>6 DEF TypeOK
  <2> QED BY <1>2, <2>2, <2>3, <2>4, <2>7, AudioStop, AudioPause, AudioAsk, AudioStep
<1>3. ASSUME UNCHANGED <<hostVars, audioVars>>
      PROVE  /\ PlaceInv' /\ AudioInv' /\ StopInv' /\ PauseInv' /\ AskInv' /\ AudioTypeOK'
             /\ UNCHANGED <<ctl, has, failed, port, late_device>>
             /\ UNCHANGED video_status => StepInv'
  <2>1. UNCHANGED <<ctl, has, failed, port, late_device, audio_events, audio_state, event_loop>>
    BY <1>3 DEF hostVars, audioVars
  <2>2. PlaceInv' /\ PauseInv' /\ AskInv' /\ AudioTypeOK'
    BY <1>3, <2>1 DEF PlaceInv, PauseInv, AskInv, TypeOK, AudioTypeOK, audioVars
  <2>3. AudioInv' /\ StopInv'
    BY <1>3, <2>1, SamePhases, AudioKept, StopKept
  <2>4. ASSUME UNCHANGED video_status
        PROVE  StepInv'
    BY <2>1, <2>4, SamePhases, StepKept DEF Together, Target
  <2> QED BY <2>1, <2>2, <2>3, <2>4
<1>4. CASE video
  <2>1. VideoNext /\ UNCHANGED <<hostVars, audioVars, subVars>>
    BY <1>4 DEF video, ByVideo
  <2>2. UNCHANGED video_status
    BY <2>1 DEF VideoNext, video_output_thread, video_decode_loop, vo_exit, vo_find, vo_switch, vo_take,
       vo_render, vdec_exit, vdec_send, vdec_receive, vdec_push
  <2>3. VideoTypeOK' /\ VideoInv'
    BY <1>3, <2>1, VideoThreadKeeps
  <2>4. SubTypeOK' /\ SubInv'
    BY <1>3, <2>1, SamePhases, SubKept DEF TypeOK, SubTypeOK, subVars
  <2>5. TypeOK'
    BY <1>3, <2>1, <2>3, <2>4 DEF TypeOK
  <2> QED BY <1>3, <2>1, <2>2, <2>3, <2>4, <2>5
<1>5. CASE sub
  <2>1. SubNext /\ UNCHANGED <<hostVars, audioVars, videoVars>>
    BY <1>5 DEF sub, BySub
  <2>2. SubTypeOK' /\ SubInv'
    BY <1>3, <2>1, SubThreadKeeps
  <2>3. VideoTypeOK' /\ VideoInv' /\ UNCHANGED video_status
    BY <1>3, <2>1, SamePhases, VideoKept DEF TypeOK, VideoTypeOK, videoVars
  <2>4. TypeOK'
    BY <1>3, <2>1, <2>2, <2>3 DEF TypeOK
  <2> QED BY <1>3, <2>1, <2>2, <2>3, <2>4
<1>6. CASE application
  <2>1. vout_register_ext /\ UNCHANGED <<hostVars, audioVars, subVars>>
    BY <1>6 DEF application, OfVideo
  <2>2. VideoPhase' = VideoPhase
    BY <1>3, <2>1, SamePhases
  <2>3. VideoTypeOK' /\ VideoInv' /\ UNCHANGED video_status
    BY <2>1, <2>2 DEF vout_register_ext, TypeOK, VideoTypeOK, VideoInv, VideoStatus, Switched, vdecVars
  <2>4. SubTypeOK' /\ SubInv'
    BY <1>3, <2>1, SamePhases, SubKept DEF TypeOK, SubTypeOK, subVars
  <2>5. TypeOK'
    BY <1>3, <2>1, <2>3, <2>4 DEF TypeOK
  <2> QED BY <1>3, <2>1, <2>3, <2>4, <2>5
<1>7. CASE UNCHANGED vars
  <2>1. UNCHANGED <<hostVars, audioVars, videoVars, subVars>>
    BY <1>7 DEF vars
  <2>2. VideoTypeOK' /\ VideoInv' /\ UNCHANGED video_status
    BY <1>3, <2>1, SamePhases, VideoKept DEF TypeOK, VideoTypeOK, videoVars
  <2>3. SubTypeOK' /\ SubInv'
    BY <1>3, <2>1, SamePhases, SubKept DEF TypeOK, SubTypeOK, subVars
  <2>4. TypeOK'
    BY <1>3, <2>1, <2>2, <2>3 DEF TypeOK
  <2> QED BY <1>3, <2>1, <2>2, <2>3, <2>4
<1>8. CASE dies
  <2>1. /\ alive' = FALSE
        /\ UNCHANGED <<hostVars, videoVars, subVars, audio_state, audio_events, event_loop, ao_status,
                       ao_seen, ao_thread, ao_holds, ao_device, late_writes, adec_status, adec_thread, pcm>>
    BY <1>8 DEF dies, audioOutVars, audioDecVars
  <2>2. UNCHANGED <<ctl, has, failed, port, late_device>>
    BY <2>1 DEF hostVars
  <2>3. AudioTypeOK' /\ VideoTypeOK' /\ SubTypeOK'
    <3>1. {ao_holds, ao_seen, alive}' \subseteq BOOLEAN
      BY <2>1 DEF TypeOK, AudioTypeOK
    <3>2. AudioTypeOK'
      BY <2>1, <3>1 DEF TypeOK, AudioTypeOK
    <3> QED BY <2>1, <3>2 DEF TypeOK, VideoTypeOK, videoVars, SubTypeOK, subVars
  <2>4. TypeOK' /\ PlaceInv' /\ PauseInv' /\ AskInv'
    BY <2>1, <2>2, <2>3 DEF TypeOK, PlaceInv, PauseInv, AskInv
  <2>5. VideoInv' /\ SubInv' /\ StopInv'
    BY <2>1, <2>2, SamePhases, VideoKept, SubKept, StopKept
  <2>6. AudioInv'
    BY <2>1, <2>2, SamePhases DEF AudioInv, AudioStatus
  <2>7. UNCHANGED video_status
    BY <2>1 DEF videoVars
  <2>8. StepInv'
    BY <2>1, <2>2, <2>7, SamePhases, StepKept DEF Together, Target
  <2> QED BY <2>4, <2>5, <2>6, <2>8
<1> QED BY <1>1, <1>2, <1>4, <1>5, <1>6, <1>7, <1>8 DEF Next

LEMMA Invariant == Spec => []IInv
<1>1. Init => IInv
  BY Initially
<1>2. IInv /\ [Next]_vars => IInv'
  BY NextKeeps
<1> QED BY <1>1, <1>2, PTL DEF Spec

-----------------------------------------------------------------------------
(* The results.                                                             *)

\* The services, their threads and the host's caller keep the types of their
\* state, whatever is built, fails, plays and is stopped.
THEOREM HostTyped == Spec => []TypeOK
<1>1. IInv => TypeOK
  BY DEF IInv
<1> QED BY <1>1, Invariant, PTL

\* A thread of the audio, video or subtitle service never works on a ring, a
\* queue or a device that is gone (the order of stops and joins in host_stop
\* and in the ERR branches of host_init), and no thread is left when
\* dthost_stop frees the context.
THEOREM HostNesting == Spec => []LivesNest
<1>1. IInv => UsesLive
  <2> SUFFICES ASSUME IInv PROVE UsesLive
    OBVIOUS
  <2>1. /\ ao_thread \in {"top", "write"} /\ ao_status # "IDLE" => pcm >= 0
        /\ adec_thread \in AdecRuns => pcm >= 0
    BY DEF IInv, AudioInv, AudioPhase, AdecRuns
  <2>2. adec_thread = "ask" /\ ao_status # "EXIT" => ao_device \in {"open", "paused"}
    BY DEF IInv, AskInv
  <2>3. /\ vo_thread \in {"top", "switch", "render"} =>
             /\ vo_queue >= 0 /\ vo_ctx \in vo_open
             /\ vo_local \in vo_open \/ Switched(vo_local)
        /\ ctl = "join_vo" => vo_seen \in vo_open \/ Switched(vo_seen)
        /\ vdec_thread \in {"read", "receive", "push"} => vo_queue >= 0
    BY DEF IInv, VideoInv, VideoPhase, PlaceInv, VideoPlaces
  <2>4. /\ so_thread \in {"top", "render"} => so_queue >= 0 /\ so_open
        /\ sdec_thread \in {"read", "decode"} => so_queue >= 0
    BY DEF IInv, SubInv, SubPhase
  <2> QED BY <2>1, <2>2, <2>3, <2>4 DEF UsesLive
<1>2. IInv => NothingOutlivesHost
  <2> SUFFICES ASSUME IInv, ctl = "gone", failed \notin {"audio_decoder", "audio_output"}
               PROVE  /\ ~AudioThreads /\ ~VideoThreads /\ ~SubThreads /\ ~port /\ ~so_open
                      /\ ao_device \in {"open", "paused"} => late_device
                      /\ vo_open # {} => vo_seen = "null" /\ vo_ctx = "ext"
    BY DEF NothingOutlivesHost
  <2>1. failed \in {"none", "video_decoder", "video_output"} /\ ~port
    BY DEF IInv, PlaceInv
  <2>2. AudioPhase = "none" \/ (AudioPhase = "up" /\ event_loop = "done")
    BY <2>1 DEF IInv, AudioPhase, AudioJoined, StopInv
  <2>3. ~AudioThreads /\ (ao_device \in {"open", "paused"} => late_device)
    BY <2>2 DEF IInv, AudioInv, AudioThreads, AudioRunning, AdecRuns
  <2>4. VideoPhase \in {"none", "dropped", "stopped"}
    BY <2>1 DEF VideoPhase
  <2>5. ~VideoThreads /\ (vo_open # {} => vo_seen = "null" /\ vo_ctx = "ext")
    BY <2>4 DEF IInv, VideoInv, VideoThreads, Switched
  <2>6. SubPhase \in {"none", "stopped"}
    BY DEF SubPhase
  <2>7. ~SubThreads /\ ~so_open
    BY <2>6 DEF IInv, SubInv, SubThreads
  <2> QED BY <2>1, <2>3, <2>5, <2>7
<1>3. IInv => LivesNest
  BY <1>1, <1>2 DEF LivesNest
<1> QED BY <1>3, Invariant, PTL

\* However many starts, pauses and resumes are on their way to the event loop,
\* audio ends up in the state video is in when they have been carried out
\* (host_start, host_pause and host_resume command one and move the other).
THEOREM HostInStep == Spec => []InStep
<1>1. IInv => InStep
  <2> SUFFICES ASSUME IInv, ctl = "ready", {"audio", "video"} \subseteq has, audio_events = <<>>
               PROVE  audio_state = video_status
    BY DEF InStep
  <2>1. failed = "none" /\ Target = video_status
    BY DEF IInv, PlaceInv, Target
  <2>2. AudioPhase = "up" /\ Together
    BY <2>1 DEF AudioPhase, VideoPhase, Together, StopPlaces
  <2>3. Leads(audio_state, <<>>, video_status)
    BY <2>1, <2>2 DEF IInv, StepInv
  <2> QED BY <2>3, LeadsEmpty
<1> QED BY <1>1, Invariant, PTL

\* audio_output_thread writes to the device at most once after audio_pause was
\* carried out: the piece of PCM it had read before.
THEOREM HostPausePrompt == Spec => []PauseIsPrompt
<1>1. IInv => PauseIsPrompt
  BY DEF IInv, PauseInv, PauseIsPrompt
<1> QED BY <1>1, Invariant, PTL
=============================================================================
