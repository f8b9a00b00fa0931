----------------------------- MODULE AvStartup -----------------------------
(***************************************************************************)
(* The start of a file with sound and pictures: audio_decode_loop and       *)
(* video_decode_loop tell each other their first timestamps through the     *)
(* host, decide alike which of them is ahead, and that one catches up while *)
(* the other waits until the host's drop_done is set.  The packets come     *)
(* from an IO thread that holds one packet until its queue takes it, so a   *)
(* stream that waits can keep the other from its packets.                   *)
(*                                                                          *)
(* A packet of video is a picture, one of audio holds PerPacket frames of   *)
(* PCM; their timestamps are regular.  Each ioctl of a decoder that reads   *)
(* what the other one writes is a step of its own.                          *)
(***************************************************************************)
EXTENDS Integers

CONSTANTS
  Starts,         \* first timestamps a stream may have
  End,            \* timestamp at which the file ends
  AFrame, VFrame, \* duration of a frame of PCM and of a picture
  PerPacket,      \* frames of PCM in a packet of audio
  Skew,           \* how far the file lets one stream run ahead of the other
  QueueMax,       \* packets the port holds, of each stream
  PcmMax,         \* frames of PCM in half a second
  PicturesMax,    \* VIDEO_OUT_MAX_COUNT
  DecoderDelay,   \* packets the video decoder takes ahead of a picture
  VideoDecodes,   \* the video decoder understands the stream
  Threshold,      \* AVSYNC_THRESHOLD
  DropThreshold,  \* AVSYNC_DROP_THRESHOLD
  Timeout         \* drop_timeout of video_decode_loop

AV == {"audio", "video"}
NoPts == -1

ASSUME AvStartupAssumption ==
  /\ Starts \subseteq Nat /\ 0 \in Starts /\ End \in Nat
  /\ {AFrame, VFrame, PerPacket, PcmMax, PicturesMax, Timeout} \subseteq Nat \ {0}
  /\ {Skew, DecoderDelay, Threshold, DropThreshold} \subseteq Nat
  /\ Threshold <= DropThreshold
  /\ QueueMax \in [AV -> Nat \ {0}]
  /\ VideoDecodes \in BOOLEAN

VARIABLES
  file,      \* [first: timestamp of each stream, has: the streams, host_drop]
  taken,     \* timestamp of the next packet of each stream the demuxer reads
  held,      \* the stream of the packet the IO thread holds
  queue,     \* number of packets of each stream in the port
  host,      \* pts_audio_first, pts_video_first, drop_done
  started,   \* host_start has been called
  stopping,  \* how far host_stop is: "no", "audio", "video", "done"
  audio,     \* the locals of audio_decode_loop
  video,     \* the locals of video_decode_loop
  clock,     \* time since drop_start; -1 before
  pcm,       \* frames of PCM in audio_decoded_buf
  pictures,  \* length of vo_queue
  sounded,   \* timestamp of the first frame of PCM that was kept
  shown      \* a picture has been shown

vars == <<file, taken, held, queue, host, started, stopping, audio, video,
          clock, pcm, pictures, sounded, shown>>

input == <<taken, held>>
output == <<pcm, pictures, sounded, shown>>

Init ==
  /\ file \in [first : [AV -> Starts], has : {{"audio"}, {"video"}, AV},
               host_drop : BOOLEAN]
  /\ \A m \in AV \ file.has : file.first[m] = 0
  /\ taken = file.first
  /\ held = "none"
  /\ queue = [m \in AV |-> 0]
  /\ host = [pts_audio_first |-> NoPts, pts_video_first |-> NoPts, drop_done |-> FALSE]
  /\ started = FALSE
  /\ stopping = "no"
  /\ audio = [pc |-> "read", drop_done |-> FALSE, first_vpts |-> NoPts,
              drop_size |-> -1, inlen |-> 0, frame |-> NoPts]
  /\ video = [pc |-> "read", drop_done |-> FALSE, first_apts |-> NoPts,
              need_drop |-> -1, inside |-> 0, picture |-> NoPts]
  /\ clock = -1
  /\ pcm = 0
  /\ pictures = 0
  /\ sounded = NoPts
  /\ shown = FALSE

-----------------------------------------------------------------------------
(* The IO thread, see PacketFlow                                            *)

Step(m) == IF m = "audio" THEN AFrame * PerPacket ELSE VFrame

player_read_frame(m) ==
  /\ stopping = "no"
  /\ held = "none"
  /\ taken[m] < End
  /\ \A n \in file.has : taken[n] < End => taken[m] <= taken[n] + Skew
  /\ held' = m
  /\ taken' = [taken EXCEPT ![m] = @ + Step(m)]
  /\ UNCHANGED <<file, queue, host, started, stopping, audio, video, clock, output>>

write_frame ==
  /\ stopping = "no"
  /\ held # "none"
  /\ queue[held] < QueueMax[held]
  /\ queue' = [queue EXCEPT ![held] = @ + 1]
  /\ held' = "none"
  /\ UNCHANGED <<file, taken, host, started, stopping, audio, video, clock, output>>

(* The timestamp of the packet at the head of the queue of m.               *)
HeadPts(m) == taken[m] - Step(m) * (queue[m] + IF held = m THEN 1 ELSE 0)

-----------------------------------------------------------------------------
(* audio_decode_loop                                                        *)

audio_exits == stopping \in {"audio", "video", "done"}

(* Where a frame goes that has been decoded: into the loop of the drop      *)
(* check until drop_done is known, then into the PCM buffer.                *)
AudioNext(done) == IF done THEN "refill" ELSE "sync"

audio_read_frame ==
  /\ audio.pc = "read" /\ ~audio_exits
  /\ "audio" \in file.has /\ queue["audio"] > 0
  /\ queue' = [queue EXCEPT !["audio"] = @ - 1]
  /\ audio' = [audio EXCEPT !.frame = HeadPts("audio"), !.inlen = PerPacket,
                            !.pc = AudioNext(audio.drop_done)]
  /\ host' = [host EXCEPT !.pts_audio_first =
                 IF @ = NoPts THEN HeadPts("audio") ELSE @]
  /\ UNCHANGED <<file, input, started, stopping, video, clock, output>>

audio_get_first_vpts ==
  /\ audio.pc = "sync" /\ ~audio_exits
  /\ audio.first_vpts = NoPts
  /\ audio' = [audio EXCEPT !.first_vpts = host.pts_video_first, !.pc = "sync_done"]
  /\ UNCHANGED <<file, input, queue, host, started, stopping, video, clock, output>>

TooClose(diff) == diff > DropThreshold \/ diff <= Threshold

(* HOST_CMD_GET_DROP_DONE, and the decision once the first vpts is known.   *)
audio_decide ==
  /\ audio.pc = "sync_done"
  /\ LET diff == audio.first_vpts - host.pts_audio_first
         close == audio.first_vpts # NoPts /\ diff >= 0 /\ TooClose(diff)
         done == host.drop_done \/ close
     IN /\ audio' = [audio EXCEPT
                       !.drop_done = done,
                       !.drop_size = IF audio.first_vpts = NoPts \/ close THEN @
                                     ELSE IF diff < 0 THEN 0 ELSE diff,
                       !.pc = AudioNext(done)]
        /\ host' = [host EXCEPT !.drop_done = done]
  /\ UNCHANGED <<file, input, queue, started, stopping, video, clock, output>>

(* "wait video drop"                                                        *)
audio_wait ==
  /\ audio.pc = "sync" /\ ~audio_exits
  /\ audio.first_vpts # NoPts /\ audio.drop_size = 0
  /\ audio' = [audio EXCEPT !.drop_done = host.drop_done,
                            !.pc = AudioNext(host.drop_done)]
  /\ UNCHANGED <<file, input, queue, host, started, stopping, video, clock, output>>

(* Mutant of audio_drop: the host is told at once.                          *)
audio_drop_hasty ==
  /\ audio.pc = "sync" /\ ~audio_exits
  /\ audio.first_vpts # NoPts /\ audio.drop_size # 0
  /\ LET left == audio.drop_size - AFrame
     IN audio' = [audio EXCEPT !.drop_done = host.drop_done,
                               !.drop_size = IF left <= 0 THEN 0 ELSE left,
                               !.inlen = 0, !.pc = "read"]
  /\ host' = [host EXCEPT !.drop_done = TRUE]
  /\ UNCHANGED <<file, input, queue, started, stopping, video, clock, output>>

(* "drop pcm": the frame has no output any more, so the loop reads the next *)
(* packet and leaves what is left of this one.                              *)
audio_drop ==
  /\ audio.pc = "sync" /\ ~audio_exits
  /\ audio.first_vpts # NoPts /\ audio.drop_size # 0
  /\ LET left == audio.drop_size - AFrame
     IN /\ audio' = [audio EXCEPT !.drop_done = host.drop_done,
                                  !.drop_size = IF left <= 0 THEN 0 ELSE left,
                                  !.inlen = 0, !.pc = "read"]
        /\ host' = [host EXCEPT !.drop_done = @ \/ left <= 0]
  /\ UNCHANGED <<file, input, queue, started, stopping, video, clock, output>>

(* REFILL_BUFFER, and DECODE_LOOP while the packet holds another frame.     *)
audio_refill ==
  /\ audio.pc = "refill" /\ ~audio_exits
  /\ pcm < PcmMax
  /\ pcm' = pcm + 1
  /\ sounded' = IF sounded = NoPts THEN audio.frame ELSE sounded
  /\ audio' = IF audio.inlen > 1
              THEN [audio EXCEPT !.inlen = @ - 1, !.frame = @ + AFrame,
                                 !.pc = AudioNext(audio.drop_done)]
              ELSE [audio EXCEPT !.inlen = 0, !.pc = "read"]
  /\ UNCHANGED <<file, input, queue, host, started, stopping, video, clock,
                 pictures, shown>>

audio_exit ==
  /\ audio_exits
  /\ audio.pc \in {"read", "sync", "refill"}
  /\ audio' = [audio EXCEPT !.pc = "exited"]
  /\ UNCHANGED <<file, input, queue, host, started, stopping, video, clock, output>>

audio_decode_loop ==
  \/ audio_read_frame \/ audio_get_first_vpts \/ audio_decide \/ audio_wait
  \/ audio_drop \/ audio_refill \/ audio_exit

(* audio_output_thread: joined by host_stop before the decoder is.          *)
audio_output_thread ==
  /\ started /\ stopping = "no"
  /\ pcm > 0
  /\ pcm' = pcm - 1
  /\ UNCHANGED <<file, input, queue, host, started, stopping, audio, video,
                 clock, pictures, sounded, shown>>

-----------------------------------------------------------------------------
(* video_decode_loop                                                        *)

video_exits == stopping \in {"video", "done"}

VideoNext(done) == IF done THEN "push" ELSE "sync"

(* The decoder gives a picture back for a packet when it has DecoderDelay   *)
(* more of them.                                                            *)
video_decode ==
  /\ video.pc = "read" /\ ~video_exits
  /\ "video" \in file.has
  /\ pictures < PicturesMax
  /\ queue["video"] > 0
  /\ queue' = [queue EXCEPT !["video"] = @ - 1]
  /\ IF VideoDecodes /\ video.inside = DecoderDelay
     THEN LET pts == HeadPts("video") - VFrame * DecoderDelay
          IN /\ video' = [video EXCEPT !.picture = pts, !.pc = VideoNext(video.drop_done)]
             /\ host' = [host EXCEPT !.pts_video_first = IF @ = NoPts THEN pts ELSE @]
     ELSE /\ video' = [video EXCEPT !.inside = IF VideoDecodes THEN @ + 1 ELSE @]
          /\ UNCHANGED host
  /\ UNCHANGED <<file, input, started, stopping, audio, clock, output>>

TimedOut == clock >= Timeout

(* drop_start is taken at the first look, the time is looked at every time. *)
Clocked == clock' = IF clock < 0 THEN 0 ELSE clock

video_timeout ==
  /\ video.pc = "sync" /\ ~video_exits
  /\ TimedOut
  /\ host' = [host EXCEPT !.drop_done = TRUE]
  /\ video' = [video EXCEPT !.drop_done = TRUE, !.pc = "push"]
  /\ UNCHANGED <<file, input, queue, started, stopping, audio, clock, output>>

video_get_first_apts ==
  /\ video.pc = "sync" /\ ~video_exits
  /\ ~TimedOut /\ Clocked
  /\ video.first_apts = NoPts
  /\ video' = [video EXCEPT !.first_apts = host.pts_audio_first, !.pc = "sync_done"]
  /\ UNCHANGED <<file, input, queue, host, started, stopping, audio, output>>

(* Mutant: the difference is taken the other way round.                     *)
video_decide_reversed ==
  /\ video.pc = "sync_done"
  /\ LET diff == host.pts_video_first - video.first_apts
         close == video.first_apts # NoPts /\ diff >= 0 /\ TooClose(diff)
         done == host.drop_done \/ close
     IN /\ video' = [video EXCEPT
                       !.drop_done = done,
                       !.need_drop = IF video.first_apts = NoPts \/ close THEN @
                                     ELSE IF diff < 0 THEN 0 ELSE 1,
                       !.pc = VideoNext(done)]
        /\ host' = [host EXCEPT !.drop_done = done]
  /\ UNCHANGED <<file, input, queue, started, stopping, audio, clock, output>>

video_decide ==
  /\ video.pc = "sync_done"
  /\ LET diff == video.first_apts - host.pts_video_first
         close == video.first_apts # NoPts /\ diff >= 0 /\ TooClose(diff)
         done == host.drop_done \/ close
     IN /\ video' = [video EXCEPT
                       !.drop_done = done,
                       !.need_drop = IF video.first_apts = NoPts \/ close THEN @
                                     ELSE IF diff < 0 THEN 0 ELSE 1,
                       !.pc = VideoNext(done)]
        /\ host' = [host EXCEPT !.drop_done = done]
  /\ UNCHANGED <<file, input, queue, started, stopping, audio, clock, output>>

(* "wait audio drop"                                                        *)
video_wait ==
  /\ video.pc = "sync" /\ ~video_exits
  /\ ~TimedOut /\ Clocked
  /\ video.first_apts # NoPts /\ video.need_drop = 0
  /\ video' = [video EXCEPT !.drop_done = host.drop_done,
                            !.pc = VideoNext(host.drop_done)]
  /\ UNCHANGED <<file, input, queue, host, started, stopping, audio, output>>

(* Mutant of video_drop: the host is not told.                              *)
video_drop_untold ==
  /\ video.pc = "sync" /\ ~video_exits
  /\ ~TimedOut /\ Clocked
  /\ video.first_apts # NoPts /\ video.need_drop # 0
  /\ LET reached == video.picture >= video.first_apts
     IN video' = [video EXCEPT !.drop_done = host.drop_done \/ reached, !.pc = "push"]
  /\ UNCHANGED <<file, input, queue, host, started, stopping, audio, output>>

(* "drop video": the picture is queued all the same.                        *)
video_drop ==
  /\ video.pc = "sync" /\ ~video_exits
  /\ ~TimedOut /\ Clocked
  /\ video.first_apts # NoPts /\ video.need_drop # 0
  /\ LET reached == video.picture >= video.first_apts
     IN /\ video' = [video EXCEPT !.drop_done = host.drop_done \/ reached,
                                  !.pc = "push"]
        /\ host' = [host EXCEPT !.drop_done = @ \/ reached]
  /\ UNCHANGED <<file, input, queue, started, stopping, audio, output>>

video_leave_drop ==
  /\ video.pc = "sync" /\ video_exits
  /\ video' = [video EXCEPT !.pc = "push"]
  /\ UNCHANGED <<file, input, queue, host, started, stopping, audio, clock, output>>

queue_push_tail ==
  /\ video.pc = "push"
  /\ pictures' = pictures + 1
  /\ video' = [video EXCEPT !.pc = "read"]
  /\ UNCHANGED <<file, input, queue, host, started, stopping, audio, clock,
                 pcm, sounded, shown>>

video_exit ==
  /\ video.pc = "read" /\ video_exits
  /\ video' = [video EXCEPT !.pc = "exited"]
  /\ UNCHANGED <<file, input, queue, host, started, stopping, audio, clock, output>>

video_decode_loop ==
  \/ video_decode \/ video_timeout \/ video_get_first_apts \/ video_decide
  \/ video_wait \/ video_drop \/ video_leave_drop \/ queue_push_tail \/ video_exit

(* video_output_thread shows or drops the next picture when its time comes. *)
video_output_thread ==
  /\ started /\ ~video_exits
  /\ pictures > 0
  /\ pictures' = pictures - 1
  /\ shown' = TRUE
  /\ UNCHANGED <<file, input, queue, host, started, stopping, audio, video,
                 clock, pcm, sounded>>

Tick ==
  /\ clock \in 0 .. Timeout - 1
  /\ clock' = clock + 1
  /\ UNCHANGED <<file, input, queue, host, started, stopping, audio, video, output>>

-----------------------------------------------------------------------------
(* The player's event loop                                                  *)

host_start ==
  /\ ~started
  /\ started' = TRUE
  /\ host' = [host EXCEPT !.drop_done = @ \/ ~file.host_drop \/ file.has # AV]
  /\ UNCHANGED <<file, input, queue, stopping, audio, video, clock, output>>

(* The IO thread is paused by then; each decoder is joined before the next  *)
(* one is told to exit.                                                     *)
host_stop ==
  /\ started
  /\ stopping' = CASE stopping = "no" -> "audio"
                   [] stopping = "audio" /\ audio.pc = "exited" -> "video"
                   [] stopping = "video" /\ video.pc = "exited" -> "done"
                   [] OTHER -> stopping
  /\ stopping' # stopping
  /\ UNCHANGED <<file, input, queue, host, started, audio, video, clock, output>>

-----------------------------------------------------------------------------

io_thread == write_frame \/ \E m \in file.has : player_read_frame(m)

Next ==
  \/ io_thread
  \/ audio_decode_loop \/ audio_output_thread
  \/ video_decode_loop \/ video_output_thread
  \/ Tick
  \/ host_start \/ host_stop

Spec == Init /\ [][Next]_vars

(* Every thread goes on and time passes; nobody has to stop the player, but *)
(* host_stop, once called, goes on.                                         *)
Fairness ==
  /\ WF_vars(io_thread)
  /\ WF_vars(audio_decode_loop) /\ WF_vars(audio_output_thread)
  /\ WF_vars(video_decode_loop) /\ WF_vars(video_output_thread)
  /\ WF_vars(Tick)
  /\ WF_vars(host_start) /\ WF_vars(stopping # "no" /\ host_stop)

FairSpec == Spec /\ Fairness

-----------------------------------------------------------------------------

Pts == Nat \cup {NoPts}

InputOK ==
  /\ file \in [first : [AV -> Starts], has : SUBSET AV, host_drop : BOOLEAN]
  /\ taken \in [AV -> Nat]
  /\ held \in AV \cup {"none"}
  /\ queue \in [AV -> Nat]
  /\ \A m \in AV : queue[m] <= QueueMax[m]

HostOK ==
  /\ host \in [pts_audio_first : Pts, pts_video_first : Pts, drop_done : BOOLEAN]
  /\ started \in BOOLEAN
  /\ stopping \in {"no", "audio", "video", "done"}

AudioOK ==
  audio \in [pc : {"read", "sync", "sync_done", "refill", "exited"},
             drop_done : BOOLEAN, first_vpts : Pts, drop_size : Nat \cup {-1},
             inlen : 0 .. PerPacket, frame : Pts]

VideoOK ==
  video \in [pc : {"read", "sync", "sync_done", "push", "exited"},
             drop_done : BOOLEAN, first_apts : Pts, need_drop : {-1, 0, 1},
             inside : 0 .. DecoderDelay, picture : Pts]

OutputOK ==
  /\ clock \in -1 .. Timeout
  /\ pcm \in 0 .. PcmMax
  /\ pictures \in 0 .. PicturesMax
  /\ sounded \in Pts
  /\ shown \in BOOLEAN

TypeOK == InputOK /\ HostOK /\ AudioOK /\ VideoOK /\ OutputOK

(* dtaudio_decoder.c:283, "drop pcm check": no sound before the start has   *)
(* been agreed on, whichever of the decoders, the timeout or host_start     *)
(* ends the wait and in whatever order the first timestamps are read.       *)
NoSoundBeforeAgreed == sounded # NoPts => host.drop_done

(* The decoders decide each for itself, at different times, and only one of *)
(* them may find itself ahead; nor may each find itself behind, for then    *)
(* both would wait.                                                         *)
OneSideDrops ==
  LET audio_ahead == audio.drop_size > 0
      audio_waits == audio.first_vpts # NoPts /\ audio.drop_size = 0
  IN /\ ~(audio_ahead /\ video.need_drop = 1)
     /\ ~(audio_waits /\ video.need_drop = 0 /\ ~host.drop_done)

(* Audio is to drop for video, or video for audio.                          *)
Agreed(m, n) ==
  /\ file.host_drop /\ file.has = AV
  /\ ~TimedOut
  /\ file.first[n] - file.first[m] \in Threshold + 1 .. DropThreshold

(* "drop pcm": the sound begins with the frame that is due with the first   *)
(* picture, neither one earlier nor one later.                              *)
AudioDropped ==
  sounded # NoPts /\ Agreed("audio", "video") =>
    sounded \in file.first["video"] .. file.first["video"] + AFrame - 1

(* "wait video drop": the sound begins with its first frame, and not before *)
(* the video has come to the picture that is due with it.                   *)
AudioWaited ==
  sounded # NoPts /\ Agreed("video", "audio") =>
    /\ sounded = file.first["audio"]
    /\ video.picture >= file.first["audio"]

(* Whichever of the two drops, sound and picture meet.                      *)
AudioMeetsVideo == AudioDropped /\ AudioWaited

(* Both decoders, the queues between them and the IO thread, and the        *)
(* timeout: whatever waits for whatever, sound and pictures begin.          *)
BothBegin ==
  /\ <>("audio" \in file.has => sounded # NoPts \/ stopping # "no")
  /\ <>("video" \in file.has => shown \/ stopping # "no")

(* host_stop joins the decoders; also one that waits for the other or for   *)
(* room answers.                                                            *)
StopEnds == stopping # "no" ~> stopping = "done"
=============================================================================
