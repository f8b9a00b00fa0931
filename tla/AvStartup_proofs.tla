-------------------------- MODULE AvStartup_proofs --------------------------
(***************************************************************************)
(* AvStartup, for every file, queue and timeout: the types, that no sound   *)
(* begins before the start has been agreed on, and that only one of the     *)
(* decoders catches up.                                                     *)
(***************************************************************************)
EXTENDS AvStartup, TLAPS

(* The packets of a stream between the demuxer and the decoder's output.    *)
OnTheWay(m) ==
  queue[m] + (IF held = m THEN 1 ELSE 0) + (IF m = "video" THEN video.inside ELSE 0)

(* The timestamps of what is on the way are not below zero, and room in the *)
(* picture queue was seen before a picture was made.                        *)
Counted ==
  /\ \A m \in AV : Step(m) * OnTheWay(m) <= taken[m]
  /\ video.pc \in {"sync", "sync_done", "push"} => pictures < PicturesMax

TypeInv == TypeOK /\ Counted

LEMMA NoPtsInt == NoPts \in Int /\ NoPts \in Pts /\ Pts \subseteq Int
  BY DEF NoPts, Pts

LEMMA StepPositive == \A m \in AV : Step(m) \in Nat \ {0}
  <1>1. AFrame \in Nat \ {0} /\ PerPacket \in Nat \ {0} /\ VFrame \in Nat \ {0}
    BY AvStartupAssumption
  <1>2. \A a, b \in Nat \ {0} : a * b \in Nat \ {0}
    OBVIOUS
  <1> QED BY <1>1, <1>2 DEF Step, AV

LEMMA Distributes ==
  ASSUME NEW s \in Nat, NEW n \in Int
  PROVE s * (n + 1) = s * n + s
  OBVIOUS

(* The demuxer has read what the decoder takes.                             *)
LEMMA HeadIsTime ==
  ASSUME TypeInv, NEW m \in AV, queue[m] > 0
  PROVE HeadPts(m) \in Nat
  <1> DEFINE w == IF held = m THEN 1 ELSE 0
             i == IF m = "video" THEN video.inside ELSE 0
  <1>1. queue[m] \in Nat /\ taken[m] \in Nat /\ Step(m) \in Nat /\ w \in Nat
    BY StepPositive DEF TypeInv, TypeOK, InputOK
  <1>2. i \in Nat
    BY AvStartupAssumption DEF TypeInv, TypeOK, VideoOK
  <1>3. Step(m) * (queue[m] + w + i) <= taken[m]
    BY DEF TypeInv, Counted, OnTheWay
  <1>4. HeadPts(m) = taken[m] - Step(m) * (queue[m] + w)
    BY DEF HeadPts
  <1> HIDE DEF w, i
  <1>5. Step(m) * (queue[m] + w + i) = Step(m) * (queue[m] + w) + Step(m) * i
    BY <1>1, <1>2
  <1>6. Step(m) * i \in Nat /\ Step(m) * (queue[m] + w) \in Nat
    BY <1>1, <1>2
  <1> QED BY <1>1, <1>3, <1>4, <1>5, <1>6

-----------------------------------------------------------------------------
(* Which steps change what                                                  *)

LEMMA StepsOfInput ==
  ASSUME [Next]_vars
  PROVE \/ write_frame \/ \E m \in file.has : player_read_frame(m)
        \/ audio_read_frame \/ video_decode
        \/ UNCHANGED <<file, taken, held, queue>>
  BY DEF Next, vars, input, io_thread, audio_decode_loop, audio_get_first_vpts,
     audio_decide, audio_wait, audio_drop, audio_refill, audio_exit,
     audio_output_thread, video_decode_loop, video_timeout, video_get_first_apts,
     video_decide, video_wait, video_drop, video_leave_drop, queue_push_tail,
     video_exit, video_output_thread, Tick, host_start, host_stop

LEMMA StepsOfHost ==
  ASSUME [Next]_vars
  PROVE \/ audio_read_frame \/ audio_decide \/ audio_drop
        \/ video_decode \/ video_timeout \/ video_decide \/ video_drop
        \/ host_start
        \/ UNCHANGED host
  BY DEF Next, vars, io_thread, write_frame, player_read_frame, audio_decode_loop,
     audio_get_first_vpts, audio_wait, audio_refill, audio_exit,
     audio_output_thread, video_decode_loop, video_get_first_apts, video_wait,
     video_leave_drop, queue_push_tail, video_exit, video_output_thread, Tick,
     host_stop

LEMMA StepsOfAudio ==
  ASSUME [Next]_vars
  PROVE audio_decode_loop \/ UNCHANGED <<audio, sounded>>
  BY DEF Next, vars, output, io_thread, write_frame, player_read_frame,
     audio_output_thread, video_decode_loop, video_decode, video_timeout,
     video_get_first_apts, video_decide, video_wait, video_drop,
     video_leave_drop, queue_push_tail, video_exit, video_output_thread, Tick,
     host_start, host_stop

LEMMA StepsOfVideo ==
  ASSUME [Next]_vars
  PROVE video_decode_loop \/ UNCHANGED video
  BY DEF Next, vars, io_thread, write_frame, player_read_frame,
     audio_decode_loop, audio_read_frame, audio_get_first_vpts, audio_decide,
     audio_wait, audio_drop, audio_refill, audio_exit, audio_output_thread,
     video_output_thread, Tick, host_start, host_stop

LEMMA StepsOfOutput ==
  ASSUME [Next]_vars
  PROVE \/ UNCHANGED <<pcm, pictures, sounded, shown>>
        \/ audio_refill \/ audio_output_thread
        \/ queue_push_tail \/ video_output_thread
  BY DEF Next, vars, output, io_thread, write_frame, player_read_frame,
     audio_decode_loop, audio_read_frame, audio_get_first_vpts, audio_decide,
     audio_wait, audio_drop, audio_exit, video_decode_loop, video_decode,
     video_timeout, video_get_first_apts, video_decide, video_wait, video_drop,
     video_leave_drop, video_exit, Tick, host_start, host_stop

-----------------------------------------------------------------------------
(* Types                                                                    *)

LEMMA InitTyped == Init => TypeInv
  <1> SUFFICES ASSUME Init PROVE TypeInv
    OBVIOUS
  <1> USE DEF Init
  <1>1. Starts \subseteq Nat /\ DecoderDelay \in Nat /\ PicturesMax \in Nat \ {0}
        /\ PcmMax \in Nat \ {0} /\ PerPacket \in Nat \ {0} /\ Timeout \in Nat \ {0}
        /\ QueueMax \in [AV -> Nat \ {0}]
    BY AvStartupAssumption
  <1>2. InputOK
    <2>1. file \in [first : [AV -> Starts], has : SUBSET AV, host_drop : BOOLEAN]
      BY DEF AV
    <2>2. taken \in [AV -> Nat]
      BY <1>1, <2>1
    <2>3. queue \in [AV -> Nat] /\ \A m \in AV : queue[m] = 0
      OBVIOUS
    <2>4. \A m \in AV : queue[m] <= QueueMax[m]
      BY <1>1, <2>3
    <2> QED BY <2>1, <2>2, <2>3, <2>4 DEF InputOK
  <1>3. HostOK
    BY NoPtsInt DEF HostOK
  <1>4. AudioOK
    BY <1>1, NoPtsInt DEF AudioOK
  <1>5. VideoOK
    BY <1>1, NoPtsInt DEF VideoOK
  <1>6. OutputOK
    <2>1. clock = -1 /\ pcm = 0 /\ pictures = 0 /\ sounded = NoPts /\ shown = FALSE
      OBVIOUS
    <2>2. clock \in -1 .. Timeout /\ pcm \in 0 .. PcmMax /\ pictures \in 0 .. PicturesMax
      BY ONLY <1>1, <2>1
    <2>3. sounded \in Pts /\ shown \in BOOLEAN
      BY ONLY <2>1, NoPtsInt
    <2> QED BY <2>2, <2>3 DEF OutputOK
  <1>7. Counted
    <2>1. \A m \in AV : OnTheWay(m) = 0
      BY DEF OnTheWay, AV
    <2>2. \A m \in AV : taken[m] \in Nat /\ Step(m) \in Nat
      BY <1>2, StepPositive DEF InputOK
    <2>3. \A n \in Nat : n * 0 = 0
      OBVIOUS
    <2>4. \A m \in AV : Step(m) * OnTheWay(m) <= taken[m]
      BY <2>1, <2>2, <2>3
    <2> QED BY <2>4 DEF Counted
  <1> QED BY <1>2, <1>3, <1>4, <1>5, <1>6, <1>7 DEF TypeInv, TypeOK

(* A packet less in a queue.                                                *)
LEMMA Taken ==
  ASSUME InputOK, NEW m \in AV, queue[m] > 0,
         queue' = [queue EXCEPT ![m] = queue[m] - 1]
  PROVE queue' \in [AV -> Nat] /\ \A n \in AV : queue'[n] <= QueueMax[n]
  <1>1. queue \in [AV -> Nat] /\ QueueMax \in [AV -> Nat \ {0}]
    BY AvStartupAssumption DEF InputOK
  <1>2. queue' \in [AV -> Nat]
    BY <1>1
  <1>3. ASSUME NEW n \in AV PROVE queue'[n] <= QueueMax[n]
    <2>1. queue'[n] = IF n = m THEN queue[n] - 1 ELSE queue[n]
      BY <1>1
    <2>2. queue[n] \in Nat /\ QueueMax[n] \in Nat /\ queue[n] <= QueueMax[n]
      BY <1>1 DEF InputOK
    <2> QED BY ONLY <2>1, <2>2
  <1> QED BY <1>2, <1>3

LEMMA InputTyped ==
  ASSUME TypeInv, [Next]_vars
  PROVE InputOK'
  <1> USE DEF TypeInv, TypeOK
  <1>1. CASE write_frame
    <2>1. held \in AV
      BY <1>1 DEF write_frame, InputOK
    <2>2. QueueMax \in [AV -> Nat \ {0}]
      BY AvStartupAssumption
    <2>3. queue' = [queue EXCEPT ![held] = queue[held] + 1]
          /\ queue[held] < QueueMax[held]
      BY <1>1 DEF write_frame
    <2>5. queue \in [AV -> Nat] /\ \A m \in AV : queue[m] <= QueueMax[m]
      BY DEF InputOK
    <2>6. queue' \in [AV -> Nat]
      BY ONLY <2>1, <2>3, <2>5
    <2>7. ASSUME NEW m \in AV PROVE queue'[m] <= QueueMax[m]
      <3>1. queue'[m] = IF m = held THEN queue[m] + 1 ELSE queue[m]
        BY ONLY <2>3, <2>5
      <3>2. queue[m] \in Nat /\ QueueMax[m] \in Nat /\ queue[m] <= QueueMax[m]
        BY <2>2, <2>5
      <3> QED BY ONLY <2>3, <3>1, <3>2
    <2>4. UNCHANGED file /\ UNCHANGED taken /\ held' = "none"
      BY <1>1 DEF write_frame
    <2> QED BY <2>4, <2>6, <2>7 DEF InputOK
  <1>2. CASE \E m \in file.has : player_read_frame(m)
    <2>1. PICK m \in file.has : player_read_frame(m)
      BY <1>2
    <2>2. m \in AV
      BY DEF InputOK
    <2>3. taken' \in [AV -> Nat]
      BY <2>1, <2>2, StepPositive DEF player_read_frame, InputOK
    <2>4. UNCHANGED file /\ UNCHANGED queue /\ held' = m
      BY <2>1 DEF player_read_frame
    <2> QED BY <2>2, <2>3, <2>4 DEF InputOK
  <1>3. CASE audio_read_frame
    <2>1. UNCHANGED file /\ UNCHANGED taken /\ UNCHANGED held
      BY <1>3 DEF audio_read_frame, input
    <2>2. queue' = [queue EXCEPT !["audio"] = queue["audio"] - 1] /\ queue["audio"] > 0
      BY <1>3 DEF audio_read_frame
    <2>3. queue' \in [AV -> Nat] /\ \A m \in AV : queue'[m] <= QueueMax[m]
      BY <2>2, Taken DEF InputOK, AV
    <2> QED BY <2>1, <2>3 DEF InputOK
  <1>4. CASE video_decode
    <2>1. UNCHANGED file /\ UNCHANGED taken /\ UNCHANGED held
      BY <1>4 DEF video_decode, input
    <2>2. queue' = [queue EXCEPT !["video"] = queue["video"] - 1] /\ queue["video"] > 0
      BY <1>4 DEF video_decode
    <2>3. queue' \in [AV -> Nat] /\ \A m \in AV : queue'[m] <= QueueMax[m]
      BY <2>2, Taken DEF InputOK, AV
    <2> QED BY <2>1, <2>3 DEF InputOK
  <1>5. CASE UNCHANGED <<file, taken, held, queue>>
    BY <1>5 DEF InputOK
  <1> QED BY <1>1, <1>2, <1>3, <1>4, <1>5, StepsOfInput

(* What the decoders write into the host and keep themselves.               *)
LEMMA AudioHead ==
  ASSUME TypeInv, audio_read_frame
  PROVE HeadPts("audio") \in Pts
  BY HeadIsTime DEF audio_read_frame, Pts, AV

LEMMA VideoHead ==
  ASSUME TypeInv, video_decode, video.inside = DecoderDelay
  PROVE HeadPts("video") - VFrame * DecoderDelay \in Nat
  <1> DEFINE w == IF held = "video" THEN 1 ELSE 0
  <1>1. queue["video"] \in Nat /\ taken["video"] \in Nat /\ w \in Nat
    BY DEF TypeInv, TypeOK, InputOK, AV
  <1>2. VFrame \in Nat /\ DecoderDelay \in Nat /\ Step("video") = VFrame
    BY AvStartupAssumption DEF Step
  <1>3. VFrame * (queue["video"] + w + DecoderDelay) <= taken["video"]
    BY <1>2 DEF TypeInv, Counted, OnTheWay, AV
  <1>4. HeadPts("video") = taken["video"] - VFrame * (queue["video"] + w)
    BY <1>2 DEF HeadPts
  <1> HIDE DEF w
  <1>5. VFrame * (queue["video"] + w + DecoderDelay)
          = VFrame * (queue["video"] + w) + VFrame * DecoderDelay
    BY <1>1, <1>2
  <1>6. VFrame * (queue["video"] + w) \in Int /\ VFrame * DecoderDelay \in Int
    BY <1>1, <1>2
  <1> QED BY <1>1, <1>3, <1>4, <1>5, <1>6

(* Apart from the first timestamps only drop_done is written, and never     *)
(* taken back.                                                              *)
LEMMA DropDone ==
  ASSUME TypeInv,
         audio_decide \/ audio_drop \/ video_timeout \/ video_decide \/ video_drop
         \/ host_start
  PROVE \E b \in BOOLEAN :
          /\ host' = [host EXCEPT !.drop_done = b]
          /\ host.drop_done => b
  <1>1. host.drop_done \in BOOLEAN /\ file.host_drop \in BOOLEAN
    BY DEF TypeInv, TypeOK, HostOK, InputOK
  <1>2. CASE audio_decide
    BY <1>1, <1>2 DEF audio_decide
  <1>3. CASE audio_drop
    BY <1>1, <1>3 DEF audio_drop
  <1>4. CASE video_timeout
    BY <1>1, <1>4 DEF video_timeout
  <1>5. CASE video_decide
    BY <1>1, <1>5 DEF video_decide
  <1>6. CASE video_drop
    BY <1>1, <1>6 DEF video_drop
  <1>7. CASE host_start
    BY <1>1, <1>7 DEF host_start
  <1> QED BY <1>2, <1>3, <1>4, <1>5, <1>6, <1>7

LEMMA HostTyped ==
  ASSUME TypeInv, [Next]_vars
  PROVE HostOK'
  <1> DEFINE T == [pts_audio_first : Pts, pts_video_first : Pts, drop_done : BOOLEAN]
  <1>1. host \in T
    BY DEF TypeInv, TypeOK, HostOK
  <1>2. host' \in T
    <2>1. ASSUME NEW b \in BOOLEAN PROVE [host EXCEPT !.drop_done = b] \in T
      BY <1>1
    <2>2. CASE audio_read_frame
      <3>1. host' = [host EXCEPT !.pts_audio_first =
                       IF host.pts_audio_first = NoPts THEN HeadPts("audio")
                       ELSE host.pts_audio_first]
        BY <2>2 DEF audio_read_frame
      <3> HIDE DEF T
      <3>2. HeadPts("audio") \in Pts
        BY <2>2, AudioHead
      <3> QED BY ONLY <1>1, <3>1, <3>2 DEF T
    <2>3. CASE video_decode
      <3>1. CASE UNCHANGED host
        BY <1>1, <3>1
      <3>2. CASE VideoDecodes /\ video.inside = DecoderDelay
        <4> DEFINE pts == HeadPts("video") - VFrame * DecoderDelay
        <4>1. host' = [host EXCEPT !.pts_video_first =
                         IF host.pts_video_first = NoPts THEN pts
                         ELSE host.pts_video_first]
          BY <2>3, <3>2 DEF video_decode
        <4>2. pts \in Pts
          BY <2>3, <3>2, VideoHead DEF Pts
        <4> HIDE DEF pts, T
        <4> QED BY ONLY <1>1, <4>1, <4>2 DEF T
      <3> QED BY <2>3, <3>1, <3>2 DEF video_decode
    <2>5. CASE UNCHANGED host
      BY <1>1, <2>5
    <2>6. CASE \/ audio_decide \/ audio_drop \/ video_timeout \/ video_decide
               \/ video_drop \/ host_start
      <3>1. PICK b \in BOOLEAN : host' = [host EXCEPT !.drop_done = b]
        BY <2>6, DropDone
      <3> QED BY <2>1, <3>1
    <2> HIDE DEF T
    <2> QED BY <2>2, <2>3, <2>5, <2>6, StepsOfHost
  <1>3. started' \in BOOLEAN
    <2>1. started' = TRUE \/ UNCHANGED started
      BY DEF Next, vars, io_thread, write_frame, player_read_frame,
         audio_decode_loop, audio_read_frame, audio_get_first_vpts, audio_decide,
         audio_wait, audio_drop, audio_refill, audio_exit, audio_output_thread,
         video_decode_loop, video_decode, video_timeout, video_get_first_apts,
         video_decide, video_wait, video_drop, video_leave_drop, queue_push_tail,
         video_exit, video_output_thread, Tick, host_start, host_stop
    <2> QED BY <2>1 DEF TypeInv, TypeOK, HostOK
  <1>4. stopping' \in {"no", "audio", "video", "done"}
    <2>1. host_stop \/ UNCHANGED stopping
      BY DEF Next, vars, io_thread, write_frame, player_read_frame,
         audio_decode_loop, audio_read_frame, audio_get_first_vpts, audio_decide,
         audio_wait, audio_drop, audio_refill, audio_exit, audio_output_thread,
         video_decode_loop, video_decode, video_timeout, video_get_first_apts,
         video_decide, video_wait, video_drop, video_leave_drop, queue_push_tail,
         video_exit, video_output_thread, Tick, host_start
    <2>2. CASE host_stop
      BY <2>2 DEF host_stop, TypeInv, TypeOK, HostOK
    <2> QED BY <2>1, <2>2 DEF TypeInv, TypeOK, HostOK
  <1> QED BY <1>2, <1>3, <1>4 DEF HostOK

LEMMA AudioTyped ==
  ASSUME TypeInv, [Next]_vars
  PROVE AudioOK'
  <1> USE DEF TypeInv, TypeOK
  <1> DEFINE T == [pc : {"read", "sync", "sync_done", "refill", "exited"},
                   drop_done : BOOLEAN, first_vpts : Pts,
                   drop_size : Nat \cup {-1}, inlen : 0 .. PerPacket, frame : Pts]
  <1>1. audio \in T
    BY DEF AudioOK
  <1>2. PerPacket \in Nat \ {0} /\ AFrame \in Nat \ {0}
    BY AvStartupAssumption
  <1>3. /\ host.drop_done \in BOOLEAN
        /\ host.pts_audio_first \in Pts /\ host.pts_video_first \in Pts
    BY DEF HostOK
  <1>4. ASSUME NEW b \in BOOLEAN
        PROVE AudioNext(b) \in {"sync", "refill"}
    BY DEF AudioNext
  <1>5. CASE audio_read_frame
    <2>1. HeadPts("audio") \in Pts
      BY <1>5, AudioHead
    <2>2. AudioNext(audio.drop_done) \in {"sync", "refill"}
      BY <1>1, <1>4
    <2>3. PerPacket \in 0 .. PerPacket
      BY <1>2
    <2> QED BY <1>1, <1>5, <2>1, <2>2, <2>3 DEF audio_read_frame, AudioOK
  <1>6. CASE audio_get_first_vpts
    BY <1>1, <1>3, <1>6 DEF audio_get_first_vpts, AudioOK
  <1>7. CASE audio_decide
    <2> DEFINE diff == audio.first_vpts - host.pts_audio_first
               close == audio.first_vpts # NoPts /\ diff >= 0 /\ TooClose(diff)
               done == host.drop_done \/ close
               size == IF audio.first_vpts = NoPts \/ close THEN audio.drop_size
                       ELSE IF diff < 0 THEN 0 ELSE diff
    <2>1. audio' = [audio EXCEPT !.drop_done = done, !.drop_size = size,
                                 !.pc = AudioNext(done)]
      BY <1>7 DEF audio_decide
    <2>6. audio.first_vpts \in Pts /\ audio.drop_size \in Nat \cup {-1}
      BY <1>1
    <2>7. audio.first_vpts \in Int /\ host.pts_audio_first \in Int
      BY <1>3, <2>6, NoPtsInt
    <2>2. diff \in Int /\ audio.drop_size \in Nat \cup {-1}
      BY ONLY <2>6, <2>7
    <2>3. done \in BOOLEAN
      OBVIOUS
    <2> HIDE DEF diff
    <2>4. size \in Nat \cup {-1}
      BY <2>2
    <2> HIDE DEF size, done
    <2>5. AudioNext(done) \in {"sync", "refill"}
      BY <1>4, <2>3
    <2> QED BY <1>1, <2>1, <2>3, <2>4, <2>5 DEF AudioOK
  <1>8. CASE audio_wait
    <2>1. AudioNext(host.drop_done) \in {"sync", "refill"}
      BY <1>3, <1>4
    <2> QED BY <1>1, <1>3, <1>8, <2>1 DEF audio_wait, AudioOK
  <1>9. CASE audio_drop
    <2> DEFINE left == audio.drop_size - AFrame
               size == IF left <= 0 THEN 0 ELSE left
    <2>1. audio' = [audio EXCEPT !.drop_done = host.drop_done, !.drop_size = size,
                                 !.inlen = 0, !.pc = "read"]
      BY <1>9 DEF audio_drop
    <2>2. audio.drop_size \in Int
      BY <1>1
    <2>3. size \in Nat /\ 0 \in 0 .. PerPacket
      BY <1>2, <2>2
    <2> HIDE DEF size
    <2> QED BY <1>1, <1>3, <2>1, <2>3 DEF AudioOK
  <1>10. CASE audio_refill
    <2>1. CASE audio.inlen > 1
      <3>1. audio' = [audio EXCEPT !.inlen = audio.inlen - 1,
                                   !.frame = audio.frame + AFrame,
                                   !.pc = AudioNext(audio.drop_done)]
        BY <1>10, <2>1 DEF audio_refill
      <3>2. audio.inlen \in 0 .. PerPacket /\ audio.frame \in Pts
        BY <1>1
      <3>3. audio.inlen - 1 \in 0 .. PerPacket
        BY <1>2, <2>1, <3>2
      <3>4. audio.frame + AFrame \in Pts
        BY <1>2, <3>2 DEF Pts, NoPts
      <3>5. AudioNext(audio.drop_done) \in {"sync", "refill"}
        BY <1>1, <1>4
      <3> QED BY <1>1, <3>1, <3>3, <3>4, <3>5 DEF AudioOK
    <2>2. CASE ~(audio.inlen > 1)
      <3>1. audio' = [audio EXCEPT !.inlen = 0, !.pc = "read"]
        BY <1>10, <2>2 DEF audio_refill
      <3>2. 0 \in 0 .. PerPacket
        BY <1>2
      <3> QED BY <1>1, <3>1, <3>2 DEF AudioOK
    <2> QED BY <2>1, <2>2
  <1>11. CASE audio_exit
    BY <1>1, <1>11 DEF audio_exit, AudioOK
  <1>12. CASE UNCHANGED audio
    BY <1>12 DEF AudioOK
  <1> QED BY <1>5, <1>6, <1>7, <1>8, <1>9, <1>10, <1>11, <1>12, StepsOfAudio
          DEF audio_decode_loop

LEMMA VideoTyped ==
  ASSUME TypeInv, [Next]_vars
  PROVE VideoOK'
  <1> USE DEF TypeInv, TypeOK
  <1> DEFINE T == [pc : {"read", "sync", "sync_done", "push", "exited"},
                   drop_done : BOOLEAN, first_apts : Pts, need_drop : {-1, 0, 1},
                   inside : 0 .. DecoderDelay, picture : Pts]
  <1>1. video \in T
    BY DEF VideoOK
  <1>2. DecoderDelay \in Nat
    BY AvStartupAssumption
  <1>3. /\ host.drop_done \in BOOLEAN
        /\ host.pts_audio_first \in Pts /\ host.pts_video_first \in Pts
    BY DEF HostOK
  <1>4. ASSUME NEW b \in BOOLEAN
        PROVE VideoNext(b) \in {"sync", "push"}
    BY DEF VideoNext
  <1>5. CASE video_decode
    <2> DEFINE pts == HeadPts("video") - VFrame * DecoderDelay
    <2>1. CASE VideoDecodes /\ video.inside = DecoderDelay
      <3>1. video' = [video EXCEPT !.picture = pts, !.pc = VideoNext(video.drop_done)]
        BY <1>5, <2>1 DEF video_decode
      <3>2. pts \in Pts
        BY <1>5, <2>1, VideoHead DEF Pts
      <3>3. VideoNext(video.drop_done) \in {"sync", "push"}
        BY <1>1, <1>4
      <3> HIDE DEF pts
      <3> QED BY <1>1, <3>1, <3>2, <3>3 DEF VideoOK
    <2>2. CASE ~(VideoDecodes /\ video.inside = DecoderDelay)
      <3> DEFINE n == IF VideoDecodes THEN video.inside + 1 ELSE video.inside
      <3>1. video' = [video EXCEPT !.inside = n]
        BY <1>5, <2>2 DEF video_decode
      <3>2. video.inside \in 0 .. DecoderDelay
        BY <1>1
      <3>3. n \in 0 .. DecoderDelay
        BY <1>2, <2>2, <3>2
      <3> HIDE DEF n
      <3> QED BY <1>1, <3>1, <3>3 DEF VideoOK
    <2> QED BY <2>1, <2>2
  <1>6. CASE video_timeout
    BY <1>1, <1>6 DEF video_timeout, VideoOK
  <1>7. CASE video_get_first_apts
    BY <1>1, <1>3, <1>7 DEF video_get_first_apts, VideoOK
  <1>8. CASE video_decide
    <2> DEFINE diff == video.first_apts - host.pts_video_first
               close == video.first_apts # NoPts /\ diff >= 0 /\ TooClose(diff)
               done == host.drop_done \/ close
               need == IF video.first_apts = NoPts \/ close THEN video.need_drop
                       ELSE IF diff < 0 THEN 0 ELSE 1
    <2>1. video' = [video EXCEPT !.drop_done = done, !.need_drop = need,
                                 !.pc = VideoNext(done)]
      BY <1>8 DEF video_decide
    <2>2. video.need_drop \in {-1, 0, 1}
      BY <1>1
    <2>3. done \in BOOLEAN
      OBVIOUS
    <2> HIDE DEF diff, close
    <2>4. need \in {-1, 0, 1}
      BY <2>2
    <2> HIDE DEF need, done
    <2>5. VideoNext(done) \in {"sync", "push"}
      BY <1>4, <2>3
    <2> QED BY <1>1, <2>1, <2>3, <2>4, <2>5 DEF VideoOK
  <1>9. CASE video_wait
    <2>1. VideoNext(host.drop_done) \in {"sync", "push"}
      BY <1>3, <1>4
    <2> QED BY <1>1, <1>3, <1>9, <2>1 DEF video_wait, VideoOK
  <1>10. CASE video_drop
    <2>1. PICK b \in BOOLEAN : video' = [video EXCEPT !.drop_done = b, !.pc = "push"]
      BY <1>10 DEF video_drop
    <2> QED BY <1>1, <2>1 DEF VideoOK
  <1>11. CASE video_leave_drop
    BY <1>1, <1>11 DEF video_leave_drop, VideoOK
  <1>12. CASE queue_push_tail
    BY <1>1, <1>12 DEF queue_push_tail, VideoOK
  <1>13. CASE video_exit
    BY <1>1, <1>13 DEF video_exit, VideoOK
  <1>14. CASE UNCHANGED video
    BY <1>14 DEF VideoOK
  <1> QED BY <1>5, <1>6, <1>7, <1>8, <1>9, <1>10, <1>11, <1>12, <1>13, <1>14,
             StepsOfVideo
          DEF video_decode_loop

LEMMA ClockTyped ==
  ASSUME TypeInv, [Next]_vars
  PROVE clock' \in -1 .. Timeout
  <1>1. clock \in -1 .. Timeout /\ Timeout \in Nat \ {0}
    BY AvStartupAssumption DEF TypeInv, TypeOK, OutputOK
  <1>2. Tick \/ Clocked \/ UNCHANGED clock
    BY DEF Next, vars, io_thread, write_frame, player_read_frame,
       audio_decode_loop, audio_read_frame, audio_get_first_vpts, audio_decide,
       audio_wait, audio_drop, audio_refill, audio_exit, audio_output_thread,
       video_decode_loop, video_decode, video_timeout, video_get_first_apts,
       video_decide, video_wait, video_drop, video_leave_drop, queue_push_tail,
       video_exit, video_output_thread, host_start, host_stop
  <1>3. CASE Tick
    BY <1>1, <1>3 DEF Tick
  <1>4. CASE Clocked
    BY <1>1, <1>4 DEF Clocked
  <1> QED BY <1>1, <1>2, <1>3, <1>4

(* A picture is made only when there is room for it, and is queued before   *)
(* the next one is made.                                                    *)
LEMMA PicturesTyped ==
  ASSUME TypeInv, [Next]_vars
  PROVE /\ pictures' \in 0 .. PicturesMax
        /\ video'.pc \in {"sync", "sync_done", "push"} => pictures' < PicturesMax
  <1> DEFINE Made == video.pc \in {"sync", "sync_done", "push"}
  <1>1. /\ pictures \in 0 .. PicturesMax /\ PicturesMax \in Nat \ {0}
        /\ Made => pictures < PicturesMax
    BY AvStartupAssumption DEF TypeInv, TypeOK, OutputOK, Counted
  <1>2. DOMAIN video = {"pc", "drop_done", "first_apts", "need_drop", "inside", "picture"}
        /\ video = [f \in DOMAIN video |-> video[f]]
    BY DEF TypeInv, TypeOK, VideoOK
  <1>3. CASE queue_push_tail
    <2>1. pictures' = pictures + 1 /\ video'.pc = "read" /\ Made
      BY <1>2, <1>3 DEF queue_push_tail
    <2> QED BY <1>1, <2>1
  <1>4. CASE video_output_thread
    <2>1. pictures' = pictures - 1 /\ pictures > 0 /\ video' = video
      BY <1>4 DEF video_output_thread
    <2>2. pictures' \in 0 .. PicturesMax /\ pictures' < PicturesMax
      BY <1>1, <2>1
    <2> QED BY <2>2
  <1>5. CASE UNCHANGED pictures
    <2>1. CASE video_decode
      <3>1. pictures < PicturesMax
        BY <2>1 DEF video_decode
      <3> QED BY <1>1, <1>5, <3>1
    <2>2. CASE Made
      BY <1>1, <1>5, <2>2
    <2>3. CASE ~video_decode /\ ~Made
      <3>1. video' = video \/ video_exit
        BY <1>5, <2>3, StepsOfVideo
           DEF video_decode_loop, video_timeout, video_get_first_apts, video_decide,
               video_wait, video_drop, video_leave_drop, queue_push_tail
      <3>2. CASE video_exit
        <4>1. video'.pc = "exited"
          BY <1>2, <3>2 DEF video_exit
        <4> QED BY <1>1, <1>5, <4>1
      <3> QED BY <1>1, <1>5, <2>3, <3>1, <3>2
    <2> QED BY <2>1, <2>2, <2>3
  <1> QED BY <1>3, <1>4, <1>5, StepsOfOutput DEF audio_refill, audio_output_thread

LEMMA OutputTyped ==
  ASSUME TypeInv, [Next]_vars
  PROVE OutputOK'
  <1>1. pcm \in 0 .. PcmMax /\ PcmMax \in Nat \ {0}
    BY AvStartupAssumption DEF TypeInv, TypeOK, OutputOK
  <1>2. sounded \in Pts /\ shown \in BOOLEAN /\ audio.frame \in Pts
    BY DEF TypeInv, TypeOK, OutputOK, AudioOK
  <1>3. pcm' \in 0 .. PcmMax
    <2>1. CASE audio_refill
      BY <1>1, <2>1 DEF audio_refill
    <2>2. CASE audio_output_thread
      BY <1>1, <2>2 DEF audio_output_thread
    <2>3. CASE UNCHANGED pcm
      BY <1>1, <2>3
    <2> QED BY <2>1, <2>2, <2>3, StepsOfOutput DEF queue_push_tail, video_output_thread
  <1>4. sounded' \in Pts
    BY <1>2, StepsOfOutput
       DEF audio_refill, audio_output_thread, queue_push_tail, video_output_thread
  <1>5. shown' \in BOOLEAN
    BY <1>2, StepsOfOutput
       DEF audio_refill, audio_output_thread, queue_push_tail, video_output_thread
  <1> QED BY <1>3, <1>4, <1>5, ClockTyped, PicturesTyped DEF OutputOK

-----------------------------------------------------------------------------
(* What is on the way                                                       *)

LEMMA OnTheWayNat ==
  ASSUME TypeInv, NEW m \in AV
  PROVE /\ OnTheWay(m) \in Nat /\ taken[m] \in Nat /\ Step(m) \in Nat
        /\ Step(m) * OnTheWay(m) <= taken[m]
  <1> DEFINE w == IF held = m THEN 1 ELSE 0
             i == IF m = "video" THEN video.inside ELSE 0
  <1>1. queue[m] \in Nat /\ taken[m] \in Nat /\ Step(m) \in Nat
    BY StepPositive DEF TypeInv, TypeOK, InputOK
  <1>2. i \in Nat /\ w \in Nat
    BY AvStartupAssumption DEF TypeInv, TypeOK, VideoOK
  <1>3. OnTheWay(m) = queue[m] + w + i
    BY DEF OnTheWay
  <1>4. OnTheWay(m) \in Nat
    <2> HIDE DEF w, i
    <2> QED BY <1>1, <1>2, <1>3
  <1>5. Step(m) * OnTheWay(m) <= taken[m]
    BY DEF TypeInv, Counted
  <1> QED BY <1>1, <1>4, <1>5

LEMMA Fewer ==
  ASSUME NEW s \in Nat, NEW a \in Nat, NEW b \in Nat, NEW t \in Nat,
         b <= a, s * a <= t
  PROVE s * b <= t
  <1>1. PICK d \in Nat : a = b + d
    <2> WITNESS a - b \in Nat
    <2> QED OBVIOUS
  <1>2. s * (b + d) = s * b + s * d
    BY <1>1
  <1>3. s * d \in Nat /\ s * b \in Nat
    BY <1>1
  <1> QED BY <1>1, <1>2, <1>3

(* Only the step that reads a packet changes what is inside the decoder.    *)
LEMMA InsideKept ==
  ASSUME TypeInv, [Next]_vars, ~video_decode
  PROVE video'.inside = video.inside
  <1>1. DOMAIN video = {"pc", "drop_done", "first_apts", "need_drop", "inside", "picture"}
        /\ video = [f \in DOMAIN video |-> video[f]]
    BY DEF TypeInv, TypeOK, VideoOK
  <1> QED BY <1>1, StepsOfVideo
          DEF video_decode_loop, video_timeout, video_get_first_apts, video_decide,
              video_wait, video_drop, video_leave_drop, queue_push_tail, video_exit

(* The timestamp of what the decoder of m gives next, and the steps in      *)
(* which it is given, or taken by a decoder that gives nothing.             *)
Ahead(m) == taken[m] - Step(m) * OnTheWay(m)

Leaves(m) ==
  \/ m = "audio" /\ audio_read_frame
  \/ m = "video" /\ video_decode /\ video'.inside = video.inside

LEMMA AheadMoves ==
  ASSUME TypeInv, [Next]_vars, NEW m \in AV
  PROVE Ahead(m)' = IF Leaves(m) THEN Ahead(m) + Step(m) ELSE Ahead(m)
  <1> DEFINE w == IF held = m THEN 1 ELSE 0
             i == IF m = "video" THEN video.inside ELSE 0
  <1>1. /\ OnTheWay(m) = queue[m] + w + i
        /\ OnTheWay(m)' = queue'[m] + w' + i'
    BY DEF OnTheWay
  <1>2. queue \in [AV -> Nat] /\ taken \in [AV -> Nat] /\ held \in AV \cup {"none"}
    BY DEF TypeInv, TypeOK, InputOK
  <1>3. video.inside \in Nat /\ video'.inside \in Nat
    BY AvStartupAssumption, VideoTyped DEF TypeInv, TypeOK, VideoOK
  <1>4. i \in Nat /\ i' \in Nat /\ w \in {0, 1} /\ w' \in {0, 1}
    BY <1>3
  <1>5. queue[m] \in Nat /\ queue'[m] \in Nat /\ taken[m] \in Nat /\ taken'[m] \in Nat
    BY <1>2, InputTyped DEF InputOK
  <1>6. OnTheWay(m) \in Nat /\ OnTheWay(m)' \in Nat /\ Step(m) \in Nat
    <2> HIDE DEF w, i
    <2> QED BY <1>1, <1>4, <1>5, StepPositive
  <1>7. /\ Ahead(m) = taken[m] - Step(m) * OnTheWay(m)
        /\ Ahead(m)' = taken'[m] - Step(m) * OnTheWay(m)'
    BY DEF Ahead, Step
  (* One packet less on the way, one more, and the same ones.               *)
  <1>8. ASSUME OnTheWay(m)' = OnTheWay(m) - 1, taken'[m] = taken[m]
        PROVE Ahead(m)' = Ahead(m) + Step(m)
    <2>1. Step(m) * (OnTheWay(m) - 1 + 1) = Step(m) * (OnTheWay(m) - 1) + Step(m)
      BY <1>6, Distributes
    <2>2. Step(m) * (OnTheWay(m) - 1) \in Int
      BY <1>6
    <2>3. OnTheWay(m) - 1 + 1 = OnTheWay(m)
      BY <1>6
    <2> QED BY <1>5, <1>6, <1>7, <1>8, <2>1, <2>2, <2>3
  <1>9. ASSUME OnTheWay(m)' = OnTheWay(m) + 1, taken'[m] = taken[m] + Step(m)
        PROVE Ahead(m)' = Ahead(m)
    <2>1. Step(m) * (OnTheWay(m) + 1) = Step(m) * OnTheWay(m) + Step(m)
      BY <1>6, Distributes
    <2>2. Step(m) * OnTheWay(m) \in Int
      BY <1>6
    <2> QED BY <1>5, <1>6, <1>7, <1>9, <2>1, <2>2
  <1>10. ASSUME OnTheWay(m)' = OnTheWay(m), taken'[m] = taken[m]
         PROVE Ahead(m)' = Ahead(m)
    BY <1>7, <1>10
  <1>11. CASE write_frame
    <2>1. queue'[m] = IF m = held THEN queue[m] + 1 ELSE queue[m]
      BY <1>2, <1>11 DEF write_frame
    <2>2. held' = "none" /\ "none" \notin AV /\ taken' = taken
      BY <1>11 DEF write_frame, input, AV
    <2>3. i' = i /\ audio' = audio /\ video' = video
      BY <1>11 DEF write_frame
    <2>4. w = (IF m = held THEN 1 ELSE 0) /\ w' = 0
      BY <2>2
    <2>5. ~Leaves(m)
      BY <1>2, <1>5, <1>11, <2>2, <2>3 DEF Leaves, write_frame, audio_read_frame, video_decode,
         input
    <2> HIDE DEF w, i
    <2>6. OnTheWay(m)' = OnTheWay(m)
      BY <1>1, <1>4, <1>5, <2>1, <2>3, <2>4
    <2> QED BY <1>10, <2>2, <2>5, <2>6
  <1>12. CASE \E n \in file.has : player_read_frame(n)
    <2>1. PICK n \in file.has : player_read_frame(n)
      BY <1>12
    <2>2. n \in AV
      BY DEF TypeInv, TypeOK, InputOK
    <2>3. held = "none" /\ held' = n /\ queue' = queue /\ video' = video
          /\ taken' = [taken EXCEPT ![n] = taken[n] + Step(n)]
      BY <2>1 DEF player_read_frame
    <2>4. i' = i /\ "none" \notin AV
      BY <2>3 DEF AV
    <2>5. w = 0 /\ w' = (IF n = m THEN 1 ELSE 0)
      BY <2>3, <2>4
    <2>6. ~Leaves(m)
      BY <2>2, <2>3, <2>4 DEF Leaves, audio_read_frame, video_decode, input
    <2>7. CASE n = m
      <3>1. taken'[m] = taken[m] + Step(m)
        BY <1>2, <2>3, <2>7
      <3>2. queue'[m] = queue[m]
        BY <2>3
      <3> HIDE DEF w, i
      <3>3. OnTheWay(m)' = OnTheWay(m) + 1
        BY <1>1, <1>4, <1>5, <2>4, <2>5, <2>7, <3>2
      <3> QED BY <1>9, <2>6, <3>1, <3>3
    <2>8. CASE n # m
      <3>1. taken'[m] = taken[m]
        BY <1>2, <2>2, <2>3, <2>8
      <3>2. queue'[m] = queue[m] /\ w' = w
        BY <2>3, <2>5, <2>8
      <3> HIDE DEF w, i
      <3>3. OnTheWay(m)' = OnTheWay(m)
        BY <1>1, <2>4, <3>2
      <3> QED BY <1>10, <2>6, <3>1, <3>3
    <2> QED BY <2>7, <2>8
  <1>13. CASE audio_read_frame
    <2>1. held' = held /\ taken' = taken /\ video' = video
          /\ queue["audio"] > 0
          /\ queue' = [queue EXCEPT !["audio"] = queue["audio"] - 1]
      BY <1>13 DEF audio_read_frame, input
    <2>2. w' = w /\ i' = i
      BY <2>1
    <2>3. queue'[m] = IF m = "audio" THEN queue[m] - 1 ELSE queue[m]
      BY <1>2, <2>1
    <2>4. Leaves(m) <=> m = "audio"
      <3>1. ~video_decode
        BY <1>2, <2>1 DEF video_decode, AV
      <3> QED BY <1>13, <3>1 DEF Leaves
    <2> HIDE DEF w, i
    <2>5. CASE m = "audio"
      <3>1. OnTheWay(m)' = OnTheWay(m) - 1
        BY <1>1, <1>4, <1>5, <2>2, <2>3, <2>5
      <3> QED BY <1>8, <2>1, <2>4, <2>5, <3>1
    <2>6. CASE m # "audio"
      <3>1. OnTheWay(m)' = OnTheWay(m)
        BY <1>1, <2>2, <2>3, <2>6
      <3> QED BY <1>10, <2>1, <2>4, <2>6, <3>1
    <2> QED BY <2>5, <2>6
  <1>14. CASE video_decode
    <2>1. held' = held /\ taken' = taken /\ queue["video"] > 0
          /\ queue' = [queue EXCEPT !["video"] = queue["video"] - 1]
      BY <1>14 DEF video_decode, input
    <2>2. DOMAIN video = {"pc", "drop_done", "first_apts", "need_drop", "inside", "picture"}
          /\ video = [f \in DOMAIN video |-> video[f]]
      BY DEF TypeInv, TypeOK, VideoOK
    <2>3. video'.inside = video.inside \/ video'.inside = video.inside + 1
      BY <1>14, <2>2 DEF video_decode
    <2>4. queue'[m] = IF m = "video" THEN queue[m] - 1 ELSE queue[m]
      BY <1>2, <2>1
    <2>5. w' = w
      BY <2>1
    <2>6. Leaves(m) <=> m = "video" /\ video'.inside = video.inside
      <3>1. ~audio_read_frame
        BY <1>2, <2>1 DEF audio_read_frame, AV
      <3> QED BY <1>14, <3>1 DEF Leaves
    <2>7. CASE m = "video" /\ video'.inside = video.inside
      <3>1. i' = i
        BY <2>7
      <3> HIDE DEF w, i
      <3>2. OnTheWay(m)' = OnTheWay(m) - 1
        BY <1>1, <1>4, <1>5, <2>4, <2>5, <2>7, <3>1
      <3> QED BY <1>8, <2>1, <2>6, <2>7, <3>2
    <2>8. CASE m = "video" /\ video'.inside # video.inside
      <3>1. i' = i + 1
        BY <2>3, <2>8
      <3> HIDE DEF w, i
      <3>2. OnTheWay(m)' = OnTheWay(m)
        BY <1>1, <1>4, <1>5, <2>4, <2>5, <2>8, <3>1
      <3> QED BY <1>10, <2>1, <2>6, <2>8, <3>2
    <2>9. CASE m # "video"
      <3>1. i' = i
        BY <2>9
      <3> HIDE DEF w, i
      <3>2. OnTheWay(m)' = OnTheWay(m)
        BY <1>1, <2>4, <2>5, <2>9, <3>1
      <3> QED BY <1>10, <2>1, <2>6, <2>9, <3>2
    <2> QED BY <2>7, <2>8, <2>9
  <1>15. CASE UNCHANGED <<file, taken, held, queue>> /\ ~video_decode
    <2>1. i' = i /\ w' = w /\ queue' = queue /\ taken' = taken
      BY <1>15, InsideKept
    <2>2. ~Leaves(m)
      BY <1>2, <1>15 DEF Leaves, audio_read_frame, AV
    <2>3. OnTheWay(m)' = OnTheWay(m)
      <3> HIDE DEF w, i
      <3> QED BY <1>1, <2>1
    <2> QED BY <1>10, <2>1, <2>2, <2>3
  <1> QED BY <1>11, <1>12, <1>13, <1>14, <1>15, StepsOfInput

LEMMA StaysCounted ==
  ASSUME TypeInv, [Next]_vars, NEW m \in AV
  PROVE Step(m) * OnTheWay(m)' <= taken'[m]
  <1>1. /\ OnTheWay(m) \in Nat /\ taken[m] \in Nat /\ Step(m) \in Nat
        /\ Step(m) * OnTheWay(m) <= taken[m]
    BY OnTheWayNat
  <1>2. Ahead(m) \in Nat
    <2>1. Step(m) * OnTheWay(m) \in Nat
      BY <1>1
    <2> QED BY <1>1, <2>1 DEF Ahead
  <1>3. Ahead(m)' \in Nat
    BY <1>1, <1>2, AheadMoves
  <1>4. Ahead(m)' = taken'[m] - Step(m) * OnTheWay(m)'
    BY DEF Ahead, Step
  <1>5. taken'[m] \in Nat /\ Step(m) * OnTheWay(m)' \in Int
    <2>1. queue'[m] \in Nat /\ taken'[m] \in Nat
      BY InputTyped DEF InputOK
    <2>2. video'.inside \in Nat
      BY AvStartupAssumption, VideoTyped DEF VideoOK
    <2>3. OnTheWay(m)' \in Int
      BY <2>1, <2>2 DEF OnTheWay
    <2> QED BY <1>1, <2>1, <2>3
  <1> QED BY <1>3, <1>4, <1>5

LEMMA StepTyped ==
  ASSUME TypeInv, [Next]_vars
  PROVE TypeInv'
  <1>1. Counted'
    BY StaysCounted, PicturesTyped DEF Counted, Step
  <1> QED BY <1>1, InputTyped, HostTyped, AudioTyped, VideoTyped, OutputTyped
          DEF TypeInv, TypeOK

(* The types of AvStartup, with the bounds of the queues, for every file    *)
(* and all limits: the decoders' checks of the picture queue and of the PCM *)
(* buffer keep them bounded, and no timestamp below zero is computed from   *)
(* what the queues hold.                                                    *)
THEOREM StartupTyped == Spec => []TypeOK
  <1>1. Init => TypeInv
    BY InitTyped
  <1>2. TypeInv /\ [Next]_vars => TypeInv'
    BY StepTyped
  <1>3. TypeInv => TypeOK
    BY DEF TypeInv
  <1> QED BY <1>1, <1>2, <1>3, PTL DEF Spec

-----------------------------------------------------------------------------
(* What the decoders agree on                                               *)

Known(pts) == pts # NoPts

(* What the audio decoder has found out; where it stands tells what it knows*)
(* of its own beginning.                                                    *)
AudioView ==
  /\ audio.pc \in {"sync", "sync_done"} => Known(host.pts_audio_first)
  /\ Known(audio.first_vpts) => audio.first_vpts = host.pts_video_first
  /\ audio.drop_size > 0 =>
       /\ Known(host.pts_audio_first) /\ Known(host.pts_video_first)
       /\ host.pts_video_first > host.pts_audio_first
  /\ audio.drop_size = 0 =>
       \/ host.drop_done
       \/ /\ Known(host.pts_audio_first) /\ Known(host.pts_video_first)
          /\ host.pts_audio_first > host.pts_video_first

VideoView ==
  /\ video.pc \in {"sync", "sync_done"} => Known(host.pts_video_first)
  /\ Known(video.first_apts) => video.first_apts = host.pts_audio_first
  /\ video.need_drop = 1 =>
       /\ Known(host.pts_audio_first) /\ Known(host.pts_video_first)
       /\ host.pts_audio_first >= host.pts_video_first
  /\ video.need_drop = 0 =>
       /\ Known(host.pts_audio_first) /\ Known(host.pts_video_first)
       /\ host.pts_video_first > host.pts_audio_first

(* Sound is kept by a decoder that has seen drop_done.                      *)
DoneSeen ==
  /\ audio.drop_done => host.drop_done
  /\ audio.pc = "refill" => audio.drop_done
  /\ NoSoundBeforeAgreed

AgreeInv == TypeInv /\ DoneSeen /\ AudioView /\ VideoView

LEMMA HostKept ==
  ASSUME TypeInv, [Next]_vars
  PROVE /\ host.drop_done => host'.drop_done
        /\ Known(host.pts_audio_first) => host'.pts_audio_first = host.pts_audio_first
        /\ Known(host.pts_video_first) => host'.pts_video_first = host.pts_video_first
  <1>1. DOMAIN host = {"pts_audio_first", "pts_video_first", "drop_done"}
        /\ host = [f \in DOMAIN host |-> host[f]]
    BY DEF TypeInv, TypeOK, HostOK
  <1>2. CASE audio_read_frame
    BY <1>1, <1>2 DEF audio_read_frame, Known
  <1>3. CASE video_decode
    BY <1>1, <1>3 DEF video_decode, Known
  <1>4. CASE \/ audio_decide \/ audio_drop \/ video_timeout \/ video_decide
             \/ video_drop \/ host_start
    <2>1. PICK b \in BOOLEAN :
             /\ host' = [host EXCEPT !.drop_done = b]
             /\ host.drop_done => b
      BY <1>4, DropDone
    <2> QED BY <1>1, <2>1
  <1>5. CASE UNCHANGED host
    BY <1>5
  <1> QED BY <1>2, <1>3, <1>4, <1>5, StepsOfHost

LEMMA InitAgree == Init => AgreeInv
  <1> SUFFICES ASSUME Init PROVE AgreeInv
    OBVIOUS
  <1>1. audio.pc = "read" /\ audio.drop_done = FALSE /\ audio.first_vpts = NoPts
        /\ audio.drop_size = -1 /\ sounded = NoPts
    BY DEF Init
  <1>2. video.pc = "read" /\ video.first_apts = NoPts /\ video.need_drop = -1
    BY DEF Init
  <1>3. DoneSeen /\ AudioView
    BY <1>1 DEF DoneSeen, NoSoundBeforeAgreed, AudioView, Known
  <1>4. VideoView
    BY <1>2 DEF VideoView, Known
  <1> QED BY <1>3, <1>4, InitTyped DEF AgreeInv

LEMMA AudioRecord ==
  ASSUME TypeInv
  PROVE /\ DOMAIN audio = {"pc", "drop_done", "first_vpts", "drop_size", "inlen", "frame"}
        /\ audio = [f \in DOMAIN audio |-> audio[f]]
        /\ DOMAIN host = {"pts_audio_first", "pts_video_first", "drop_done"}
        /\ host = [f \in DOMAIN host |-> host[f]]
  BY DEF TypeInv, TypeOK, AudioOK, HostOK

LEMMA VideoRecord ==
  ASSUME TypeInv
  PROVE /\ DOMAIN video = {"pc", "drop_done", "first_apts", "need_drop", "inside",
                           "picture"}
        /\ video = [f \in DOMAIN video |-> video[f]]
        /\ DOMAIN host = {"pts_audio_first", "pts_video_first", "drop_done"}
        /\ host = [f \in DOMAIN host |-> host[f]]
  BY DEF TypeInv, TypeOK, VideoOK, HostOK

LEMMA DoneSeenStays ==
  ASSUME AgreeInv, [Next]_vars
  PROVE DoneSeen'
  <1> USE DEF DoneSeen, NoSoundBeforeAgreed, AudioNext
  <1>1. DoneSeen /\ TypeInv
    BY DEF AgreeInv
  <1>2. host.drop_done => host'.drop_done
    BY <1>1, HostKept
  <1>3. CASE audio_read_frame
    BY <1>1, <1>2, <1>3, AudioRecord DEF audio_read_frame, output
  <1>4. CASE audio_get_first_vpts
    BY <1>1, <1>2, <1>4, AudioRecord DEF audio_get_first_vpts, output
  <1>5. CASE audio_decide
    BY <1>1, <1>5, AudioRecord DEF audio_decide, output
  <1>6. CASE audio_wait
    BY <1>1, <1>2, <1>6, AudioRecord DEF audio_wait, output
  <1>7. CASE audio_drop
    BY <1>1, <1>2, <1>7, AudioRecord DEF audio_drop, output
  <1>8. CASE audio_refill
    BY <1>1, <1>2, <1>8, AudioRecord DEF audio_refill
  <1>9. CASE audio_exit
    BY <1>1, <1>2, <1>9, AudioRecord DEF audio_exit, output
  <1>10. CASE UNCHANGED <<audio, sounded>>
    BY <1>1, <1>2, <1>10
  <1> QED BY <1>3, <1>4, <1>5, <1>6, <1>7, <1>8, <1>9, <1>10, StepsOfAudio
          DEF audio_decode_loop

LEMMA PtsOrder ==
  ASSUME NEW a \in Pts, NEW b \in Pts
  PROVE /\ a - b \in Int /\ a \in Int /\ b \in Int
        /\ (a - b < 0) => b > a
        /\ (a - b > 0) => a > b
        /\ (a - b >= 0) => a >= b
  BY DEF Pts, NoPts

LEMMA AudioViewStays ==
  ASSUME AgreeInv, [Next]_vars
  PROVE AudioView'
  <1>1. AudioView /\ TypeInv
    BY DEF AgreeInv
  <1>2. /\ host.drop_done => host'.drop_done
        /\ Known(host.pts_audio_first) => host'.pts_audio_first = host.pts_audio_first
        /\ Known(host.pts_video_first) => host'.pts_video_first = host.pts_video_first
    BY <1>1, HostKept
  <1>3. host.pts_audio_first \in Pts /\ host.pts_video_first \in Pts
        /\ audio.first_vpts \in Pts
    BY <1>1 DEF TypeInv, TypeOK, HostOK, AudioOK
  (* A step that leaves first_vpts and drop_size and knows where it is.     *)
  <1>4. ASSUME audio'.first_vpts = audio.first_vpts,
               audio'.drop_size = audio.drop_size,
               audio'.pc \in {"sync", "sync_done"} => Known(host'.pts_audio_first)
        PROVE AudioView'
    BY <1>1, <1>2, <1>4 DEF AudioView, Known
  <1>5. CASE audio_read_frame
    <2>1. HeadPts("audio") \in Nat
      BY <1>1, <1>5, HeadIsTime DEF audio_read_frame, AV
    <2>2. Known(host'.pts_audio_first)
      BY <1>1, <1>5, <2>1, AudioRecord DEF audio_read_frame, Known, NoPts
    <2>3. audio'.first_vpts = audio.first_vpts /\ audio'.drop_size = audio.drop_size
      BY <1>1, <1>5, AudioRecord DEF audio_read_frame
    <2> QED BY <1>4, <2>2, <2>3
  <1>6. CASE audio_get_first_vpts
    <2>1. /\ audio'.first_vpts = host.pts_video_first /\ host' = host
          /\ audio'.drop_size = audio.drop_size /\ audio'.pc = "sync_done"
          /\ audio.pc = "sync"
      BY <1>1, <1>6, AudioRecord DEF audio_get_first_vpts
    <2> QED BY <1>1, <2>1 DEF AudioView, Known
  <1>7. CASE audio_decide
    <2> DEFINE diff == audio.first_vpts - host.pts_audio_first
               close == audio.first_vpts # NoPts /\ diff >= 0 /\ TooClose(diff)
               done == host.drop_done \/ close
               size == IF audio.first_vpts = NoPts \/ close THEN audio.drop_size
                       ELSE IF diff < 0 THEN 0 ELSE diff
    <2>1. /\ audio'.first_vpts = audio.first_vpts
          /\ audio'.drop_size = size
      BY <1>1, <1>7, AudioRecord DEF audio_decide
    <2>2. host'.pts_audio_first = host.pts_audio_first
          /\ host'.pts_video_first = host.pts_video_first
      BY <1>1, <1>7, AudioRecord DEF audio_decide
    <2>3. Known(host.pts_audio_first)
      BY <1>1, <1>7 DEF audio_decide, AudioView
    <2>4. CASE audio.first_vpts = NoPts \/ close
      <3>1. size = audio.drop_size
        BY <2>4
      <3> HIDE DEF size
      <3> QED BY <1>4, <2>1, <2>2, <2>3, <3>1
    <2>5. CASE ~(audio.first_vpts = NoPts \/ close)
      <3>1. Known(audio.first_vpts) /\ audio.first_vpts = host.pts_video_first
        BY <1>1, <2>5 DEF AudioView, Known
      <3>2. size = IF diff < 0 THEN 0 ELSE diff
        BY <2>5
      <3>3. ~(diff >= 0 /\ TooClose(diff))
        BY <2>5
      <3>4. /\ diff \in Int /\ host.pts_audio_first \in Int
            /\ host.pts_video_first \in Int
            /\ (diff < 0) => host.pts_audio_first > host.pts_video_first
            /\ (diff > 0) => host.pts_video_first > host.pts_audio_first
        BY <1>3, <3>1, PtsOrder
      <3>5. diff # 0
        BY <3>3, AvStartupAssumption DEF TooClose
      <3> HIDE DEF diff, size
      <3>6. size > 0 => host.pts_video_first > host.pts_audio_first
        BY <3>2, <3>4
      <3>7. size = 0 => host.pts_audio_first > host.pts_video_first
        BY <3>2, <3>4, <3>5
      <3> QED BY <2>1, <2>2, <2>3, <3>1, <3>6, <3>7 DEF AudioView
    <2> QED BY <2>4, <2>5
  <1>8. CASE audio_wait
    <2>1. /\ audio'.first_vpts = audio.first_vpts /\ audio'.drop_size = audio.drop_size
          /\ audio.pc = "sync"
      BY <1>1, <1>8, AudioRecord DEF audio_wait
    <2> QED BY <1>1, <1>2, <1>4, <2>1 DEF AudioView, Known
  <1>9. CASE audio_drop
    <2> DEFINE left == audio.drop_size - AFrame
    <2>1. /\ audio'.first_vpts = audio.first_vpts /\ audio'.pc = "read"
          /\ audio'.drop_size = IF left <= 0 THEN 0 ELSE left
      BY <1>1, <1>9, AudioRecord DEF audio_drop
    <2>2. left <= 0 => host'.drop_done
      BY <1>1, <1>9, AudioRecord DEF audio_drop
    <2>3. audio.drop_size \in Int /\ AFrame \in Nat
      BY <1>1, AvStartupAssumption DEF TypeInv, TypeOK, AudioOK
    <2>4. left > 0 => audio.drop_size > 0
      BY <2>3
    <2>5. left \in Int
      BY <2>3
    <2> HIDE DEF left
    <2>6. /\ audio'.drop_size > 0 => audio.drop_size > 0
          /\ audio'.drop_size = 0 => host'.drop_done
      BY <2>1, <2>2, <2>4, <2>5
    <2> QED BY <1>1, <1>2, <2>1, <2>6 DEF AudioView, Known
  <1>10. CASE audio_refill
    <2>1. /\ audio'.first_vpts = audio.first_vpts /\ audio'.drop_size = audio.drop_size
          /\ audio'.pc \in {"sync", "sync_done"} => ~audio.drop_done
      BY <1>1, <1>10, AudioRecord DEF audio_refill, AudioNext
    <2>2. audio.drop_done
      BY <1>10 DEF audio_refill, AgreeInv, DoneSeen
    <2> QED BY <1>4, <2>1, <2>2
  <1>11. CASE audio_exit
    <2>1. /\ audio'.first_vpts = audio.first_vpts /\ audio'.drop_size = audio.drop_size
          /\ audio'.pc = "exited"
      BY <1>1, <1>11, AudioRecord DEF audio_exit
    <2> QED BY <1>4, <2>1
  <1>12. CASE UNCHANGED audio
    BY <1>1, <1>2, <1>4, <1>12 DEF AudioView
  <1> QED BY <1>5, <1>6, <1>7, <1>8, <1>9, <1>10, <1>11, <1>12, StepsOfAudio
          DEF audio_decode_loop

LEMMA VideoViewStays ==
  ASSUME AgreeInv, [Next]_vars
  PROVE VideoView'
  <1>1. VideoView /\ TypeInv
    BY DEF AgreeInv
  <1>2. /\ Known(host.pts_audio_first) => host'.pts_audio_first = host.pts_audio_first
        /\ Known(host.pts_video_first) => host'.pts_video_first = host.pts_video_first
    BY <1>1, HostKept
  <1>3. host.pts_audio_first \in Pts /\ host.pts_video_first \in Pts
        /\ video.first_apts \in Pts
    BY <1>1 DEF TypeInv, TypeOK, HostOK, VideoOK
  (* A step that leaves first_apts and need_drop and knows where it is.     *)
  <1>4. ASSUME video'.first_apts = video.first_apts,
               video'.need_drop = video.need_drop,
               video'.pc \in {"sync", "sync_done"} => Known(host'.pts_video_first)
        PROVE VideoView'
    BY <1>1, <1>2, <1>4 DEF VideoView, Known
  (* A step that moves the decoder on and leaves the host's timestamps.     *)
  <1>5. ASSUME video'.first_apts = video.first_apts,
               video'.need_drop = video.need_drop,
               video'.pc \in {"sync", "sync_done"} =>
                 video.pc \in {"sync", "sync_done"}
        PROVE VideoView'
    BY <1>1, <1>2, <1>4, <1>5 DEF VideoView
  <1>6. CASE video_decode
    <2>1. /\ video'.first_apts = video.first_apts
          /\ video'.need_drop = video.need_drop
          /\ video.pc = "read"
      BY <1>1, <1>6, VideoRecord DEF video_decode
    <2>2. CASE VideoDecodes /\ video.inside = DecoderDelay
      <3> DEFINE pts == HeadPts("video") - VFrame * DecoderDelay
      <3>1. pts \in Nat
        BY <1>1, <1>6, <2>2, VideoHead
      <3>2. host' = [host EXCEPT !.pts_video_first =
                       IF host.pts_video_first = NoPts THEN pts
                       ELSE host.pts_video_first]
        BY <1>6, <2>2 DEF video_decode
      <3>3. pts # NoPts
        BY <3>1 DEF NoPts
      <3> HIDE DEF pts
      <3>4. Known(host'.pts_video_first)
        BY <1>1, <3>2, <3>3, VideoRecord DEF Known
      <3> QED BY <1>4, <2>1, <3>4
    <2>3. CASE ~(VideoDecodes /\ video.inside = DecoderDelay)
      <3>1. video'.pc = video.pc
        BY <1>1, <1>6, <2>3, VideoRecord DEF video_decode
      <3> QED BY <1>5, <2>1, <3>1
    <2> QED BY <2>2, <2>3
  <1>7. CASE video_timeout
    <2>1. /\ video'.first_apts = video.first_apts
          /\ video'.need_drop = video.need_drop /\ video'.pc = "push"
      BY <1>1, <1>7, VideoRecord DEF video_timeout
    <2> QED BY <1>5, <2>1
  <1>8. CASE video_get_first_apts
    <2>1. /\ video'.first_apts = host.pts_audio_first /\ host' = host
          /\ video'.need_drop = video.need_drop /\ video'.pc = "sync_done"
          /\ video.pc = "sync"
      BY <1>1, <1>8, VideoRecord DEF video_get_first_apts
    <2> QED BY <1>1, <2>1 DEF VideoView, Known
  <1>9. CASE video_decide
    <2> DEFINE diff == video.first_apts - host.pts_video_first
               close == video.first_apts # NoPts /\ diff >= 0 /\ TooClose(diff)
               need == IF video.first_apts = NoPts \/ close THEN video.need_drop
                       ELSE IF diff < 0 THEN 0 ELSE 1
    <2>1. /\ video'.first_apts = video.first_apts
          /\ video'.need_drop = need
      BY <1>1, <1>9, VideoRecord DEF video_decide
    <2>2. video.pc = "sync_done"
      BY <1>9 DEF video_decide
    <2>3. host'.pts_audio_first = host.pts_audio_first
          /\ host'.pts_video_first = host.pts_video_first
      BY <1>1, <1>9, VideoRecord DEF video_decide
    <2>4. CASE video.first_apts = NoPts \/ close
      <3>1. need = video.need_drop
        BY <2>4
      <3> HIDE DEF need
      <3> QED BY <1>5, <2>1, <2>2, <3>1
    <2>5. CASE ~(video.first_apts = NoPts \/ close)
      <3>1. Known(video.first_apts) /\ video.first_apts = host.pts_audio_first
            /\ Known(host.pts_video_first)
        BY <1>1, <2>2, <2>5 DEF VideoView, Known
      <3>2. need = IF diff < 0 THEN 0 ELSE 1
        BY <2>5
      <3>3. /\ diff \in Int
            /\ (diff < 0) => host.pts_video_first > host.pts_audio_first
            /\ (diff >= 0) => host.pts_audio_first >= host.pts_video_first
        BY <1>3, <3>1, PtsOrder
      <3> HIDE DEF diff, need
      <3>4. need = 1 => host.pts_audio_first >= host.pts_video_first
        BY <3>2, <3>3
      <3>5. need = 0 => host.pts_video_first > host.pts_audio_first
        BY <3>2, <3>3
      <3> QED BY <2>1, <2>3, <3>1, <3>4, <3>5 DEF VideoView
    <2> QED BY <2>4, <2>5
  <1>10. CASE video_wait
    <2>1. /\ video'.first_apts = video.first_apts
          /\ video'.need_drop = video.need_drop /\ video.pc = "sync"
      BY <1>1, <1>10, VideoRecord DEF video_wait
    <2> QED BY <1>5, <2>1
  <1>11. CASE video_drop
    <2>1. /\ video'.first_apts = video.first_apts
          /\ video'.need_drop = video.need_drop /\ video'.pc = "push"
      BY <1>1, <1>11, VideoRecord DEF video_drop
    <2> QED BY <1>5, <2>1
  <1>12. CASE video_leave_drop
    <2>1. /\ video'.first_apts = video.first_apts
          /\ video'.need_drop = video.need_drop /\ video'.pc = "push"
      BY <1>1, <1>12, VideoRecord DEF video_leave_drop
    <2> QED BY <1>5, <2>1
  <1>13. CASE queue_push_tail
    <2>1. /\ video'.first_apts = video.first_apts
          /\ video'.need_drop = video.need_drop /\ video'.pc = "read"
      BY <1>1, <1>13, VideoRecord DEF queue_push_tail
    <2> QED BY <1>5, <2>1
  <1>14. CASE video_exit
    <2>1. /\ video'.first_apts = video.first_apts
          /\ video'.need_drop = video.need_drop /\ video'.pc = "exited"
      BY <1>1, <1>14, VideoRecord DEF video_exit
    <2> QED BY <1>5, <2>1
  <1>15. CASE UNCHANGED video
    BY <1>5, <1>15
  <1> QED BY <1>6, <1>7, <1>8, <1>9, <1>10, <1>11, <1>12, <1>13, <1>14, <1>15,
             StepsOfVideo DEF video_decode_loop

LEMMA SpecAgrees == Spec => []AgreeInv
  <1>1. Init => AgreeInv
    BY InitAgree
  <1>2. AgreeInv /\ [Next]_vars => AgreeInv'
    <2> SUFFICES ASSUME AgreeInv, [Next]_vars PROVE AgreeInv'
      OBVIOUS
    <2>1. TypeInv'
      BY StepTyped DEF AgreeInv
    <2> QED BY <2>1, DoneSeenStays, AudioViewStays, VideoViewStays DEF AgreeInv
  <1> QED BY <1>1, <1>2, PTL DEF Spec

(* For every file, whatever the limits are and however the threads of the   *)
(* two decoders, the output, the timeout and host_start interleave: no      *)
(* frame of sound is kept before the host's drop_done is set.               *)
THEOREM StartupSilent == Spec => []NoSoundBeforeAgreed
  <1>1. AgreeInv => NoSoundBeforeAgreed
    BY DEF AgreeInv, DoneSeen
  <1> QED BY <1>1, SpecAgrees, PTL

(* For every file and all thresholds: the two loops, each of which decides  *)
(* by itself from a timestamp it has read at a time of its own, never both  *)
(* find themselves ahead, and never both wait.                              *)
THEOREM StartupOneSide == Spec => []OneSideDrops
  <1>1. AgreeInv => OneSideDrops
    <2> SUFFICES ASSUME AgreeInv PROVE OneSideDrops
      OBVIOUS
    <2>1. host.pts_audio_first \in Int /\ host.pts_video_first \in Int
      BY NoPtsInt DEF AgreeInv, TypeInv, TypeOK, HostOK
    <2>2. AudioView /\ VideoView
      BY DEF AgreeInv
    <2>3. ~(audio.drop_size > 0 /\ video.need_drop = 1)
      BY <2>1, <2>2 DEF AudioView, VideoView
    <2>4. ~(/\ audio.first_vpts # NoPts /\ audio.drop_size = 0
            /\ video.need_drop = 0 /\ ~host.drop_done)
      BY <2>1, <2>2 DEF AudioView, VideoView
    <2> QED BY <2>3, <2>4 DEF OneSideDrops
  <1> QED BY <1>1, SpecAgrees, PTL

-----------------------------------------------------------------------------
(* Sound and picture meet                                                   *)

(* The first timestamp the host has of a stream is that of its first frame  *)
(* or picture, and until it has one, that is what the decoder gives next.   *)
Firsts ==
  /\ Known(host.pts_audio_first) => host.pts_audio_first = file.first["audio"]
  /\ ~Known(host.pts_audio_first) => Ahead("audio") = file.first["audio"]
  /\ Known(host.pts_video_first) => host.pts_video_first = file.first["video"]
  /\ ~Known(host.pts_video_first) /\ VideoDecodes =>
       Ahead("video") = file.first["video"]

(* Pictures come in the order of their timestamps.                          *)
PictureBehind == Known(video.picture) => video.picture <= Ahead("video")

StartInv == AgreeInv /\ Firsts /\ PictureBehind

LEMMA AheadIsHead ==
  ASSUME TypeInv
  PROVE /\ HeadPts("audio") = Ahead("audio")
        /\ video.inside = DecoderDelay =>
             HeadPts("video") - VFrame * DecoderDelay = Ahead("video")
  <1>1. HeadPts("audio") = Ahead("audio")
    <2> DEFINE w == IF held = "audio" THEN 1 ELSE 0
    <2>1. queue["audio"] \in Nat /\ w \in Nat
      BY DEF TypeInv, TypeOK, InputOK, AV
    <2>2. OnTheWay("audio") = queue["audio"] + w + 0
      BY DEF OnTheWay
    <2>3. HeadPts("audio") = taken["audio"] - Step("audio") * (queue["audio"] + w)
      BY DEF HeadPts
    <2> HIDE DEF w
    <2>4. OnTheWay("audio") = queue["audio"] + w
      BY <2>1, <2>2
    <2> QED BY <2>3, <2>4 DEF Ahead
  <1>2. ASSUME video.inside = DecoderDelay
        PROVE HeadPts("video") - VFrame * DecoderDelay = Ahead("video")
    <2> DEFINE w == IF held = "video" THEN 1 ELSE 0
    <2>1. queue["video"] \in Nat /\ w \in Nat /\ taken["video"] \in Nat
      BY DEF TypeInv, TypeOK, InputOK, AV
    <2>2. VFrame \in Nat /\ DecoderDelay \in Nat /\ Step("video") = VFrame
      BY AvStartupAssumption DEF Step
    <2>3. OnTheWay("video") = queue["video"] + w + DecoderDelay
      BY <1>2 DEF OnTheWay
    <2>4. HeadPts("video") = taken["video"] - VFrame * (queue["video"] + w)
      BY <2>2 DEF HeadPts
    <2>5. Ahead("video") = taken["video"] - VFrame * (queue["video"] + w + DecoderDelay)
      BY <2>2, <2>3 DEF Ahead
    <2> HIDE DEF w
    <2>6. VFrame * (queue["video"] + w + DecoderDelay)
            = VFrame * (queue["video"] + w) + VFrame * DecoderDelay
      BY <2>1, <2>2
    <2>7. VFrame * (queue["video"] + w) \in Int /\ VFrame * DecoderDelay \in Int
      BY <2>1, <2>2
    <2> QED BY <2>1, <2>4, <2>5, <2>6, <2>7
  <1> QED BY <1>1, <1>2

LEMMA AheadInt ==
  ASSUME TypeInv, NEW m \in AV
  PROVE Ahead(m) \in Nat /\ Step(m) \in Nat /\ file.first[m] \in Nat
  <1>1. /\ OnTheWay(m) \in Nat /\ taken[m] \in Nat /\ Step(m) \in Nat
        /\ Step(m) * OnTheWay(m) <= taken[m]
    BY OnTheWayNat
  <1>2. Step(m) * OnTheWay(m) \in Nat
    BY <1>1
  <1>3. file.first[m] \in Starts /\ Starts \subseteq Nat
    BY AvStartupAssumption DEF TypeInv, TypeOK, InputOK
  <1>4. Ahead(m) \in Nat
    <2> DEFINE x == Step(m) * OnTheWay(m)
    <2>1. Ahead(m) = taken[m] - x /\ x \in Nat /\ x <= taken[m] /\ taken[m] \in Nat
      BY <1>1, <1>2 DEF Ahead
    <2> HIDE DEF x
    <2> QED BY <2>1
  <1>5. file.first[m] \in Nat
    BY <1>3
  <1> QED BY <1>1, <1>4, <1>5

LEMMA FileKept ==
  ASSUME TypeInv, [Next]_vars
  PROVE file' = file
  BY StepsOfInput DEF write_frame, player_read_frame, audio_read_frame, video_decode

(* What a step of the video decoder that takes a packet does.               *)
LEMMA VideoDecodeGives ==
  ASSUME TypeInv, video_decode
  PROVE IF VideoDecodes /\ video.inside = DecoderDelay
        THEN /\ video'.picture = Ahead("video") /\ video'.inside = video.inside
             /\ host'.pts_audio_first = host.pts_audio_first
             /\ host'.drop_done = host.drop_done
             /\ host'.pts_video_first = IF host.pts_video_first = NoPts
                                        THEN Ahead("video") ELSE host.pts_video_first
        ELSE /\ host' = host /\ video'.picture = video.picture
             /\ VideoDecodes => video'.inside = video.inside + 1
  <1>1. CASE VideoDecodes /\ video.inside = DecoderDelay
    <2> DEFINE pts == HeadPts("video") - VFrame * DecoderDelay
    <2>1. /\ video' = [video EXCEPT !.picture = pts, !.pc = VideoNext(video.drop_done)]
          /\ host' = [host EXCEPT !.pts_video_first =
                        IF host.pts_video_first = NoPts THEN pts
                        ELSE host.pts_video_first]
      BY <1>1 DEF video_decode
    <2>2. pts = Ahead("video")
      BY <1>1, AheadIsHead
    <2> HIDE DEF pts
    <2> QED BY <1>1, <2>1, <2>2, VideoRecord
  <1>2. CASE ~(VideoDecodes /\ video.inside = DecoderDelay)
    BY <1>2, VideoRecord DEF video_decode
  <1> QED BY <1>1, <1>2

LEMMA FirstsStay ==
  ASSUME StartInv, [Next]_vars
  PROVE Firsts'
  <1>1. TypeInv /\ Firsts
    BY DEF StartInv, AgreeInv
  <1>2. file' = file
    BY <1>1, FileKept
  <1>3. "audio" \in AV /\ "video" \in AV
    BY DEF AV
  <1>4. CASE audio_read_frame
    <2>1. host' = [host EXCEPT !.pts_audio_first =
                     IF host.pts_audio_first = NoPts THEN Ahead("audio")
                     ELSE host.pts_audio_first]
      BY <1>1, <1>4, AheadIsHead DEF audio_read_frame
    <2>2. Ahead("audio") \in Nat
      BY <1>1, <1>3, AheadInt
    <2>3. video' = video /\ queue["audio"] > 0 /\ queue' # queue
      BY <1>1, <1>4 DEF audio_read_frame, TypeInv, TypeOK, InputOK, AV
    <2>4. ~Leaves("video")
      <3>1. queue \in [AV -> Nat]
        BY <1>1 DEF TypeInv, TypeOK, InputOK
      <3> QED BY <1>3, <1>4, <3>1 DEF Leaves, audio_read_frame, video_decode
    <2>5. Ahead("video")' = Ahead("video")
      BY <1>1, <1>3, <2>4, AheadMoves
    <2> QED BY <1>1, <1>2, <2>1, <2>2, <2>5, AudioRecord DEF Firsts, Known, NoPts
  <1>5. CASE video_decode
    <2>1. ~Leaves("audio")
      <3>1. queue \in [AV -> Nat]
        BY <1>1 DEF TypeInv, TypeOK, InputOK
      <3> QED BY <1>3, <1>5, <3>1 DEF Leaves, audio_read_frame, video_decode
    <2>2. Ahead("audio")' = Ahead("audio")
      BY <1>1, <1>3, <2>1, AheadMoves
    <2>3. Ahead("video") \in Nat
      BY <1>1, <1>3, AheadInt
    <2>4. CASE VideoDecodes /\ video.inside = DecoderDelay
      <3>1. /\ host'.pts_audio_first = host.pts_audio_first
            /\ host'.pts_video_first = IF host.pts_video_first = NoPts
                                       THEN Ahead("video") ELSE host.pts_video_first
        BY <1>1, <1>5, <2>4, VideoDecodeGives
      <3> QED BY <1>1, <1>2, <2>2, <2>3, <2>4, <3>1 DEF Firsts, Known, NoPts
    <2>5. CASE ~(VideoDecodes /\ video.inside = DecoderDelay)
      <3>1. host' = host /\ (VideoDecodes => video'.inside = video.inside + 1)
        BY <1>1, <1>5, <2>5, VideoDecodeGives
      <3>2. VideoDecodes => ~Leaves("video")
        <4>1. video.inside \in Int
          BY <1>1, AvStartupAssumption DEF TypeInv, TypeOK, VideoOK
        <4>2. VideoDecodes => video'.inside # video.inside
          BY <3>1, <4>1
        <4> QED BY <4>2 DEF Leaves
      <3>3. VideoDecodes => Ahead("video")' = Ahead("video")
        BY <1>1, <1>3, <3>2, AheadMoves
      <3> QED BY <1>1, <1>2, <2>2, <3>1, <3>3 DEF Firsts
    <2> QED BY <2>4, <2>5
  <1>6. CASE ~audio_read_frame /\ ~video_decode
    <2>1. Ahead("audio")' = Ahead("audio") /\ Ahead("video")' = Ahead("video")
      BY <1>1, <1>3, <1>6, AheadMoves DEF Leaves
    <2>2. host'.pts_audio_first = host.pts_audio_first
          /\ host'.pts_video_first = host.pts_video_first
      <3>1. UNCHANGED host \/ \E b \in BOOLEAN : host' = [host EXCEPT !.drop_done = b]
        BY <1>1, <1>6, StepsOfHost, DropDone
      <3> QED BY <1>1, <3>1, AudioRecord
    <2> QED BY <1>1, <1>2, <2>1, <2>2 DEF Firsts
  <1> QED BY <1>4, <1>5, <1>6

LEMMA PictureBehindStays ==
  ASSUME StartInv, [Next]_vars
  PROVE PictureBehind' /\ (Known(video.picture) => video'.picture >= video.picture)
  <1>1. TypeInv /\ PictureBehind
    BY DEF StartInv, AgreeInv
  <1>2. "video" \in AV /\ Ahead("video") \in Nat /\ Step("video") \in Nat
    BY <1>1, AheadInt DEF AV
  <1>3. Ahead("video")' = Ahead("video") \/ Ahead("video")' = Ahead("video") + Step("video")
    BY <1>1, <1>2, AheadMoves
  <1>4. Ahead("video")' \in Nat /\ Ahead("video")' >= Ahead("video")
    BY <1>2, <1>3
  <1>5. video.picture \in Int
    BY <1>1, NoPtsInt DEF TypeInv, TypeOK, VideoOK
  <1>6. video'.picture = video.picture \/ video'.picture = Ahead("video")
    <2>1. CASE video_decode
      BY <1>1, <2>1, VideoDecodeGives
    <2>2. CASE ~video_decode
      BY <1>1, <2>2, StepsOfVideo, VideoRecord
         DEF video_decode_loop, video_timeout, video_get_first_apts, video_decide,
             video_wait, video_drop, video_leave_drop, queue_push_tail, video_exit
    <2> QED BY <2>1, <2>2
  <1> QED BY <1>1, <1>2, <1>4, <1>5, <1>6 DEF PictureBehind, Known

LEMMA SpecStarts == Spec => []StartInv
  <1>1. Init => StartInv
    <2> SUFFICES ASSUME Init PROVE StartInv
      OBVIOUS
    <2>1. AgreeInv
      BY InitAgree
    <2>2. \A m \in AV : Ahead(m) = file.first[m]
      <3> SUFFICES ASSUME NEW m \in AV PROVE Ahead(m) = file.first[m]
        OBVIOUS
      <3>1. OnTheWay(m) = 0 /\ taken[m] = file.first[m]
        BY DEF Init, OnTheWay, AV
      <3>2. Step(m) * 0 = 0 /\ taken[m] \in Nat
        BY <2>1, StepPositive DEF AgreeInv, TypeInv, TypeOK, InputOK
      <3> QED BY <3>1, <3>2 DEF Ahead
    <2>3. Firsts /\ PictureBehind
      BY <2>2 DEF Init, Firsts, PictureBehind, Known, AV
    <2> QED BY <2>1, <2>3 DEF StartInv
  <1>2. StartInv /\ [Next]_vars => StartInv'
    <2> SUFFICES ASSUME StartInv, [Next]_vars PROVE StartInv'
      OBVIOUS
    <2>1. AgreeInv'
      <3>1. TypeInv'
        BY StepTyped DEF StartInv, AgreeInv
      <3> QED BY <3>1, DoneSeenStays, AudioViewStays, VideoViewStays
              DEF StartInv, AgreeInv
    <2> QED BY <2>1, FirstsStay, PictureBehindStays DEF StartInv
  <1> QED BY <1>1, <1>2, PTL DEF Spec

-----------------------------------------------------------------------------
(* Which of the two drops                                                   *)

Lead(m, n) == file.first[n] - file.first[m]

(* The frame the audio decoder has or takes next.                           *)
Due == IF audio.pc = "read" THEN Ahead("audio") ELSE audio.frame

(* With one frame in a packet, what follows a frame is in the next packet.  *)
Regular ==
  audio.pc \in {"sync", "sync_done", "refill"} => Ahead("audio") = audio.frame + AFrame

(* The audio is ahead: the video waits, and the audio drops what it is      *)
(* ahead, counting down from its lead.                                      *)
VideoYields ==
  Known(video.first_apts) /\ video.pc # "sync_done" => video.need_drop = 0

AudioCatches ==
  /\ host.drop_done => audio.drop_size = 0
  /\ audio.pc = "sync_done" => audio.drop_size = -1
  /\ audio.drop_size = -1 /\ Known(audio.first_vpts) => audio.pc = "sync_done"
  /\ audio.drop_size # -1 => Known(audio.first_vpts)
  /\ audio.drop_size # 0 => ~Known(sounded)
  /\ ~Known(sounded) /\ audio.pc # "exited" =>
       /\ audio.drop_size = -1 => Due = file.first["audio"]
       /\ audio.drop_size > 0 => Due = file.first["video"] - audio.drop_size
       /\ audio.drop_size = 0 =>
            Due \in file.first["video"] .. file.first["video"] + AFrame - 1
  /\ AudioDropped

(* The video is ahead: the audio waits with its first frame.                *)
AudioYields ==
  Known(audio.first_vpts) /\ audio.pc # "sync_done" => audio.drop_size = 0

VideoCatches ==
  /\ host.drop_done => video.picture >= file.first["audio"]
  /\ ~Known(sounded) /\ audio.pc # "exited" => Due = file.first["audio"]
  /\ Known(sounded) => sounded = file.first["audio"]

WaitInv == Agreed("video", "audio") => AudioYields /\ VideoCatches

DropInv == Regular /\ (Agreed("audio", "video") => VideoYields /\ AudioCatches)

LEMMA AgreedLead ==
  ASSUME TypeInv, NEW m \in AV, NEW n \in AV, Agreed(m, n)
  PROVE /\ Lead(m, n) \in Nat /\ Lead(m, n) > 0 /\ ~TooClose(Lead(m, n))
        /\ Lead(n, m) \in Int /\ Lead(n, m) < 0
        /\ file.first[m] \in Nat /\ file.first[n] \in Nat
  <1>1. file.first[m] \in Nat /\ file.first[n] \in Nat
    BY AheadInt
  <1>2. Threshold \in Nat /\ DropThreshold \in Nat
    BY AvStartupAssumption
  <1>3. file.first[n] - file.first[m] \in Threshold + 1 .. DropThreshold
    BY DEF Agreed
  <1> QED BY <1>1, <1>2, <1>3 DEF Lead, TooClose

(* Time does not run back.                                                  *)
LEMMA AgreedKept ==
  ASSUME TypeInv, [Next]_vars, NEW m \in AV, NEW n \in AV, Agreed(m, n)'
  PROVE Agreed(m, n)
  <1>1. clock \in -1 .. Timeout /\ Timeout \in Nat \ {0}
    BY AvStartupAssumption DEF TypeInv, TypeOK, OutputOK
  <1>2. Tick \/ Clocked \/ UNCHANGED clock
    BY DEF Next, vars, io_thread, write_frame, player_read_frame,
       audio_decode_loop, audio_read_frame, audio_get_first_vpts, audio_decide,
       audio_wait, audio_drop, audio_refill, audio_exit, audio_output_thread,
       video_decode_loop, video_decode, video_timeout, video_get_first_apts,
       video_decide, video_wait, video_drop, video_leave_drop, queue_push_tail,
       video_exit, video_output_thread, host_start, host_stop
  <1>3. TimedOut => TimedOut'
    BY <1>1, <1>2 DEF Tick, Clocked, TimedOut
  <1> QED BY <1>3, FileKept DEF Agreed

(* What the two decisions come to, in terms of the file.                    *)
LEMMA AudioDecides ==
  ASSUME StartInv, audio_decide
  PROVE LET d == Lead("audio", "video")
            known == Known(audio.first_vpts)
            close == known /\ d >= 0 /\ TooClose(d)
        IN /\ host'.drop_done = (host.drop_done \/ close)
           /\ audio'.drop_size = IF ~known \/ close THEN audio.drop_size
                                 ELSE IF d < 0 THEN 0 ELSE d
           /\ audio'.first_vpts = audio.first_vpts /\ audio'.frame = audio.frame
           /\ audio'.pc \in {"sync", "refill"} /\ sounded' = sounded
  <1> DEFINE diff == audio.first_vpts - host.pts_audio_first
             close == audio.first_vpts # NoPts /\ diff >= 0 /\ TooClose(diff)
             done == host.drop_done \/ close
             size == IF audio.first_vpts = NoPts \/ close THEN audio.drop_size
                     ELSE IF diff < 0 THEN 0 ELSE diff
  <1>1. /\ audio' = [audio EXCEPT !.drop_done = done, !.drop_size = size,
                                  !.pc = AudioNext(done)]
        /\ host' = [host EXCEPT !.drop_done = done]
        /\ sounded' = sounded
    BY DEF audio_decide, output
  <1>2. TypeInv /\ AudioView /\ Firsts
    BY DEF StartInv, AgreeInv
  <1>3. Known(audio.first_vpts) => diff = Lead("audio", "video")
    BY <1>2 DEF audio_decide, AudioView, Firsts, Lead, Known
  <1>4. done <=> host.drop_done \/ (Known(audio.first_vpts)
                   /\ Lead("audio", "video") >= 0 /\ TooClose(Lead("audio", "video")))
    BY <1>3 DEF Known
  <1>5. size = IF \/ ~Known(audio.first_vpts)
                  \/ Known(audio.first_vpts) /\ Lead("audio", "video") >= 0
                       /\ TooClose(Lead("audio", "video"))
               THEN audio.drop_size
               ELSE IF Lead("audio", "video") < 0 THEN 0 ELSE Lead("audio", "video")
    BY <1>3 DEF Known
  <1>6. AudioNext(done) \in {"sync", "refill"}
    BY DEF AudioNext
  <1>7. done \in BOOLEAN
    OBVIOUS
  <1>8. host.drop_done \in BOOLEAN
    BY <1>2 DEF TypeInv, TypeOK, HostOK
  <1> HIDE DEF diff, close, done, size
  <1>9. /\ host'.drop_done = done /\ audio'.drop_size = size
        /\ audio'.first_vpts = audio.first_vpts /\ audio'.frame = audio.frame
        /\ audio'.pc \in {"sync", "refill"} /\ sounded' = sounded
    BY <1>1, <1>2, <1>6, AudioRecord
  <1> QED BY <1>4, <1>5, <1>7, <1>8, <1>9

LEMMA VideoDecides ==
  ASSUME StartInv, video_decide
  PROVE LET d == Lead("video", "audio")
            known == Known(video.first_apts)
            close == known /\ d >= 0 /\ TooClose(d)
        IN /\ host'.drop_done = (host.drop_done \/ close)
           /\ video'.need_drop = IF ~known \/ close THEN video.need_drop
                                 ELSE IF d < 0 THEN 0 ELSE 1
           /\ video'.first_apts = video.first_apts
           /\ video'.picture = video.picture
  <1> DEFINE diff == video.first_apts - host.pts_video_first
             close == video.first_apts # NoPts /\ diff >= 0 /\ TooClose(diff)
             done == host.drop_done \/ close
             need == IF video.first_apts = NoPts \/ close THEN video.need_drop
                     ELSE IF diff < 0 THEN 0 ELSE 1
  <1>1. /\ video' = [video EXCEPT !.drop_done = done, !.need_drop = need,
                                  !.pc = VideoNext(done)]
        /\ host' = [host EXCEPT !.drop_done = done]
    BY DEF video_decide
  <1>2. TypeInv /\ VideoView /\ Firsts
    BY DEF StartInv, AgreeInv
  <1>3. Known(video.first_apts) => diff = Lead("video", "audio")
    BY <1>2 DEF video_decide, VideoView, Firsts, Lead, Known
  <1>4. done <=> host.drop_done \/ (Known(video.first_apts)
                   /\ Lead("video", "audio") >= 0 /\ TooClose(Lead("video", "audio")))
    BY <1>3 DEF Known
  <1>5. need = IF \/ ~Known(video.first_apts)
                  \/ Known(video.first_apts) /\ Lead("video", "audio") >= 0
                       /\ TooClose(Lead("video", "audio"))
               THEN video.need_drop
               ELSE IF Lead("video", "audio") < 0 THEN 0 ELSE 1
    BY <1>3 DEF Known
  <1>6. done \in BOOLEAN
    OBVIOUS
  <1>7. host.drop_done \in BOOLEAN
    BY <1>2 DEF TypeInv, TypeOK, HostOK
  <1> HIDE DEF diff, close, done, need
  <1>8. /\ host'.drop_done = done /\ video'.need_drop = need
        /\ video'.first_apts = video.first_apts /\ video'.picture = video.picture
    BY <1>1, <1>2, VideoRecord
  <1> QED BY <1>4, <1>5, <1>6, <1>7, <1>8

(* Who can end the wait of a file whose streams both begin in time.         *)
LEMMA WhoIsDone ==
  ASSUME StartInv, [Next]_vars, NEW m \in AV, NEW n \in AV, Agreed(m, n),
         host'.drop_done, ~host.drop_done
  PROVE \/ audio_decide /\ Known(audio.first_vpts)
        \/ audio_drop /\ audio.drop_size - AFrame <= 0
        \/ video_decide /\ Known(video.first_apts)
        \/ video_drop /\ video.picture >= video.first_apts
  <1>1. TypeInv
    BY DEF StartInv, AgreeInv
  <1>2. ~TimedOut /\ file.host_drop /\ file.has = AV
    BY DEF Agreed
  <1>3. CASE audio_read_frame
    BY <1>1, <1>3, AudioRecord DEF audio_read_frame
  <1>4. CASE video_decode
    BY <1>1, <1>4, VideoRecord DEF video_decode
  <1>5. CASE video_timeout
    BY <1>2, <1>5 DEF video_timeout
  <1>6. CASE host_start
    BY <1>1, <1>2, <1>6, AudioRecord DEF host_start
  <1>7. CASE audio_decide
    BY <1>7, AudioDecides
  <1>8. CASE audio_drop
    BY <1>1, <1>8, AudioRecord DEF audio_drop
  <1>9. CASE video_decide
    BY <1>9, VideoDecides
  <1>10. CASE video_drop
    BY <1>1, <1>10, VideoRecord DEF video_drop
  <1>11. CASE UNCHANGED host
    BY <1>11
  <1> QED BY <1>3, <1>4, <1>5, <1>6, <1>7, <1>8, <1>9, <1>10, <1>11, StepsOfHost

(* What each step of audio_decode_loop does to what is agreed on.           *)
LEMMA AudioActs ==
  ASSUME StartInv, [Next]_vars
  PROVE /\ audio_read_frame =>
             /\ audio.pc = "read" /\ audio'.pc \in {"sync", "refill"}
             /\ audio'.frame = Ahead("audio")
             /\ Ahead("audio")' = Ahead("audio") + Step("audio")
             /\ audio'.first_vpts = audio.first_vpts
             /\ audio'.drop_size = audio.drop_size /\ sounded' = sounded
        /\ ~audio_read_frame => Ahead("audio")' = Ahead("audio")
        /\ audio_get_first_vpts =>
             /\ audio.pc = "sync" /\ audio'.pc = "sync_done"
             /\ ~Known(audio.first_vpts)
             /\ audio'.drop_size = audio.drop_size /\ audio'.frame = audio.frame
             /\ sounded' = sounded
        /\ audio_wait =>
             /\ audio.pc = "sync" /\ audio'.pc \in {"sync", "refill"}
             /\ audio.drop_size = 0 /\ audio'.drop_size = 0
             /\ audio'.first_vpts = audio.first_vpts
             /\ audio'.frame = audio.frame /\ sounded' = sounded
        /\ audio_drop =>
             /\ audio.pc = "sync" /\ audio'.pc = "read"
             /\ Known(audio.first_vpts) /\ audio.drop_size # 0
             /\ audio'.drop_size = IF audio.drop_size - AFrame <= 0 THEN 0
                                   ELSE audio.drop_size - AFrame
             /\ audio'.first_vpts = audio.first_vpts /\ sounded' = sounded
        /\ audio_refill =>
             /\ audio.pc = "refill" /\ audio.drop_done /\ host.drop_done
             /\ audio'.pc \in {"read", "sync", "refill"}
             /\ audio.inlen <= 1 => audio'.pc = "read"
             /\ audio'.first_vpts = audio.first_vpts
             /\ audio'.drop_size = audio.drop_size
             /\ sounded' = IF Known(sounded) THEN sounded ELSE audio.frame
        /\ audio_exit =>
             /\ audio.pc # "sync_done" /\ audio'.pc = "exited"
             /\ audio'.first_vpts = audio.first_vpts
             /\ audio'.drop_size = audio.drop_size /\ sounded' = sounded
  <1>1. TypeInv /\ DoneSeen /\ "audio" \in AV
    BY DEF StartInv, AgreeInv, AV
  <1>2. ASSUME audio_read_frame
        PROVE  /\ audio.pc = "read" /\ audio'.pc \in {"sync", "refill"}
               /\ audio'.frame = Ahead("audio")
               /\ audio'.first_vpts = audio.first_vpts
               /\ audio'.drop_size = audio.drop_size /\ sounded' = sounded
    BY <1>1, <1>2, AheadIsHead, AudioRecord DEF audio_read_frame, AudioNext, output
  <1>3. audio_read_frame <=> Leaves("audio")
    BY DEF Leaves
  <1>4. ASSUME audio_get_first_vpts
        PROVE  /\ audio.pc = "sync" /\ audio'.pc = "sync_done"
               /\ ~Known(audio.first_vpts)
               /\ audio'.drop_size = audio.drop_size /\ audio'.frame = audio.frame
               /\ sounded' = sounded
    BY <1>1, <1>4, AudioRecord DEF audio_get_first_vpts, Known, output
  <1>5. ASSUME audio_wait
        PROVE  /\ audio.pc = "sync" /\ audio'.pc \in {"sync", "refill"}
               /\ audio.drop_size = 0 /\ audio'.drop_size = 0
               /\ audio'.first_vpts = audio.first_vpts
               /\ audio'.frame = audio.frame /\ sounded' = sounded
    BY <1>1, <1>5, AudioRecord DEF audio_wait, AudioNext, output
  <1>6. ASSUME audio_drop
        PROVE  /\ audio.pc = "sync" /\ audio'.pc = "read"
               /\ Known(audio.first_vpts) /\ audio.drop_size # 0
               /\ audio'.drop_size = IF audio.drop_size - AFrame <= 0 THEN 0
                                     ELSE audio.drop_size - AFrame
               /\ audio'.first_vpts = audio.first_vpts /\ sounded' = sounded
    BY <1>1, <1>6, AudioRecord DEF audio_drop, Known, output
  <1>7. ASSUME audio_refill
        PROVE  /\ audio.pc = "refill" /\ audio.drop_done /\ host.drop_done
               /\ audio'.pc \in {"read", "sync", "refill"}
               /\ audio.inlen <= 1 => audio'.pc = "read"
               /\ audio'.first_vpts = audio.first_vpts
               /\ audio'.drop_size = audio.drop_size
               /\ sounded' = IF Known(sounded) THEN sounded ELSE audio.frame
    <2>1. audio.inlen \in Int
      BY <1>1, AvStartupAssumption DEF TypeInv, TypeOK, AudioOK
    <2>2. audio.inlen <= 1 => ~(audio.inlen > 1)
      BY <2>1
    <2> QED BY <1>1, <1>7, <2>2, AudioRecord
            DEF audio_refill, AudioNext, Known, DoneSeen
  <1>8. ASSUME audio_exit
        PROVE  /\ audio.pc # "sync_done" /\ audio'.pc = "exited"
               /\ audio'.first_vpts = audio.first_vpts
               /\ audio'.drop_size = audio.drop_size /\ sounded' = sounded
    BY <1>1, <1>8, AudioRecord DEF audio_exit, output
  <1>9. /\ audio_read_frame => Ahead("audio")' = Ahead("audio") + Step("audio")
        /\ ~audio_read_frame => Ahead("audio")' = Ahead("audio")
    BY <1>1, <1>3, AheadMoves
  <1> QED BY <1>2, <1>4, <1>5, <1>6, <1>7, <1>8, <1>9

LEMMA VideoActs ==
  ASSUME StartInv, [Next]_vars
  PROVE \/ video_get_first_apts /\ video'.pc = "sync_done"
        \/ video_decide
        \/ /\ video'.first_apts = video.first_apts
           /\ video'.need_drop = video.need_drop /\ video.pc # "sync_done"
        \/ UNCHANGED video
  <1>1. TypeInv
    BY DEF StartInv, AgreeInv
  <1>2. CASE video_get_first_apts
    BY <1>1, <1>2, VideoRecord DEF video_get_first_apts
  <1>3. CASE video_decide
    BY <1>3
  <1>4. CASE \/ video_timeout \/ video_wait \/ video_drop \/ video_leave_drop
             \/ queue_push_tail \/ video_exit
    BY <1>1, <1>4, VideoRecord
       DEF video_timeout, video_wait, video_drop, video_leave_drop,
           queue_push_tail, video_exit
  <1>5. CASE video_decode
    BY <1>1, <1>5, VideoRecord DEF video_decode
  <1>6. CASE UNCHANGED video
    BY <1>6
  <1> QED BY <1>2, <1>3, <1>4, <1>5, <1>6, StepsOfVideo DEF video_decode_loop

-----------------------------------------------------------------------------
(* The audio is behind: the video catches up                                *)

LEMMA AudioYieldsStays ==
  ASSUME StartInv, AudioYields, Agreed("video", "audio"), [Next]_vars
  PROVE AudioYields'
  <1>1. Lead("audio", "video") < 0 /\ Lead("audio", "video") \in Int
    BY AgreedLead DEF StartInv, AgreeInv, AV
  <1>2. CASE audio_decide
    BY <1>1, <1>2, AudioDecides DEF AudioYields, Known
  <1>3. CASE audio_drop
    BY <1>3, AudioActs DEF AudioYields
  <1>4. CASE audio_read_frame \/ audio_get_first_vpts \/ audio_wait \/ audio_refill
             \/ audio_exit
    BY <1>4, AudioActs DEF AudioYields
  <1>5. CASE UNCHANGED <<audio, sounded>>
    BY <1>5 DEF AudioYields
  <1> QED BY <1>2, <1>3, <1>4, <1>5, StepsOfAudio DEF audio_decode_loop

LEMMA VideoCatchesStays ==
  ASSUME StartInv, AudioYields, VideoCatches, Agreed("video", "audio"), [Next]_vars
  PROVE VideoCatches'
  <1>1. TypeInv /\ VideoView /\ Firsts /\ "audio" \in AV /\ "video" \in AV
    BY DEF StartInv, AgreeInv, AV
  <1>2. /\ Lead("audio", "video") < 0 /\ Lead("audio", "video") \in Int
        /\ Lead("video", "audio") > 0 /\ Lead("video", "audio") \in Int
        /\ ~TooClose(Lead("video", "audio")) /\ file.first["audio"] \in Nat
    BY <1>1, AgreedLead
  <1>3. file' = file
    BY <1>1, FileKept
  <1>4. host'.drop_done => video'.picture >= file.first["audio"]
    <2>1. Known(video.picture) => video'.picture >= video.picture
      BY PictureBehindStays
    <2>2. video.picture \in Int /\ video'.picture \in Int
      <3>1. video.picture \in Pts /\ video'.picture \in Pts
        BY <1>1, VideoTyped DEF TypeInv, TypeOK, VideoOK
      <3> QED BY <3>1, NoPtsInt
    <2>3. ASSUME video.picture >= file.first["audio"]
          PROVE  video'.picture >= file.first["audio"]
      <3>1. Known(video.picture)
        BY <1>2, <2>2, <2>3 DEF Known, NoPts
      <3> QED BY <1>2, <2>1, <2>2, <2>3, <3>1
    <2>4. CASE host.drop_done
      BY <2>3, <2>4 DEF VideoCatches
    <2>5. CASE host'.drop_done /\ ~host.drop_done
      <3>1. CASE audio_decide /\ Known(audio.first_vpts)
        <4>1. ~(Lead("audio", "video") >= 0)
          BY <1>2
        <4>2. host'.drop_done = (host.drop_done \/ FALSE)
          BY <3>1, <4>1, AudioDecides
        <4> QED BY <2>5, <4>2
      <3>2. CASE audio_drop
        BY <3>2, AudioActs DEF AudioYields
      <3>3. CASE video_decide /\ Known(video.first_apts)
        BY <1>2, <2>5, <3>3, VideoDecides
      <3>4. CASE video_drop /\ video.picture >= video.first_apts
        <4>1. Known(video.first_apts)
          BY <3>4 DEF video_drop, Known
        <4>2. video.first_apts = file.first["audio"]
          BY <1>1, <4>1 DEF VideoView, Firsts, Known
        <4> QED BY <2>3, <3>4, <4>2
      <3> QED BY <1>1, <2>5, <3>1, <3>2, <3>3, <3>4, WhoIsDone
    <2> QED BY <2>4, <2>5
  <1> DEFINE First == file.first["audio"]
             Begins == /\ ~Known(sounded') /\ audio'.pc # "exited" => Due' = First
                       /\ Known(sounded') => sounded' = First
  <1>5. /\ ~Known(sounded) /\ audio.pc # "exited" => Due = First
        /\ Known(sounded) => sounded = First
    BY DEF VideoCatches
  <1>6. Due' = IF audio'.pc = "read" THEN Ahead("audio")' ELSE audio'.frame
    BY DEF Due
  <1>7. Begins
    <2>1. CASE audio_read_frame
      BY <1>5, <1>6, <2>1, AudioActs DEF Due
    <2>2. CASE audio_get_first_vpts
      BY <1>5, <1>6, <2>2, AudioActs DEF Due
    <2>3. CASE audio_decide
      <3>1. audio.pc = "sync_done"
        BY <2>3 DEF audio_decide
      <3>2. audio'.frame = audio.frame /\ audio'.pc \in {"sync", "refill"}
            /\ sounded' = sounded
        BY <2>3, AudioDecides
      <3> QED BY <1>5, <1>6, <3>1, <3>2 DEF Due
    <2>4. CASE audio_wait
      BY <1>5, <1>6, <2>4, AudioActs DEF Due
    <2>5. CASE audio_drop
      BY <2>5, AudioActs DEF AudioYields
    <2>6. CASE audio_refill
      <3>1. audio.pc = "refill" /\ sounded' = IF Known(sounded) THEN sounded ELSE audio.frame
        BY <2>6, AudioActs
      <3>2. ~Known(sounded) => audio.frame = First
        BY <1>5, <3>1 DEF Due
      <3>3. Known(First)
        BY <1>2 DEF Known, NoPts
      <3> QED BY <1>5, <3>1, <3>2, <3>3
    <2>7. CASE audio_exit
      BY <1>5, <2>7, AudioActs
    <2>8. CASE UNCHANGED <<audio, sounded>>
      <3>1. ~audio_read_frame
        BY <2>8, AudioActs
      <3>2. Ahead("audio")' = Ahead("audio")
        BY <3>1, AudioActs
      <3> QED BY <1>5, <1>6, <2>8, <3>2 DEF Due
    <2> QED BY <2>1, <2>2, <2>3, <2>4, <2>5, <2>6, <2>7, <2>8, StepsOfAudio
            DEF audio_decode_loop
  <1> QED BY <1>3, <1>4, <1>7 DEF VideoCatches, Known

LEMMA WaitStays ==
  ASSUME StartInv, WaitInv, [Next]_vars
  PROVE WaitInv'
  <1>1. TypeInv /\ "audio" \in AV /\ "video" \in AV
    BY DEF StartInv, AgreeInv, AV
  <1> SUFFICES ASSUME Agreed("video", "audio")'
               PROVE  AudioYields' /\ VideoCatches'
    BY DEF WaitInv
  <1>2. Agreed("video", "audio")
    BY <1>1, AgreedKept
  <1> QED BY <1>2, AudioYieldsStays, VideoCatchesStays DEF WaitInv

-----------------------------------------------------------------------------
(* The audio is ahead: it drops                                             *)

OneFrame == PerPacket = 1

LEMMA RegularStays ==
  ASSUME OneFrame, StartInv, Regular, [Next]_vars
  PROVE Regular'
  <1>1. TypeInv
    BY DEF StartInv, AgreeInv
  <1>2. Step("audio") = AFrame /\ AFrame \in Nat
    BY AvStartupAssumption DEF Step, OneFrame
  <1>3. audio.inlen <= 1
    BY <1>1 DEF TypeInv, TypeOK, AudioOK, OneFrame
  <1>4. CASE audio_read_frame
    BY <1>2, <1>4, AudioActs DEF Regular
  <1>5. CASE audio_get_first_vpts \/ audio_wait
    <2>1. ~audio_read_frame
      BY <1>5, AudioActs
    <2> QED BY <1>5, <2>1, AudioActs DEF Regular
  <1>6. CASE audio_decide
    <2>1. audio.pc = "sync_done" /\ ~audio_read_frame
      BY <1>6, AudioActs DEF audio_decide
    <2>2. audio'.frame = audio.frame
      BY <1>6, AudioDecides
    <2> QED BY <2>1, <2>2, AudioActs DEF Regular
  <1>7. CASE audio_drop \/ audio_refill \/ audio_exit
    BY <1>3, <1>7, AudioActs DEF Regular
  <1>8. CASE UNCHANGED <<audio, sounded>>
    <2>1. ~audio_read_frame
      BY <1>8, AudioActs
    <2> QED BY <1>8, <2>1, AudioActs DEF Regular
  <1> QED BY <1>4, <1>5, <1>6, <1>7, <1>8, StepsOfAudio DEF audio_decode_loop

LEMMA VideoYieldsStays ==
  ASSUME StartInv, VideoYields, Agreed("audio", "video"), [Next]_vars
  PROVE VideoYields'
  <1>1. Lead("video", "audio") < 0 /\ Lead("video", "audio") \in Int
    BY AgreedLead DEF StartInv, AgreeInv, AV
  <1>2. CASE video_decide
    <2>1. ~(Lead("video", "audio") >= 0)
      BY <1>1
    <2>2. /\ video'.need_drop = IF ~Known(video.first_apts) THEN video.need_drop ELSE 0
          /\ video'.first_apts = video.first_apts
      BY <1>1, <1>2, <2>1, VideoDecides
    <2> QED BY <2>2 DEF VideoYields
  <1>3. CASE video_get_first_apts /\ video'.pc = "sync_done"
    BY <1>3 DEF VideoYields
  <1>4. CASE /\ video'.first_apts = video.first_apts
             /\ video'.need_drop = video.need_drop /\ video.pc # "sync_done"
    BY <1>4 DEF VideoYields
  <1>5. CASE UNCHANGED video
    BY <1>5 DEF VideoYields
  <1> QED BY <1>2, <1>3, <1>4, <1>5, VideoActs

(* The wait ends with the last frame that is dropped.                       *)
LEMMA DoneByDrop ==
  ASSUME StartInv, VideoYields, Agreed("audio", "video"), [Next]_vars,
         host'.drop_done, ~host.drop_done
  PROVE audio'.drop_size = 0
  <1>1. TypeInv /\ "audio" \in AV /\ "video" \in AV
    BY DEF StartInv, AgreeInv, AV
  <1>2. /\ Lead("audio", "video") > 0 /\ ~TooClose(Lead("audio", "video"))
        /\ Lead("video", "audio") < 0 /\ Lead("video", "audio") \in Int
    BY <1>1, AgreedLead
  <1>3. CASE audio_decide
    <2>1. host'.drop_done = (host.drop_done \/ FALSE)
      BY <1>2, <1>3, AudioDecides
    <2> QED BY <2>1
  <1>4. CASE audio_drop /\ audio.drop_size - AFrame <= 0
    BY <1>4, AudioActs
  <1>5. CASE video_decide
    <2>1. ~(Lead("video", "audio") >= 0)
      BY <1>2
    <2>2. host'.drop_done = (host.drop_done \/ FALSE)
      BY <1>5, <2>1, VideoDecides
    <2> QED BY <2>2
  <1>6. CASE video_drop
    BY <1>6 DEF video_drop, VideoYields, Known
  <1> QED BY <1>1, <1>3, <1>4, <1>5, <1>6, WhoIsDone

LEMMA AudioCatchesStays ==
  ASSUME OneFrame, StartInv, Regular, VideoYields, AudioCatches,
         Agreed("audio", "video"), [Next]_vars
  PROVE AudioCatches'
  <1> DEFINE A == file.first["audio"]
             V == file.first["video"]
             Fits(t) == t \in V .. V + AFrame - 1
             Place(size, t) == /\ size = -1 => t = A
                               /\ size > 0 => t = V - size
                               /\ size = 0 => Fits(t)
  <1>1. TypeInv /\ "audio" \in AV /\ "video" \in AV /\ file' = file
    BY FileKept DEF StartInv, AgreeInv, AV
  <1>2. /\ Lead("audio", "video") \in Nat /\ Lead("audio", "video") > 0
        /\ ~TooClose(Lead("audio", "video"))
        /\ A \in Nat /\ V \in Nat /\ Lead("audio", "video") = V - A
    BY <1>1, AgreedLead DEF Lead
  <1>3. AFrame \in Nat \ {0} /\ audio.inlen <= 1
    BY <1>1, AvStartupAssumption DEF TypeInv, TypeOK, AudioOK, OneFrame
  <1>4. audio.drop_size \in Nat \cup {-1} /\ audio'.drop_size \in Nat \cup {-1}
    BY <1>1, AudioTyped DEF TypeInv, TypeOK, AudioOK
  <1>5. Due' = IF audio'.pc = "read" THEN Ahead("audio")' ELSE audio'.frame
    BY DEF Due
  <1>6. /\ host.drop_done => audio.drop_size = 0
        /\ audio.pc = "sync_done" => audio.drop_size = -1
        /\ audio.drop_size = -1 /\ Known(audio.first_vpts) => audio.pc = "sync_done"
        /\ audio.drop_size # -1 => Known(audio.first_vpts)
        /\ audio.drop_size # 0 => ~Known(sounded)
        /\ ~Known(sounded) /\ audio.pc # "exited" => Place(audio.drop_size, Due)
        /\ Known(sounded) => Fits(sounded)
    BY DEF AudioCatches, AudioDropped, Known
  (* What has to be shown of the step; the rest follows.                    *)
  <1>7. ASSUME /\ audio'.pc = "sync_done" => audio'.drop_size = -1
               /\ audio'.drop_size = -1 /\ Known(audio'.first_vpts) =>
                    audio'.pc = "sync_done"
               /\ audio'.drop_size # -1 => Known(audio'.first_vpts)
               /\ audio'.drop_size # 0 => ~Known(sounded')
               /\ ~Known(sounded') /\ audio'.pc # "exited" =>
                    Place(audio'.drop_size, Due')
               /\ Known(sounded') => Fits(sounded'),
               audio.drop_size = 0 => audio'.drop_size = 0
        PROVE  AudioCatches'
    <2>1. host'.drop_done => audio'.drop_size = 0
      BY <1>6, <1>7, DoneByDrop
    <2>2. file'.first["audio"] = A /\ file'.first["video"] = V
      BY <1>1
    <2> QED BY <1>7, <2>1, <2>2 DEF AudioCatches, AudioDropped, Known
  <1>8. CASE audio_read_frame
    <2>1. Due' = Due
      BY <1>5, <1>8, AudioActs DEF Due
    <2>2. /\ audio'.drop_size = audio.drop_size /\ audio'.first_vpts = audio.first_vpts
          /\ sounded' = sounded /\ audio.pc = "read" /\ audio'.pc \in {"sync", "refill"}
      BY <1>8, AudioActs
    <2> HIDE DEF Place, Fits
    <2> QED BY <1>6, <1>7, <2>1, <2>2
  <1>9. CASE audio_get_first_vpts
    <2>1. /\ audio'.drop_size = audio.drop_size /\ ~Known(audio.first_vpts)
          /\ sounded' = sounded /\ audio.pc = "sync" /\ audio'.pc = "sync_done"
          /\ audio'.frame = audio.frame
      BY <1>9, AudioActs
    <2>2. Due' = Due
      BY <1>5, <2>1 DEF Due
    <2> HIDE DEF Place, Fits
    <2> QED BY <1>6, <1>7, <2>1, <2>2
  <1>10. CASE audio_decide
    <2>1. /\ audio'.drop_size = IF Known(audio.first_vpts) THEN V - A ELSE audio.drop_size
          /\ audio'.first_vpts = audio.first_vpts /\ audio'.frame = audio.frame
          /\ audio'.pc \in {"sync", "refill"} /\ sounded' = sounded
      BY <1>2, <1>10, AudioDecides
    <2>2. audio.pc = "sync_done"
      BY <1>10 DEF audio_decide
    <2>3. Due' = Due
      BY <1>5, <2>1, <2>2 DEF Due
    <2>4. audio.drop_size = -1 /\ ~Known(sounded) /\ Due = A
      BY <1>6, <2>2
    <2>5. V - A > 0 /\ A = V - (V - A)
      BY <1>2
    <2>6. Place(audio'.drop_size, Due')
      BY <1>2, <2>1, <2>3, <2>4, <2>5
    <2>7. audio'.drop_size # 0 /\ (audio'.drop_size = -1 <=> ~Known(audio.first_vpts))
      BY <1>2, <2>1, <2>4, <2>5
    <2> HIDE DEF Place, Fits
    <2> QED BY <1>7, <2>1, <2>4, <2>6, <2>7
  <1>11. CASE audio_wait
    <2>1. /\ audio.drop_size = 0 /\ audio'.drop_size = 0
          /\ audio'.first_vpts = audio.first_vpts /\ audio'.frame = audio.frame
          /\ sounded' = sounded /\ audio.pc = "sync" /\ audio'.pc \in {"sync", "refill"}
      BY <1>11, AudioActs
    <2>2. Due' = Due
      BY <1>5, <2>1 DEF Due
    <2> HIDE DEF Place, Fits
    <2> QED BY <1>6, <1>7, <2>1, <2>2
  <1>12. CASE audio_drop
    <2> DEFINE left == audio.drop_size - AFrame
    <2>1. /\ audio.pc = "sync" /\ audio'.pc = "read"
          /\ Known(audio.first_vpts) /\ audio.drop_size # 0
          /\ audio'.drop_size = IF left <= 0 THEN 0 ELSE left
          /\ audio'.first_vpts = audio.first_vpts /\ sounded' = sounded
      BY <1>12, AudioActs
    <2>2. audio.drop_size \in Nat /\ audio.drop_size > 0 /\ ~Known(sounded)
      BY <1>4, <1>6, <2>1
    <2>3. audio.frame = V - audio.drop_size
      BY <1>6, <2>1, <2>2 DEF Due
    <2>4. Due' = audio.frame + AFrame
      <3>1. ~audio_read_frame
        BY <2>1, AudioActs
      <3>2. Ahead("audio")' = audio.frame + AFrame
        BY <2>1, <3>1, AudioActs DEF Regular
      <3> QED BY <1>5, <2>1, <3>2
    <2>5. Due' = V - left
      BY <1>2, <1>3, <2>2, <2>3, <2>4
    <2>6. left \in Int /\ left > 0 - AFrame
      BY <1>3, <2>2
    <2> HIDE DEF left
    <2>7. Place(audio'.drop_size, Due') /\ audio'.drop_size # -1
      BY <1>2, <1>3, <2>1, <2>5, <2>6
    <2> HIDE DEF Place, Fits
    <2> QED BY <1>7, <2>1, <2>2, <2>7
  <1>13. CASE audio_refill
    <2>1. /\ audio.pc = "refill" /\ host.drop_done /\ audio'.pc = "read"
          /\ audio'.first_vpts = audio.first_vpts
          /\ audio'.drop_size = audio.drop_size
          /\ sounded' = IF Known(sounded) THEN sounded ELSE audio.frame
      BY <1>3, <1>13, AudioActs
    <2>2. audio.drop_size = 0
      BY <1>6, <2>1
    <2>3. ~Known(sounded) => Fits(audio.frame)
      BY <1>6, <2>1, <2>2 DEF Due
    <2>4. Known(sounded') /\ Fits(sounded')
      <3>1. \A t : Fits(t) => Known(t)
        BY <1>2, <1>3 DEF Known, NoPts
      <3> HIDE DEF Fits
      <3> QED BY <1>6, <2>1, <2>3, <3>1
    <2> HIDE DEF Place, Fits
    <2> QED BY <1>6, <1>7, <2>1, <2>2, <2>4
  <1>14. CASE audio_exit
    <2>1. /\ audio.pc # "sync_done" /\ audio'.pc = "exited"
          /\ audio'.first_vpts = audio.first_vpts
          /\ audio'.drop_size = audio.drop_size /\ sounded' = sounded
      BY <1>14, AudioActs
    <2> HIDE DEF Place, Fits
    <2> QED BY <1>6, <1>7, <2>1
  <1>15. CASE UNCHANGED <<audio, sounded>>
    <2>1. ~audio_read_frame
      BY <1>15, AudioActs
    <2>2. Due' = Due
      BY <1>5, <1>15, <2>1, AudioActs DEF Due
    <2> HIDE DEF Place, Fits
    <2> QED BY <1>6, <1>7, <1>15, <2>2
  <1> QED BY <1>8, <1>9, <1>10, <1>11, <1>12, <1>13, <1>14, <1>15, StepsOfAudio
          DEF audio_decode_loop

LEMMA DropStays ==
  ASSUME OneFrame, StartInv, DropInv, [Next]_vars
  PROVE DropInv'
  <1>1. TypeInv /\ "audio" \in AV /\ "video" \in AV
    BY DEF StartInv, AgreeInv, AV
  <1>2. Agreed("audio", "video")' => VideoYields' /\ AudioCatches'
    <2> SUFFICES ASSUME Agreed("audio", "video")'
                 PROVE  VideoYields' /\ AudioCatches'
      OBVIOUS
    <2>1. Agreed("audio", "video")
      BY <1>1, AgreedKept
    <2> QED BY <2>1, VideoYieldsStays, AudioCatchesStays DEF DropInv
  <1> QED BY <1>2, RegularStays DEF DropInv

LEMMA InitMeets == Init /\ StartInv => WaitInv /\ DropInv
  <1> SUFFICES ASSUME Init, StartInv PROVE WaitInv /\ DropInv
    OBVIOUS
  <1>1. /\ audio.pc = "read" /\ audio.first_vpts = NoPts /\ audio.drop_size = -1
        /\ host.drop_done = FALSE /\ host.pts_audio_first = NoPts
        /\ sounded = NoPts /\ video.first_apts = NoPts
    BY DEF Init
  <1>2. Due = file.first["audio"]
    BY <1>1 DEF Due, StartInv, Firsts, Known
  <1>3. WaitInv
    BY <1>1, <1>2 DEF WaitInv, AudioYields, VideoCatches, Known
  <1>4. DropInv
    BY <1>1, <1>2 DEF DropInv, Regular, VideoYields, AudioCatches, AudioDropped, Known
  <1> QED BY <1>3, <1>4

(* For every file, all limits and thresholds, and every interleaving: when  *)
(* the video is the one that begins early, the sound begins with its first  *)
(* frame, and only once the video has come to the picture that is due with  *)
(* it, unless the timeout has ended the wait.                               *)
THEOREM StartupWaits == Spec => []AudioWaited
  <1>1. Init /\ StartInv => WaitInv
    BY InitMeets
  <1>2. StartInv /\ WaitInv /\ [Next]_vars => WaitInv'
    BY WaitStays
  <1>3. StartInv /\ WaitInv => AudioWaited
    <2> SUFFICES ASSUME StartInv, WaitInv, sounded # NoPts, Agreed("video", "audio")
                 PROVE  /\ sounded = file.first["audio"]
                        /\ video.picture >= file.first["audio"]
      BY DEF AudioWaited
    <2>1. host.drop_done
      BY DEF StartInv, AgreeInv, DoneSeen, NoSoundBeforeAgreed
    <2> QED BY <2>1 DEF WaitInv, VideoCatches, Known
  <1> QED BY <1>1, <1>2, <1>3, SpecStarts, PTL DEF Spec

(* For every file whose packets of audio hold one frame: whichever stream   *)
(* begins early, the decoders drop from that one exactly what is due before *)
(* the other begins. (With more frames in a packet the loop leaves what     *)
(* follows a dropped frame in its packet, and the sound begins late.)       *)
THEOREM StartupMeets == OneFrame => (Spec => []AudioMeetsVideo)
  <1> SUFFICES ASSUME OneFrame PROVE Spec => []AudioMeetsVideo
    OBVIOUS
  <1>1. Init /\ StartInv => DropInv
    BY InitMeets
  <1>2. StartInv /\ DropInv /\ [Next]_vars => DropInv'
    BY DropStays
  <1>3. DropInv => AudioDropped
    BY DEF DropInv, AudioCatches, AudioDropped
  <1>4. AudioDropped /\ AudioWaited => AudioMeetsVideo
    BY DEF AudioMeetsVideo
  <1> QED BY <1>1, <1>2, <1>3, <1>4, SpecStarts, StartupWaits, PTL DEF Spec
=============================================================================
