---------------------------- MODULE Player_proofs ----------------------------
(* Proofs about the player, for any number of threads, commands and kinds   *)
(* of packets, with and without Prompt.                                     *)
EXTENDS Player, FiniteSetTheorems, TLAPS

(* The halves of TypeOK: what the IO thread shares, and the rest.           *)
IoTypes ==
  /\ status \in {"PAUSED", "RUNNING", "QUIT"}
  /\ flag \in {"NULL", "PAUSE"}
  /\ io \in [IoThread -> IoPlaces]
  /\ pkt \in [IoThread -> Packet \cup {NoPacket}]
  /\ tid \in IoThread
  /\ eof_flag \in BOOLEAN
  /\ wait_key \in BOOLEAN
  /\ stale \subseteq IoThread
  /\ fresh \in BOOLEAN
  /\ rested \subseteq IoThread

PlayerTypes ==
  /\ setting \in Settings
  /\ pstatus \in PlayerStatus
  /\ host \in {"none", "ready", "running", "paused"}
  /\ hub \in Seq(Command)
  /\ queue \in Seq(Command)
  /\ sent \in 0 .. setting.commands
  /\ stopping \in BOOLEAN

LEMMA TypeParts == TypeOK <=> IoTypes /\ PlayerTypes /\ ctl \in CtlPlaces
  BY DEF TypeOK, IoTypes, PlayerTypes

(* A command at the end of a queue, and one less at its head.               *)
LEMMA Queues ==
  /\ \A s \in Seq(Command), c \in Command : Append(s, c) \in Seq(Command)
  /\ \A s \in Seq(Command) : s # <<>> => Tail(s) \in Seq(Command) /\ Head(s) \in Command
  /\ <<"START">> \in Seq(Command) /\ <<>> \in Seq(Command)
  BY DEF Command

LEMMA InitTypes == Init => TypeOK
<1> SUFFICES ASSUME Init PROVE TypeOK
  OBVIOUS
<1>1. IoTypes
  BY DEF Init, IoInit, IoTypes, IoPlaces
<1>2. PlayerTypes
  <2>1. setting \in Settings /\ setting.commands \in Nat
    BY PlayerAssumption DEF Init
  <2>2. /\ pstatus = "PREPARED" /\ host = "ready" /\ hub = <<"START">>
        /\ queue = <<>> /\ sent = 0 /\ stopping = FALSE
    BY DEF Init
  <2>3. hub \in Seq(Command) /\ queue \in Seq(Command)
    BY <2>2, Queues
  <2>4. sent \in 0 .. setting.commands
    BY <2>1, <2>2
  <2>5. stopping \in BOOLEAN
    BY <2>2
  <2>6. QED
    BY <2>1, <2>2, <2>3, <2>4, <2>5 DEF PlayerTypes, PlayerStatus
<1>3. ctl \in CtlPlaces
  BY DEF Init, IoInit, CtlPlaces
<1>4. QED
  BY <1>1, <1>2, <1>3, TypeParts

(* Every step of an IO thread.                                              *)
LEMMA IoStepTypes ==
  ASSUME IoTypes, NEW t \in IoThread, player_io_thread(t)
  PROVE  IoTypes' /\ ctl' = ctl
<1> USE DEF IoTypes, IoPlaces, IoGoto, Drop
<1>1. CASE io_top(t)
  BY <1>1 DEF io_top
<1>2. CASE io_mark(t)
  BY <1>2 DEF io_mark
<1>3. CASE io_check(t)
  BY <1>3 DEF io_check
<1>4. CASE io_gate(t)
  BY <1>4 DEF io_gate
<1>5. ASSUME NEW p \in Packet, io_read_frame(t, p)
      PROVE  IoTypes' /\ ctl' = ctl
  BY <1>5 DEF io_read_frame
<1>6. CASE io_read_error(t)
  BY <1>6 DEF io_read_error
<1>7. CASE io_read_eof(t)
  BY <1>7 DEF io_read_eof
<1>8. CASE io_eof(t)
  BY <1>8 DEF io_eof
<1>9. CASE io_write_done(t)
  BY <1>9 DEF io_write_done
<1>10. CASE io_write_full(t)
  BY <1>10 DEF io_write_full
<1>11. QED
  BY <1>1, <1>2, <1>3, <1>4, <1>5, <1>6, <1>7, <1>8, <1>9, <1>10 DEF player_io_thread

(* Every call with which the event loop works on the IO thread.             *)
LEMMA CallTypes ==
  ASSUME IoTypes, NEW from, NEW to,
         \/ pause_io_thread(from, to) \/ pause_wait(from, to)
         \/ resume_io_thread(from, to)
         \/ start_io_thread(from, to) \/ start_io_thread_end(from, to)
         \/ stop_io_thread(from, to) \/ join_io_thread(from, to)
  PROVE  IoTypes' /\ ctl' = to
<1> USE DEF IoTypes, IoPlaces, Move
<1>1. CASE pause_io_thread(from, to)
  BY <1>1 DEF pause_io_thread
<1>2. CASE pause_wait(from, to)
  BY <1>2 DEF pause_wait
<1>3. CASE resume_io_thread(from, to)
  BY <1>3 DEF resume_io_thread
<1>4. CASE start_io_thread(from, to)
  BY <1>4 DEF start_io_thread, IoGoto
<1>5. CASE start_io_thread_end(from, to)
  BY <1>5 DEF start_io_thread_end
<1>6. CASE stop_io_thread(from, to)
  BY <1>6 DEF stop_io_thread
<1>7. CASE join_io_thread(from, to)
  BY <1>7 DEF join_io_thread
<1>8. QED
  BY <1>1, <1>2, <1>3, <1>4, <1>5, <1>6, <1>7

LEMMA HostTypes ==
  ASSUME TypeOK, UNCHANGED setting, NEW from, NEW to, to \in CtlPlaces,
         host_stop(from, to) \/ host_init(from, to)
  PROVE  TypeOK'
<1>1. CASE host_stop(from, to)
  BY <1>1 DEF TypeOK, host_stop, Move
<1>2. CASE host_init(from, to)
  BY <1>2 DEF TypeOK, host_init, Move
<1>3. QED
  BY <1>1, <1>2

LEMMA UntouchedTypes ==
  ASSUME TypeOK, UNCHANGED setting, UNCHANGED playervars, IoTypes', ctl' \in CtlPlaces
  PROVE  TypeOK'
<1>1. PlayerTypes'
  BY TypeParts DEF PlayerTypes, playervars
<1>2. QED
  BY <1>1 DEF TypeOK, IoTypes, PlayerTypes

(* The application and the transport thread.                                *)
LEMMA SendTypes ==
  ASSUME TypeOK, UNCHANGED setting,
         (\E c \in Command : send_event(c)) \/ dtplayer_seekto \/ transport
  PROVE  TypeOK'
<1>1. ASSUME NEW c \in Command, send_event(c)
      PROVE  TypeOK'
  <2>1. hub' \in Seq(Command) /\ queue' = queue
    BY <1>1, Queues DEF TypeOK, send_event
  <2>2. sent' \in 0 .. setting.commands
    BY <1>1, PlayerAssumption DEF TypeOK, send_event, Count, MaySend
  <2>3. stopping' \in BOOLEAN
    BY <1>1 DEF TypeOK, send_event, Count
  <2>4. QED
    BY <1>1, <2>1, <2>2, <2>3 DEF TypeOK, send_event, iovars
<1>2. CASE dtplayer_seekto
  <2>1. queue' \in Seq(Command) /\ hub' = hub
    BY <1>2, Queues DEF TypeOK, dtplayer_seekto, Command
  <2>2. sent' \in 0 .. setting.commands
    BY <1>2, PlayerAssumption DEF TypeOK, dtplayer_seekto, Count, MaySend
  <2>3. stopping' \in BOOLEAN
    BY <1>2 DEF TypeOK, dtplayer_seekto, Count
  <2>4. QED
    BY <1>2, <2>1, <2>2, <2>3 DEF TypeOK, dtplayer_seekto, iovars
<1>3. CASE transport
  <2>1. queue' \in Seq(Command) /\ hub' \in Seq(Command)
    BY <1>3, Queues DEF TypeOK, transport
  <2>2. QED
    BY <1>3, <2>1 DEF TypeOK, transport, iovars
<1>4. QED
  BY <1>1, <1>2, <1>3

(* The handlers that meet only the host.                                    *)
LEMMA HandlerTypes ==
  ASSUME TypeOK, UNCHANGED setting, player_start \/ player_pause \/ player_resume \/ player_stop
  PROVE  TypeOK'
<1>1. queue' \in Seq(Command) /\ hub' = hub /\ sent' = sent /\ stopping' = stopping
      /\ UNCHANGED iovars
  BY Queues DEF TypeOK, player_start, player_pause, player_resume, player_stop, Take
<1>2. pstatus' \in PlayerStatus
  BY DEF TypeOK, player_start, player_pause, player_resume, player_stop, Resume, PlayerStatus
<1>3. host' \in {"none", "ready", "running", "paused"}
  BY DEF TypeOK, player_start, player_pause, player_resume, player_stop, Resume,
         host_start, host_pause, host_resume
<1>4. QED
  BY <1>1, <1>2, <1>3 DEF TypeOK, iovars

LEMMA SeekTypes ==
  ASSUME TypeOK, UNCHANGED setting, player_seekto
  PROVE  TypeOK'
<1>1. CASE seek_enter
  <2>1. queue' \in Seq(Command)
    BY <1>1, Queues DEF TypeOK, seek_enter, Take
  <2>2. QED
    BY <1>1, <2>1 DEF TypeOK, seek_enter, CtlPlaces, PlayerStatus
<1>2. CASE seek_pause
  <2>1. IoTypes' /\ ctl' \in CtlPlaces /\ UNCHANGED playervars
    BY <1>2, TypeParts, CallTypes DEF seek_pause, CtlPlaces
  <2>2. QED
    BY <2>1, UntouchedTypes
<1>3. CASE seek_stop
  BY <1>3, HostTypes DEF seek_stop, CtlPlaces
<1>4. CASE seek_demux
  BY <1>4 DEF TypeOK, seek_demux, CtlPlaces, playervars
<1>5. CASE seek_init
  BY <1>5, HostTypes DEF seek_init, CtlPlaces
<1>6. CASE seek_check
  BY <1>6 DEF TypeOK, seek_check, CtlPlaces, playervars, Move
<1>7. CASE seek_restart
  <2>1. IoTypes' /\ ctl' \in CtlPlaces /\ UNCHANGED playervars
    BY <1>7, TypeParts, CallTypes DEF seek_restart, CtlPlaces
  <2>2. QED
    BY <2>1, UntouchedTypes
<1>8. CASE seek_exit
  BY <1>8 DEF TypeOK, seek_exit, CtlPlaces, PlayerStatus, Move, host_start
<1>9. CASE seek_fail
  <2>1. CASE resume_io_thread("seek_fail", "seek_failed") /\ UNCHANGED playervars
    <3>1. IoTypes' /\ ctl' \in CtlPlaces
      BY <2>1, TypeParts, CallTypes DEF CtlPlaces
    <3>2. QED
      BY <2>1, <3>1, UntouchedTypes
  <2>2. CASE Move("seek_failed", "idle")
    BY <1>9, <2>2 DEF TypeOK, seek_fail, Move, CtlPlaces, PlayerStatus, host_resume, resume_io_thread
  <2>3. QED
    BY <1>9, <2>1, <2>2 DEF seek_fail
<1>10. QED
  BY <1>1, <1>2, <1>3, <1>4, <1>5, <1>6, <1>7, <1>8, <1>9 DEF player_seekto

LEMMA ResetTypes ==
  ASSUME TypeOK, UNCHANGED setting, player_dec_reset
  PROVE  TypeOK'
<1>1. CASE \/ pause_io_thread("reset_flag", "reset_spin") /\ UNCHANGED playervars
           \/ pause_wait("reset_spin", "reset_stop") /\ UNCHANGED playervars
           \/ resume_io_thread("reset_resume", "reset_start") /\ UNCHANGED playervars
  <2>1. IoTypes' /\ ctl' \in CtlPlaces /\ UNCHANGED playervars
    BY <1>1, TypeParts, CallTypes DEF CtlPlaces
  <2>2. QED
    BY <2>1, UntouchedTypes
<1>2. CASE host_stop("reset_stop", "reset_init") \/ host_init("reset_init", "reset_resume")
  BY <1>2, HostTypes DEF CtlPlaces
<1>3. CASE /\ Move("reset_start", "buffering")
           /\ host_start
           /\ UNCHANGED <<status, flag, io, pkt, tid, eof_flag, wait_key, stale, fresh, rested>>
           /\ UNCHANGED <<pstatus, hub, queue, sent, stopping>>
  BY <1>3 DEF TypeOK, Move, CtlPlaces, host_start
<1>4. QED
  BY <1>1, <1>2, <1>3 DEF player_dec_reset

LEMMA QuitTypes ==
  ASSUME TypeOK, UNCHANGED setting, quit_loop
  PROVE  TypeOK'
<1>1. CASE \/ stop_io_thread("quit", "quit_join") /\ UNCHANGED playervars
           \/ join_io_thread("quit_join", "quit_stop") /\ UNCHANGED playervars
  <2>1. IoTypes' /\ ctl' \in CtlPlaces /\ UNCHANGED playervars
    BY <1>1, TypeParts, CallTypes DEF CtlPlaces
  <2>2. QED
    BY <2>1, UntouchedTypes
<1>2. CASE host_stop("quit_stop", "quit_free")
  BY <1>2, HostTypes DEF CtlPlaces
<1>3. CASE /\ Move("quit_free", "exited")
           /\ pstatus' = "EXIT"
           /\ UNCHANGED <<status, flag, io, pkt, tid, eof_flag, wait_key, stale, fresh, rested>>
           /\ UNCHANGED <<host, hub, queue, sent, stopping>>
  BY <1>3 DEF TypeOK, Move, CtlPlaces, PlayerStatus
<1>4. QED
  BY <1>1, <1>2, <1>3 DEF quit_loop

(* What the event loop does between events.                                 *)
LEMMA BetweenTypes ==
  ASSUME TypeOK, UNCHANGED setting, drained \/ player_update_state \/ player_buffering_check \/ play_end
  PROVE  TypeOK'
<1>1. CASE drained
  BY <1>1 DEF TypeOK, drained, CtlPlaces, playervars
<1>2. CASE player_update_state
  BY <1>2 DEF TypeOK, player_update_state, CtlPlaces, playervars
<1>3. CASE player_buffering_check
  BY <1>3 DEF TypeOK, player_buffering_check, CtlPlaces, PlayerStatus, Move, Resume,
              host_pause, host_resume
<1>4. CASE play_end
  <2>1. queue' \in Seq(Command)
    BY <1>4, Queues DEF TypeOK, play_end, Command
  <2>2. QED
    BY <1>4, <2>1 DEF TypeOK, play_end, CtlPlaces
<1>5. QED
  BY <1>1, <1>2, <1>3, <1>4

(* Types, for every number of threads and commands, whatever goes wrong.    *)
THEOREM PlayerTyped == Spec => []TypeOK
<1>1. TypeOK /\ [Next]_vars => TypeOK'
  <2> SUFFICES ASSUME TypeOK, [Next]_vars PROVE TypeOK'
    OBVIOUS
  <2> UNCHANGED setting
    BY DEF Next, vars
  <2>1. CASE event_handle_loop
    BY <2>1, HandlerTypes, SeekTypes, ResetTypes, QuitTypes, BetweenTypes DEF event_handle_loop
  <2>2. ASSUME NEW t \in IoThread, io_loop(t)
        PROVE  TypeOK'
    <3>1. IoTypes' /\ ctl' = ctl /\ UNCHANGED playervars
      BY <2>2, TypeParts, IoStepTypes DEF io_loop
    <3>2. QED
      BY <3>1, TypeParts, UntouchedTypes
  <2>3. CASE UNCHANGED vars
    BY <2>3 DEF TypeOK, vars, iovars, playervars
  <2>4. QED
    BY <2>1, <2>2, <2>3, SendTypes DEF Next
<1>2. QED
  BY InitTypes, <1>1, PTL DEF Spec

-----------------------------------------------------------------------------
(* The IO thread and the event loop that stops and rebuilds what it reads   *)
(* and writes: proofs for any number of threads, commands and kinds of      *)
(* packets, for live streams, loop mode and refused seeks as well, under    *)
(* the timing that Prompt names.                                            *)

(* Where the event loop is with respect to the IO thread: the thread runs   *)
(* or has quit by itself; it is asked to pause; it has paused or quit; the  *)
(* loop is on its way out.                                                  *)
Running == {"idle", "update", "buffering", "eof", "seek_flag", "reset_flag", "seek_exit",
            "seek_failed", "reset_start", "quit"}
Asking == {"seek_spin", "reset_spin"}
Resting == {"seek_stop", "seek_demux", "seek_init", "seek_check", "seek_fail", "seek_start",
            "seek_started", "seek_resume", "reset_stop", "reset_init", "reset_resume"}
Gone == {"quit_stop", "quit_free", "exited"}

(* Every thread but the last one created is gone and holds nothing.         *)
OneLeft ==
  /\ io[tid] # "none"
  /\ \A t \in IoThread : t # tid => io[t] \in {"none", "exited"}
  /\ \A t \in IoThread : io[t] \in {"none", "exited"} => pkt[t] = NoPacket /\ t \notin stale

(* Which status goes with which place of the loop ...                       *)
StatusPlace ==
  /\ flag = "PAUSE" <=> ctl \in Asking
  /\ status = "PAUSED" => ctl \in Asking \cup Resting
  /\ ctl \in Resting => status \in {"PAUSED", "QUIT"}
  /\ ctl \in {"seek_started", "seek_resume", "reset_stop", "reset_init", "reset_resume"} =>
       status = "PAUSED"
  /\ ctl = "seek_start" => status = "QUIT"
  /\ ctl \in Gone \cup {"quit_join"} => status = "QUIT"

(* ... and with which place of the thread.                                  *)
ThreadPlace ==
  /\ status = "PAUSED" => io[tid] \in {"check", "gate", "top", "mark"}
  /\ status = "QUIT" /\ ctl # "quit_join" => io[tid] \in {"eof", "top", "check", "mark", "exited"}
  /\ io[tid] = "mark" => ctl # "seek_started" /\ (status = "PAUSED" \/ ctl \in Asking)
  /\ io[tid] = "eof" => status = "QUIT"
  /\ ctl \in Gone => io[tid] = "exited"

(* What a thread holds that has paused or quit, and when it is stale.       *)
HeldPacket ==
  /\ io[tid] = "read" => pkt[tid] = NoPacket
  /\ status = "QUIT" /\ ctl # "quit_join" => pkt[tid] = NoPacket
  /\ status = "PAUSED" /\ tid \in rested => pkt[tid] = NoPacket
  /\ ctl \in Asking /\ status # "PAUSED" => tid \notin rested
  /\ tid \in stale => ctl \in Resting /\ status = "PAUSED" /\ tid \notin rested
  /\ ctl = "seek_started" => pkt[tid] = NoPacket /\ tid \notin stale

(* A rebuilt host waits for a key frame, or one is held for it.             *)
KeyFrameHeld ==
  /\ fresh /\ status # "PAUSED" /\ io[tid] # "exited" =>
       \/ wait_key /\ pkt[tid] = NoPacket /\ io[tid] # "write"
       \/ pkt[tid] \in KeyFrame
  /\ ctl \in {"seek_check", "seek_start", "seek_started", "seek_resume", "reset_resume"} /\ fresh =>
       wait_key
  /\ ctl \in {"seek_demux", "seek_init", "reset_init", "seek_fail"} => ~fresh

IInv == OneLeft /\ StatusPlace /\ ThreadPlace /\ HeldPacket /\ KeyFrameHeld

\* Only the last thread takes a step.
LEMMA LastSteps ==
  ASSUME OneLeft, NEW t \in IoThread, player_io_thread(t)
  PROVE  t = tid /\ io[tid] \notin {"none", "exited"} /\ tid' = tid /\ ctl' = ctl
<1>1. io[t] \notin {"none", "exited"}
  BY DEF player_io_thread, io_top, io_mark, io_check, io_gate, io_read_frame, io_read_error,
         io_read_eof, io_eof, io_write_done, io_write_full
<1>2. tid' = tid /\ ctl' = ctl
  BY DEF player_io_thread, io_top, io_mark, io_check, io_gate, io_read_frame, io_read_error,
         io_read_eof, io_eof, io_write_done, io_write_full
<1>3. QED
  BY <1>1, <1>2 DEF OneLeft

(* A step of the thread keeps the invariant.                                *)
LEMMA IoStepKeeps ==
  ASSUME TypeOK, IInv, NEW t \in IoThread, player_io_thread(t), Prompt
  PROVE  IInv'
<1>1. t = tid /\ tid' = tid /\ ctl' = ctl
  BY LastSteps DEF IInv
<1>2. KeyFrame \subseteq Packet /\ NoPacket \notin Packet
  BY PlayerIoAssumption
<1>3. /\ io \in [IoThread -> IoPlaces] /\ pkt \in [IoThread -> Packet \cup {NoPacket}]
      /\ tid \in IoThread
  BY DEF TypeOK
<1> USE <1>1, <1>2, <1>3 DEF IInv, OneLeft, StatusPlace, ThreadPlace, HeldPacket, KeyFrameHeld,
        Running, Asking, Resting, Gone, IoGoto, Drop, IoPlaces
<1>4. CASE io_top(t)
  BY <1>4 DEF io_top
<1>5. CASE io_mark(t)
  BY <1>5 DEF io_mark
<1>6. CASE io_check(t)
  BY <1>6 DEF io_check
<1>7. CASE io_gate(t)
  BY <1>7 DEF io_gate
<1>8. ASSUME NEW p \in Packet, io_read_frame(t, p)
      PROVE  IInv'
  BY <1>8 DEF io_read_frame
<1>9. CASE io_read_error(t)
  BY <1>9 DEF io_read_error
<1>10. CASE io_read_eof(t)
  BY <1>10 DEF io_read_eof
<1>11. CASE io_eof(t)
  BY <1>11 DEF io_eof
<1>12. CASE io_write_done(t)
  BY <1>12 DEF io_write_done
<1>13. CASE io_write_full(t)
  BY <1>13 DEF io_write_full
<1>14. QED
  BY <1>4, <1>5, <1>6, <1>7, <1>8, <1>9, <1>10, <1>11, <1>12, <1>13 DEF player_io_thread

(* Where Prompt lets the loop go on, the thread has slept and dropped its   *)
(* packet, or is gone.                                                      *)
LEMMA SettledThread ==
  ASSUME TypeOK, OneLeft, Settled
  PROVE  \/ io[tid] = "exited"
         \/ status # "QUIT" /\ tid \in rested /\ io[tid] # "mark"
<1>1. tid \in IoThread
  BY DEF TypeOK
<1>2. QED
  BY <1>1 DEF OneLeft, Settled, Alive, io_thread_running

\* What the steps of the event loop have in common.
LEMMA LoopFacts ==
  ASSUME TypeOK
  PROVE  /\ KeyFrame \subseteq Packet /\ NoPacket \notin Packet
         /\ io \in [IoThread -> IoPlaces] /\ pkt \in [IoThread -> Packet \cup {NoPacket}]
         /\ tid \in IoThread /\ status \in {"PAUSED", "RUNNING", "QUIT"}
         /\ flag \in {"NULL", "PAUSE"}
  BY PlayerIoAssumption DEF TypeOK

(* Asking the thread to pause and waiting for its answer.                   *)
LEMMA PauseKeeps ==
  ASSUME TypeOK, IInv,
         \/ pause_io_thread("seek_flag", "seek_spin") \/ pause_wait("seek_spin", "seek_stop")
         \/ pause_io_thread("reset_flag", "reset_spin") \/ pause_wait("reset_spin", "reset_stop")
  PROVE  IInv'
  BY LoopFacts DEF IInv, OneLeft, StatusPlace, ThreadPlace, HeldPacket, KeyFrameHeld, Running, Asking,
     Resting, Gone, Move, pause_io_thread, pause_wait

(* Letting it go on.                                                        *)
LEMMA ResumeKeeps ==
  ASSUME TypeOK, IInv, Prompt,
         \/ resume_io_thread("seek_resume", "seek_exit") \/ resume_io_thread("seek_fail", "seek_failed")
         \/ resume_io_thread("reset_resume", "reset_start")
  PROVE  IInv'
<1>1. Settled
  BY DEF resume_io_thread
<1>2. \/ io[tid] = "exited"
      \/ status # "QUIT" /\ tid \in rested /\ io[tid] # "mark"
  BY <1>1, SettledThread DEF IInv
<1>3. QED
  BY <1>2, LoopFacts DEF IInv, OneLeft, StatusPlace, ThreadPlace, HeldPacket, KeyFrameHeld, Running,
     Asking, Resting, Gone, Move, resume_io_thread

(* A new thread in the place of one that has quit.                          *)
LEMMA StartKeeps ==
  ASSUME TypeOK, IInv, Prompt,
         \/ start_io_thread("seek_start", "seek_started")
         \/ start_io_thread_end("seek_started", "seek_exit")
  PROVE  IInv'
<1>1. CASE start_io_thread("seek_start", "seek_started")
  <2>1. Settled /\ status = "QUIT"
    BY <1>1 DEF start_io_thread, Move, IInv, StatusPlace
  <2>2. io[tid] = "exited"
    BY <2>1, SettledThread DEF IInv
  <2>3. PICK t \in IoThread \ Alive : io' = [io EXCEPT ![t] = "top"] /\ tid' = t
    BY <1>1 DEF start_io_thread, IoGoto
  <2>4. \A u \in IoThread : io[u] \in {"none", "exited"} /\ pkt[u] = NoPacket /\ u \notin stale
    BY <2>2 DEF IInv, OneLeft
  <2>5. OneLeft'
    BY <1>1, <2>3, <2>4, LoopFacts DEF OneLeft, start_io_thread
  <2>6. QED
    BY <1>1, <2>3, <2>4, <2>5, LoopFacts DEF IInv, StatusPlace, ThreadPlace, HeldPacket, KeyFrameHeld,
       Running, Asking, Resting, Gone, Move, start_io_thread
<1>2. CASE start_io_thread_end("seek_started", "seek_exit")
  BY <1>2, LoopFacts DEF IInv, OneLeft, StatusPlace, ThreadPlace, HeldPacket, KeyFrameHeld, Running,
     Asking, Resting, Gone, Move, start_io_thread_end
<1>3. QED
  BY <1>1, <1>2

(* Stopping it.                                                             *)
LEMMA StopKeeps ==
  ASSUME TypeOK, IInv,
         stop_io_thread("quit", "quit_join") \/ join_io_thread("quit_join", "quit_stop")
  PROVE  IInv'
  BY LoopFacts DEF IInv, OneLeft, StatusPlace, ThreadPlace, HeldPacket, KeyFrameHeld, Running, Asking,
     Resting, Gone, Move, stop_io_thread, join_io_thread, Alive

(* Tearing the host down, moving the demuxer, building the host.            *)
LEMMA RebuildKeeps ==
  ASSUME TypeOK, IInv,
         \/ host_stop("seek_stop", "seek_demux") \/ host_stop("reset_stop", "reset_init")
         \/ host_stop("quit_stop", "quit_free")
         \/ seek_demux
         \/ host_init("seek_init", "seek_check") \/ host_init("reset_init", "reset_resume")
  PROVE  IInv'
<1> USE LoopFacts DEF IInv, OneLeft, StatusPlace, ThreadPlace, HeldPacket, KeyFrameHeld, Running,
        Asking, Resting, Gone, Move
<1>1. CASE \/ host_stop("seek_stop", "seek_demux") \/ host_stop("reset_stop", "reset_init")
           \/ host_stop("quit_stop", "quit_free")
  BY <1>1 DEF host_stop
<1>2. CASE seek_demux
  BY <1>2 DEF seek_demux
<1>3. CASE host_init("seek_init", "seek_check") \/ host_init("reset_init", "reset_resume")
  BY <1>3 DEF host_init
<1>4. QED
  BY <1>1, <1>2, <1>3

(* The loop goes on without touching what the two share.                    *)
LEMMA MoveKeeps ==
  ASSUME TypeOK, IInv,
         UNCHANGED <<status, flag, io, pkt, tid, eof_flag, wait_key, stale, fresh, rested>>,
         \/ ctl' = ctl
         \/ ctl \in Running \ {"seek_flag", "reset_flag"} /\ ctl' \in Running \ {"seek_flag"}
         \/ ctl = "idle" /\ ctl' = IF io_thread_running THEN "seek_flag" ELSE "seek_stop"
         \/ ctl = "seek_check" /\ ctl' = IF io_thread_running THEN "seek_resume" ELSE "seek_start"
         \/ ctl = "quit_free" /\ ctl' = "exited"
  PROVE  IInv'
  BY LoopFacts DEF IInv, OneLeft, StatusPlace, ThreadPlace, HeldPacket, KeyFrameHeld, Running, Asking,
     Resting, Gone, io_thread_running

-----------------------------------------------------------------------------
LEMMA SeekKeeps ==
  ASSUME TypeOK, IInv, Prompt, player_seekto
  PROVE  IInv'
<1>1. CASE seek_enter
  BY <1>1, MoveKeeps DEF seek_enter, Take
<1>2. CASE seek_pause
  BY <1>2, PauseKeeps DEF seek_pause
<1>3. CASE seek_stop \/ seek_demux \/ seek_init
  BY <1>3, RebuildKeeps DEF seek_stop, seek_init
<1>4. CASE seek_check
  BY <1>4, MoveKeeps DEF seek_check, Move
<1>5. CASE seek_restart
  BY <1>5, ResumeKeeps, StartKeeps DEF seek_restart
<1>6. CASE seek_exit
  BY <1>6, MoveKeeps DEF seek_exit, Move, Running
<1>7. CASE seek_fail
  BY <1>7, ResumeKeeps, MoveKeeps DEF seek_fail, Move, Running
<1>8. QED
  BY <1>1, <1>2, <1>3, <1>4, <1>5, <1>6, <1>7 DEF player_seekto

LEMMA ResetKeeps ==
  ASSUME TypeOK, IInv, Prompt, player_dec_reset
  PROVE  IInv'
  BY PauseKeeps, RebuildKeeps, ResumeKeeps, MoveKeeps DEF player_dec_reset, Move, Running

LEMMA QuitKeeps ==
  ASSUME TypeOK, IInv, quit_loop
  PROVE  IInv'
  BY StopKeeps, RebuildKeeps, MoveKeeps DEF quit_loop, Move

(* The handlers that meet only the host, and what is done between events.   *)
LEMMA OtherKeeps ==
  ASSUME TypeOK, IInv,
         \/ player_start \/ player_pause \/ player_resume \/ player_stop
         \/ drained \/ player_update_state \/ player_buffering_check \/ play_end
  PROVE  IInv'
<1>1. CASE player_start \/ player_pause \/ player_resume \/ player_stop
  BY <1>1, MoveKeeps DEF player_start, player_pause, player_resume, player_stop, iovars
<1>2. CASE drained \/ player_update_state \/ player_buffering_check \/ play_end
  BY <1>2, MoveKeeps DEF drained, player_update_state, player_buffering_check, play_end, Move, Running
<1>3. QED
  BY <1>1, <1>2

LEMMA InitKeeps == Init => IInv
  BY PlayerIoAssumption DEF Init, IoInit, IInv, OneLeft, StatusPlace, ThreadPlace, HeldPacket,
     KeyFrameHeld, Running, Asking, Resting, Gone

LEMMA StepKeeps ==
  ASSUME TypeOK, IInv, Prompt, [Next]_vars
  PROVE  IInv'
<1>1. CASE event_handle_loop
  BY <1>1, SeekKeeps, ResetKeeps, QuitKeeps, OtherKeeps DEF event_handle_loop
<1>2. ASSUME NEW t \in IoThread, io_loop(t)
      PROVE  IInv'
  BY <1>2, IoStepKeeps DEF io_loop
<1>3. CASE (\E c \in Command : send_event(c)) \/ dtplayer_seekto \/ transport \/ UNCHANGED vars
  BY <1>3, MoveKeeps DEF send_event, dtplayer_seekto, transport, vars, iovars
<1>4. QED
  BY <1>1, <1>2, <1>3 DEF Next

LEMMA Reader == ASSUME Prompt PROVE Spec => [](TypeOK /\ IInv)
<1>1. TypeOK /\ IInv /\ [Next]_vars => IInv'
  BY StepKeeps
<1>2. QED
  BY <1>1, InitKeeps, PlayerTyped, PTL DEF Spec

-----------------------------------------------------------------------------
(* SeekAlone (player_seekto, dtplayer.c:437-447): for any number of         *)
(* commands, refused seeks, decoder resets and restarts of the thread.      *)
THEOREM PlayerSeeksAlone == ASSUME Prompt PROVE Spec => []SeekAlone
<1>1. TypeOK /\ IInv => SeekAlone
  BY DEF TypeOK, IInv, OneLeft, StatusPlace, ThreadPlace, Resting, Gone, Asking, SeekAlone,
         Rebuilding, Tearing
<1>2. QED
  BY <1>1, Reader, PTL

(* OneReader: the demuxer never has a second reader.                        *)
THEOREM PlayerOneReader == ASSUME Prompt PROVE Spec => []OneReader
<1>1. TypeOK /\ IInv => OneReader
  <2> SUFFICES ASSUME TypeOK, IInv PROVE Cardinality(Alive) <= 1
    BY DEF OneReader
  <2>1. Alive \subseteq {tid}
    BY DEF Alive, IInv, OneLeft
  <2>2. IsFiniteSet({tid}) /\ Cardinality({tid}) = 1
    BY FS_Singleton
  <2>3. Cardinality(Alive) <= Cardinality({tid})
    BY <2>1, <2>2, FS_Subset
  <2>4. QED
    BY <2>2, <2>3
<1>2. QED
  BY <1>1, Reader, PTL

(* WritesBelong (player_io_thread, dtplayer_io.c:107-140): nothing from     *)
(* before a seek, and a key frame first.                                    *)
THEOREM PlayerWritesBelong == ASSUME Prompt PROVE Spec => []WritesBelong
<1>1. TypeOK /\ IInv => WritesBelong
  BY DEF TypeOK, IInv, OneLeft, ThreadPlace, HeldPacket, KeyFrameHeld, WritesBelong, NoStalePacket,
         KeyFrameFirst
<1>2. QED
  BY <1>1, Reader, PTL

-----------------------------------------------------------------------------
(* A player whose decoder is not reset and whose seeks are not refused.     *)

Seeking == {"seek_flag", "seek_spin", "seek_stop", "seek_demux", "seek_init", "seek_check",
            "seek_start", "seek_started", "seek_resume", "seek_exit"}
Between == {"idle", "update", "buffering", "eof"}
Leaving == {"quit", "quit_join", "quit_stop", "quit_free", "exited"}

\* The event loop is in no handler of trouble, and a thread that is to run is
\* there.
ThreadThere ==
  /\ ctl \in Between \cup Seeking \cup Leaving
  /\ status = "RUNNING" => io[tid] # "exited"

LEMMA InitThere == Init => ThreadThere
  BY DEF Init, IoInit, ThreadThere, Between

LEMMA ThereKeeps ==
  ASSUME TypeOK, IInv, ThreadThere, Untroubled, Prompt, [Next]_vars
  PROVE  ThreadThere'
<1> USE DEF Between, Seeking, Leaving
<1>1. io \in [IoThread -> IoPlaces] /\ tid \in IoThread /\ ~setting.live /\ ~setting.refuses
  BY DEF TypeOK, Untroubled
<1>2. ASSUME NEW t \in IoThread, io_loop(t)
      PROVE  ThreadThere'
  <2>1. t = tid /\ tid' = tid /\ ctl' = ctl /\ player_io_thread(t)
    BY <1>2, LastSteps DEF IInv, io_loop
  <2>2. status' = "RUNNING" => io'[tid] # "exited"
    BY <1>1, <2>1 DEF player_io_thread, io_top, io_mark, io_check, io_gate, io_read_frame, io_read_error,
       io_read_eof, io_eof, io_write_done, io_write_full, IoGoto, ThreadThere
  <2>3. QED
    BY <2>1, <2>2 DEF ThreadThere
<1>3. ASSUME UNCHANGED <<status, io, tid>>,
             ctl' \in Between \cup Seeking \cup Leaving
      PROVE  ThreadThere'
  BY <1>3 DEF ThreadThere
<1>4. CASE player_start \/ player_pause \/ player_resume \/ player_stop
  BY <1>3, <1>4 DEF player_start, player_pause, player_resume, player_stop, iovars, ThreadThere
<1>5. CASE drained \/ player_update_state \/ player_buffering_check \/ play_end
  BY <1>1, <1>3, <1>5 DEF drained, player_update_state, player_buffering_check, play_end, Move
<1>6. CASE player_seekto
  <2>1. CASE seek_enter
    BY <1>3, <2>1 DEF seek_enter
  <2>2. CASE seek_pause
    BY <1>3, <2>2 DEF seek_pause, pause_io_thread, pause_wait, Move
  <2>3. CASE seek_stop \/ seek_init
    BY <1>3, <2>3 DEF seek_stop, seek_init, host_stop, host_init, Move
  <2>4. CASE seek_demux
    BY <1>1, <1>3, <2>4 DEF seek_demux
  <2>5. CASE seek_check \/ seek_exit
    BY <1>3, <2>5 DEF seek_check, seek_exit, Move
  <2>6. CASE seek_restart
    <3>1. CASE resume_io_thread("seek_resume", "seek_exit")
      <4>1. status = "PAUSED" /\ io[tid] # "exited"
        BY <3>1 DEF resume_io_thread, Move, IInv, StatusPlace, ThreadPlace
      <4>2. QED
        BY <3>1, <4>1 DEF ThreadThere, resume_io_thread, Move
    <3>2. CASE start_io_thread("seek_start", "seek_started")
      BY <3>2 DEF ThreadThere, start_io_thread, Move
    <3>3. CASE start_io_thread_end("seek_started", "seek_exit")
      <4>1. status = "PAUSED" /\ io[tid] # "exited"
        BY <3>3 DEF start_io_thread_end, Move, IInv, StatusPlace, ThreadPlace
      <4>2. QED
        BY <3>3, <4>1 DEF ThreadThere, start_io_thread_end, Move
    <3>4. QED
      BY <2>6, <3>1, <3>2, <3>3 DEF seek_restart
  <2>7. CASE seek_fail
    BY <2>7 DEF seek_fail, resume_io_thread, Move, ThreadThere
  <2>8. QED
    BY <1>6, <2>1, <2>2, <2>3, <2>4, <2>5, <2>6, <2>7 DEF player_seekto
<1>7. CASE player_dec_reset
  <2>1. ctl \in {"reset_flag", "reset_spin", "reset_stop", "reset_init", "reset_resume", "reset_start"}
    BY <1>7 DEF player_dec_reset, pause_io_thread, pause_wait, host_stop, host_init, resume_io_thread,
       Move
  <2>2. QED
    BY <2>1 DEF ThreadThere
<1>8. CASE quit_loop
  BY <1>8 DEF quit_loop, stop_io_thread, join_io_thread, host_stop, Move, ThreadThere
<1>9. CASE (\E c \in Command : send_event(c)) \/ dtplayer_seekto \/ transport \/ UNCHANGED vars
  BY <1>9 DEF send_event, dtplayer_seekto, transport, vars, iovars, ThreadThere
<1>10. QED
  BY <1>2, <1>4, <1>5, <1>6, <1>7, <1>8, <1>9 DEF Next, event_handle_loop

\* The setting stays, and so does whether there is trouble.
LEMMA Staying == [Next]_vars => (Untroubled' <=> Untroubled)
  BY DEF Next, vars, Untroubled

LEMMA There == ASSUME Prompt PROVE Spec => [](TypeOK /\ IInv /\ (Untroubled => ThreadThere))
<1>1. TypeOK /\ IInv /\ (Untroubled => ThreadThere) /\ [Next]_vars => (Untroubled => ThreadThere)'
  BY ThereKeeps, Staying
<1>2. Spec => [](TypeOK /\ IInv)
  BY Reader
<1>3. QED
  BY <1>1, <1>2, InitThere, PTL DEF Spec

(* IoMatches (resume_io_thread and start_io_thread, dtplayer_io.c:191-233): *)
(* between events the thread is not left paused, and a RUNNING status has   *)
(* the one thread that was created last.                                    *)
THEOREM PlayerIoMatches == ASSUME Prompt PROVE Spec => []IoMatches
<1>1. ASSUME TypeOK, IInv, ThreadThere
      PROVE  ctl \in Between => status # "PAUSED" /\ (status = "RUNNING" => Alive = {tid})
  <2>1. Alive \subseteq {tid} /\ tid \in IoThread /\ io[tid] # "none"
    BY <1>1 DEF Alive, IInv, OneLeft, TypeOK
  <2>2. status = "RUNNING" => tid \in Alive
    BY <1>1, <2>1 DEF Alive, ThreadThere
  <2>3. ctl \in Between => status # "PAUSED"
    BY <1>1 DEF IInv, StatusPlace, Between, Asking, Resting
  <2>4. QED
    BY <2>1, <2>2, <2>3
<1>2. Spec => []OneReader
  BY PlayerOneReader
<1>3. TypeOK /\ IInv /\ (Untroubled => ThreadThere) /\ OneReader => IoMatches
  BY <1>1 DEF IoMatches, AtRest, Between
<1>4. QED
  BY <1>2, <1>3, There, PTL

-----------------------------------------------------------------------------
(* What the host does.                                                      *)

\* One command more at the end of a queue, one less at its head.
LEMMA Appended ==
  ASSUME NEW s \in Seq(Command), NEW c \in Command
  PROVE  /\ Append(s, c) \in Seq(Command)
         /\ DOMAIN s = 1 .. Len(s) /\ DOMAIN Append(s, c) = 1 .. Len(s) + 1
         /\ Len(s) \in Nat
         /\ \A k \in DOMAIN s : Append(s, c)[k] = s[k]
         /\ Append(s, c)[Len(s) + 1] = c
         /\ s # <<>> => Append(s, c) # <<>> /\ Head(Append(s, c)) = Head(s)
  OBVIOUS

LEMMA Tailed ==
  ASSUME NEW s \in Seq(Command), s # <<>>
  PROVE  /\ Tail(s) \in Seq(Command)
         /\ DOMAIN s = 1 .. Len(s) /\ DOMAIN Tail(s) = 1 .. Len(s) - 1
         /\ Len(s) \in Nat /\ 1 \in DOMAIN s /\ Head(s) = s[1]
         /\ \A k \in DOMAIN Tail(s) : k + 1 \in DOMAIN s /\ Tail(s)[k] = s[k + 1]
  OBVIOUS

\* Where the first START is: nothing but seeks comes before it, and until it is
\* handled nothing is done but seeking.
InHub == \E k \in DOMAIN hub : hub[k] = "START"
InQueue == \E k \in DOMAIN queue : queue[k] = "START"
Pending == InHub \/ InQueue

HubFirst == \A k \in DOMAIN hub : hub[k] = "START" => k = 1 /\ \A j \in DOMAIN queue : queue[j] = "SEEK"
QueueFirst == \A k \in DOMAIN queue : queue[k] = "START" => \A j \in 1 .. k - 1 : queue[j] = "SEEK"
StatusFirst ==
  /\ pstatus = "PREPARED" => Pending
  /\ Pending => ctl \in Seeking \cup {"idle"} /\ pstatus \in {"PREPARED", "RUNNING", "SEEK_ENTER", "SEEK_EXIT"}

\* What the host does goes with the status, and while a seek is handled with
\* how far it has come.
HostStatus ==
  /\ ctl \in Between =>
       /\ pstatus \in {"PREPARED", "RUNNING", "PAUSED", "BUFFERING", "STOP", "SEEK_EXIT"}
       /\ pstatus = "PREPARED" => host = "ready"
       /\ pstatus = "RUNNING" => host = "running"
       /\ pstatus \in {"PAUSED", "BUFFERING"} => host = "paused"
       /\ pstatus = "STOP" => host \in {"running", "paused"}
       /\ pstatus = "SEEK_EXIT" => ctl = "idle" /\ host = "ready" /\ queue # <<>> /\ Head(queue) = "SEEK"
  /\ ctl \in Seeking => pstatus = "SEEK_ENTER"
  /\ ctl \in {"seek_check", "seek_start", "seek_started", "seek_resume", "seek_exit"} => host = "ready"

(* Another command is sent: it is no START, or it is a seek.                *)
LEMMA SendOrder ==
  ASSUME TypeOK, HubFirst, QueueFirst, NEW c \in Command \ {"START"}, hub' = Append(hub, c), queue' = queue
  PROVE  HubFirst' /\ QueueFirst' /\ (Pending' <=> Pending)
<1>1. hub \in Seq(Command)
  BY DEF TypeOK
<1>2. /\ DOMAIN hub = 1 .. Len(hub) /\ DOMAIN hub' = 1 .. Len(hub) + 1 /\ Len(hub) \in Nat
      /\ \A k \in DOMAIN hub : hub'[k] = hub[k]
      /\ hub'[Len(hub) + 1] = c
  BY <1>1, Appended
<1>3. \A k \in DOMAIN hub' : hub'[k] = "START" => k \in DOMAIN hub /\ hub[k] = "START"
  BY <1>2
<1>4. DOMAIN hub \subseteq DOMAIN hub'
  BY <1>2
<1>5. HubFirst' /\ QueueFirst'
  BY <1>3 DEF HubFirst, QueueFirst
<1>6. InHub' <=> InHub
  BY <1>2, <1>3, <1>4 DEF InHub
<1>7. InQueue' <=> InQueue
  BY DEF InQueue
<1>8. QED
  BY <1>5, <1>6, <1>7 DEF Pending, InHub, InQueue

LEMMA SeekOrder ==
  ASSUME TypeOK, HubFirst, QueueFirst, hub' = hub, queue' = Append(queue, "SEEK")
  PROVE  HubFirst' /\ QueueFirst' /\ (Pending' <=> Pending)
<1>1. queue \in Seq(Command) /\ "SEEK" \in Command
  BY DEF TypeOK, Command
<1>2. /\ DOMAIN queue = 1 .. Len(queue) /\ DOMAIN queue' = 1 .. Len(queue) + 1 /\ Len(queue) \in Nat
      /\ \A k \in DOMAIN queue : queue'[k] = queue[k]
      /\ queue'[Len(queue) + 1] = "SEEK"
  BY <1>1, Appended
<1>3. \A k \in DOMAIN queue' : k \in DOMAIN queue \/ queue'[k] = "SEEK"
  BY <1>2
<1>4. \A k \in DOMAIN queue' : queue'[k] = "START" => k \in DOMAIN queue /\ queue[k] = "START"
  BY <1>2, <1>3
<1>5. DOMAIN queue \subseteq DOMAIN queue'
  BY <1>2
<1>6. HubFirst'
  BY <1>2, <1>3 DEF HubFirst
<1>7. QueueFirst'
  <2> SUFFICES ASSUME NEW k \in DOMAIN queue', queue'[k] = "START", NEW j \in 1 .. k - 1
               PROVE  queue'[j] = "SEEK"
    BY DEF QueueFirst
  <2>1. k \in DOMAIN queue /\ queue[k] = "START"
    BY <1>4
  <2>2. queue[j] = "SEEK"
    BY <2>1 DEF QueueFirst
  <2>3. j \in DOMAIN queue
    BY <1>2, <2>1
  <2>4. QED
    BY <1>2, <2>2, <2>3
<1>8. InQueue' <=> InQueue
  BY <1>2, <1>4, <1>5 DEF InQueue
<1>9. InHub' <=> InHub
  BY DEF InHub
<1>10. QED
  BY <1>6, <1>7, <1>8, <1>9 DEF Pending, InHub, InQueue

(* The transport thread hands the first command over.                       *)
LEMMA TransportOrder ==
  ASSUME TypeOK, HubFirst, QueueFirst, transport
  PROVE  HubFirst' /\ QueueFirst' /\ (Pending' <=> Pending)
<1>1. hub # <<>> /\ queue' = Append(queue, Head(hub)) /\ hub' = Tail(hub)
  BY DEF transport
<1>2. hub \in Seq(Command) /\ queue \in Seq(Command) /\ Head(hub) \in Command
  BY <1>1, Queues DEF TypeOK
<1>3. /\ DOMAIN hub = 1 .. Len(hub) /\ DOMAIN hub' = 1 .. Len(hub) - 1
      /\ Len(hub) \in Nat /\ 1 \in DOMAIN hub /\ Head(hub) = hub[1]
      /\ \A k \in DOMAIN hub' : k + 1 \in DOMAIN hub /\ hub'[k] = hub[k + 1]
  BY <1>1, <1>2, Tailed
<1>4. /\ DOMAIN queue = 1 .. Len(queue) /\ DOMAIN queue' = 1 .. Len(queue) + 1 /\ Len(queue) \in Nat
      /\ \A k \in DOMAIN queue : queue'[k] = queue[k]
      /\ queue'[Len(queue) + 1] = Head(hub)
  BY <1>1, <1>2, Appended
<1>5. \A k \in DOMAIN hub' : hub'[k] # "START"
  <2> SUFFICES ASSUME NEW k \in DOMAIN hub', hub'[k] = "START" PROVE FALSE
    OBVIOUS
  <2>1. k + 1 = 1
    BY <1>3 DEF HubFirst
  <2>2. QED
    BY <1>3, <2>1
<1>6. HubFirst' /\ ~InHub'
  BY <1>5 DEF HubFirst, InHub
<1>7. CASE Head(hub) = "START"
  <2>1. \A j \in DOMAIN queue : queue[j] = "SEEK"
    BY <1>3, <1>7 DEF HubFirst
  <2>2. QueueFirst'
    BY <1>4, <2>1 DEF QueueFirst
  <2>3. InQueue'
    BY <1>4, <1>7 DEF InQueue
  <2>4. InHub
    BY <1>3, <1>7 DEF InHub
  <2>5. QED
    BY <1>6, <2>2, <2>3, <2>4 DEF Pending, InHub, InQueue
<1>8. CASE Head(hub) # "START"
  <2>1. \A k \in DOMAIN queue' : queue'[k] = "START" => k \in DOMAIN queue /\ queue[k] = "START"
    BY <1>4, <1>8
  <2>2. DOMAIN queue \subseteq DOMAIN queue'
    BY <1>4
  <2>3. QueueFirst'
    <3> SUFFICES ASSUME NEW k \in DOMAIN queue', queue'[k] = "START", NEW j \in 1 .. k - 1
                 PROVE  queue'[j] = "SEEK"
      BY DEF QueueFirst
    <3>1. k \in DOMAIN queue /\ queue[k] = "START"
      BY <2>1
    <3>2. queue[j] = "SEEK"
      BY <3>1 DEF QueueFirst
    <3>3. j \in DOMAIN queue
      BY <1>4, <3>1
    <3>4. QED
      BY <1>4, <3>2, <3>3
  <2>4. InQueue' <=> InQueue
    BY <1>4, <2>1, <2>2 DEF InQueue
  <2>5. ~InHub
    BY <1>3, <1>8 DEF InHub, HubFirst
  <2>6. QED
    BY <1>6, <2>3, <2>4, <2>5 DEF Pending, InHub, InQueue
<1>9. QED
  BY <1>7, <1>8

(* The player takes a command: a seek leaves the START where it is, a START *)
(* was the only one, and anything else comes when there is none.            *)
LEMMA TakeOrder ==
  ASSUME TypeOK, HubFirst, QueueFirst, NEW c, Take(c), hub' = hub
  PROVE  /\ HubFirst' /\ QueueFirst'
         /\ c = "SEEK" => (Pending' <=> Pending)
         /\ c = "START" => ~Pending'
         /\ c \notin {"START", "SEEK"} => ~Pending /\ ~Pending'
<1>1. queue # <<>> /\ queue \in Seq(Command) /\ queue' = Tail(queue) /\ Head(queue) = c
  BY DEF Take, TypeOK
<1>2. /\ DOMAIN queue = 1 .. Len(queue) /\ DOMAIN queue' = 1 .. Len(queue) - 1
      /\ Len(queue) \in Nat /\ 1 \in DOMAIN queue /\ c = queue[1]
      /\ \A k \in DOMAIN queue' : k + 1 \in DOMAIN queue /\ queue'[k] = queue[k + 1]
  BY <1>1, Tailed
<1>3. \A k \in DOMAIN hub' : hub'[k] = "START" => c = "SEEK"
  BY <1>2 DEF HubFirst
<1>4. HubFirst'
  BY <1>2 DEF HubFirst
<1>5. \A k \in DOMAIN queue' : queue'[k] = "START" => c = "SEEK"
  <2> SUFFICES ASSUME NEW k \in DOMAIN queue', queue'[k] = "START" PROVE c = "SEEK"
    OBVIOUS
  <2>1. k + 1 \in DOMAIN queue /\ queue[k + 1] = "START" /\ 1 \in 1 .. (k + 1) - 1
    BY <1>2
  <2>2. QED
    BY <1>2, <2>1 DEF QueueFirst
<1>6. QueueFirst'
  <2> SUFFICES ASSUME NEW k \in DOMAIN queue', queue'[k] = "START", NEW j \in 1 .. k - 1
               PROVE  queue'[j] = "SEEK"
    BY DEF QueueFirst
  <2>1. k + 1 \in DOMAIN queue /\ queue[k + 1] = "START" /\ j + 1 \in 1 .. (k + 1) - 1
    BY <1>2
  <2>2. queue[j + 1] = "SEEK"
    BY <2>1 DEF QueueFirst
  <2>3. j \in DOMAIN queue'
    BY <1>2
  <2>4. QED
    BY <1>2, <2>2, <2>3
<1>7. c # "SEEK" => ~Pending'
  BY <1>3, <1>5 DEF Pending, InHub, InQueue
<1>8. c = "SEEK" => (InQueue' <=> InQueue)
  <2> SUFFICES ASSUME c = "SEEK" PROVE InQueue' <=> InQueue
    OBVIOUS
  <2>1. InQueue' => InQueue
    BY <1>2 DEF InQueue
  <2>2. ASSUME NEW k \in DOMAIN queue, queue[k] = "START"
        PROVE  InQueue'
    <3>1. k # 1 /\ k \in 1 .. Len(queue)
      BY <1>2, <2>2
    <3>2. k - 1 \in DOMAIN queue' /\ (k - 1) + 1 = k
      BY <1>2, <3>1
    <3>3. queue'[k - 1] = "START"
      BY <1>2, <2>2, <3>2
    <3>4. QED
      BY <3>2, <3>3 DEF InQueue
  <2>3. QED
    BY <2>1, <2>2 DEF InQueue
<1>9. InHub' <=> InHub
  BY DEF InHub
<1>10. c \notin {"START", "SEEK"} => ~Pending
  <2> SUFFICES ASSUME c \notin {"START", "SEEK"} PROVE ~Pending
    OBVIOUS
  <2>1. ~InHub
    BY <1>2 DEF HubFirst, InHub
  <2>2. ASSUME NEW k \in DOMAIN queue, queue[k] = "START" PROVE FALSE
    <3>1. k # 1 /\ k \in 1 .. Len(queue)
      BY <1>2, <2>2
    <3>2. 1 \in 1 .. k - 1
      BY <1>2, <3>1
    <3>3. QED
      BY <1>2, <2>2, <3>2 DEF QueueFirst
  <2>3. QED
    BY <2>1, <2>2 DEF Pending, InQueue
<1>11. QED
  BY <1>4, <1>6, <1>7, <1>8, <1>9, <1>10 DEF Pending, InHub, InQueue

HostInv == HubFirst /\ QueueFirst /\ StatusFirst /\ HostStatus

LEMMA InitHost == Init => HostInv
<1> SUFFICES ASSUME Init PROVE HostInv
  OBVIOUS
<1>1. hub = <<"START">> /\ queue = <<>> /\ pstatus = "PREPARED" /\ host = "ready" /\ ctl = "idle"
  BY DEF Init, IoInit
<1>2. DOMAIN hub = {1} /\ hub[1] = "START" /\ DOMAIN queue = {}
  BY <1>1
<1>3. HubFirst /\ QueueFirst /\ Pending
  BY <1>2 DEF HubFirst, QueueFirst, Pending, InHub
<1>4. StatusFirst /\ HostStatus
  BY <1>1, <1>3 DEF StatusFirst, HostStatus, Between, Seeking
<1>5. QED
  BY <1>3, <1>4 DEF HostInv

(* A command is sent or handed over.                                        *)
LEMMA SendHost ==
  ASSUME TypeOK, HostInv,
         (\E c \in Command : send_event(c)) \/ dtplayer_seekto \/ transport
  PROVE  HostInv'
<1>1. pstatus' = pstatus /\ host' = host /\ ctl' = ctl
  BY DEF send_event, dtplayer_seekto, transport, iovars
<1>2. HubFirst' /\ QueueFirst' /\ (Pending' <=> Pending)
  <2>1. ASSUME NEW c \in Command, send_event(c)
        PROVE  HubFirst' /\ QueueFirst' /\ (Pending' <=> Pending)
    <3>1. c \in Command \ {"START"} /\ hub' = Append(hub, c) /\ queue' = queue
      BY <2>1 DEF send_event
    <3>2. QED
      BY <3>1, SendOrder DEF HostInv
  <2>2. CASE dtplayer_seekto
    <3>1. hub' = hub /\ queue' = Append(queue, "SEEK")
      BY <2>2 DEF dtplayer_seekto
    <3>2. QED
      BY <3>1, SeekOrder DEF HostInv
  <2>3. CASE transport
    BY <2>3, TransportOrder DEF HostInv
  <2>4. QED
    BY <2>1, <2>2, <2>3
<1>3. queue # <<>> => queue' # <<>> /\ Head(queue') = Head(queue)
  <2>1. queue' = queue \/ \E c \in Command : queue' = Append(queue, c)
    BY Queues DEF send_event, dtplayer_seekto, transport, TypeOK, Command
  <2>2. queue \in Seq(Command)
    BY DEF TypeOK
  <2>3. QED
    BY <2>1, <2>2, Appended
<1>4. StatusFirst'
  BY <1>1, <1>2 DEF HostInv, StatusFirst
<1>5. HostStatus'
  BY <1>1, <1>3 DEF HostInv, HostStatus
<1>6. QED
  BY <1>2, <1>4, <1>5 DEF HostInv

(* The handlers that meet only the host.                                    *)
LEMMA HandlerHost ==
  ASSUME TypeOK, HostInv, player_start \/ player_pause \/ player_resume \/ player_stop
  PROVE  HostInv'
<1> USE DEF Between, Seeking
<1>1. /\ ctl = "idle" /\ ctl' = "idle" /\ hub' = hub
      /\ queue # <<>>
      /\ Head(queue) # "SEEK"
  BY DEF player_start, player_pause, player_resume, player_stop, Take, iovars
<1>2. /\ pstatus \in {"PREPARED", "RUNNING", "PAUSED", "BUFFERING", "STOP"}
      /\ pstatus = "PREPARED" => host = "ready"
      /\ pstatus = "RUNNING" => host = "running"
      /\ pstatus \in {"PAUSED", "BUFFERING"} => host = "paused"
      /\ pstatus = "STOP" => host \in {"running", "paused"}
  BY <1>1 DEF HostInv, HostStatus
<1>3. CASE player_start
  <2>1. HubFirst' /\ QueueFirst' /\ ~Pending'
    BY <1>1, <1>3, TakeOrder DEF HostInv, player_start
  <2>2. Pending
    <3>1. queue \in Seq(Command) /\ queue # <<>> /\ Head(queue) = "START"
      BY <1>3 DEF TypeOK, player_start, Take
    <3>2. 1 \in DOMAIN queue /\ queue[1] = "START"
      BY <3>1, Tailed
    <3>3. QED
      BY <3>2 DEF Pending, InHub, InQueue
  <2>3. pstatus \in {"PREPARED", "RUNNING"}
    BY <1>2, <2>2 DEF HostInv, StatusFirst
  <2>4. pstatus' = "RUNNING" /\ host' = "running"
    BY <1>2, <1>3, <2>3 DEF player_start, host_start
  <2>5. QED
    BY <1>1, <2>1, <2>4 DEF HostInv, StatusFirst, HostStatus
<1>4. ASSUME player_pause \/ player_resume \/ player_stop
      PROVE  HubFirst' /\ QueueFirst' /\ ~Pending' /\ pstatus # "PREPARED"
  <2>1. PICK c \in {"PAUSE", "RESUME", "STOP"} : Take(c)
    BY <1>4 DEF player_pause, player_resume, player_stop
  <2>2. c \notin {"START", "SEEK"}
    OBVIOUS
  <2>3. HubFirst' /\ QueueFirst' /\ ~Pending /\ ~Pending'
    BY <1>1, <2>1, <2>2, TakeOrder DEF HostInv
  <2>4. QED
    BY <2>3 DEF HostInv, StatusFirst
<1>5. CASE player_pause
  <2>1. \/ pstatus' = "RUNNING" /\ host' = "running"
        \/ pstatus' = "PAUSED" /\ host' = "paused"
    BY <1>2, <1>4, <1>5 DEF player_pause, Resume, host_resume, host_pause
  <2>2. QED
    BY <1>1, <1>4, <1>5, <2>1 DEF HostInv, StatusFirst, HostStatus
<1>6. CASE player_resume
  <2>1. \/ pstatus' = "RUNNING" /\ host' = "running"
        \/ pstatus' = pstatus /\ host' = host
    BY <1>2, <1>4, <1>6 DEF player_resume, Resume, host_resume
  <2>2. QED
    BY <1>1, <1>2, <1>4, <1>6, <2>1 DEF HostInv, StatusFirst, HostStatus
<1>7. CASE player_stop
  <2>1. pstatus' = "STOP" /\ host' = host
    BY <1>7 DEF player_stop
  <2>2. QED
    BY <1>1, <1>2, <1>4, <1>7, <2>1 DEF HostInv, StatusFirst, HostStatus
<1>8. QED
  BY <1>3, <1>5, <1>6, <1>7

\* A step that moves the loop and leaves the queues alone.
LEMMA QueuesStay ==
  ASSUME HubFirst, QueueFirst, hub' = hub, queue' = queue
  PROVE  HubFirst' /\ QueueFirst' /\ (Pending' <=> Pending)
  BY DEF HubFirst, QueueFirst, Pending, InHub, InQueue

(* A seek.                                                                  *)
LEMMA SeekHost ==
  ASSUME TypeOK, HostInv, ThreadThere, Untroubled, player_seekto
  PROVE  HostInv'
<1> USE DEF Between, Seeking, Leaving
<1>1. CASE seek_enter
  <2>1. Take("SEEK") /\ hub' = hub /\ pstatus' = "SEEK_ENTER" /\ ctl' \in {"seek_flag", "seek_stop"}
    BY <1>1 DEF seek_enter
  <2>2. HubFirst' /\ QueueFirst'
    BY <2>1, TakeOrder DEF HostInv
  <2>3. StatusFirst' /\ HostStatus'
    BY <2>1 DEF StatusFirst, HostStatus
  <2>4. QED
    BY <2>2, <2>3 DEF HostInv
<1>2. CASE seek_exit
  <2>1. /\ hub' = hub /\ queue' = queue /\ ctl' = "idle" /\ host = "ready"
        /\ \/ queue # <<>> /\ Head(queue) = "SEEK" /\ pstatus' = "SEEK_EXIT" /\ host' = "ready"
           \/ pstatus' = "RUNNING" /\ host' = "running"
    BY <1>2 DEF seek_exit, Move, host_start, HostInv, HostStatus
  <2>2. HubFirst' /\ QueueFirst'
    BY <2>1, QueuesStay DEF HostInv
  <2>3. StatusFirst' /\ HostStatus'
    BY <2>1 DEF StatusFirst, HostStatus
  <2>4. QED
    BY <2>2, <2>3 DEF HostInv
<1>3. CASE seek_fail
  <2>1. ctl \in {"seek_fail", "seek_failed"}
    BY <1>3 DEF seek_fail, resume_io_thread, Move
  <2>2. QED
    BY <2>1 DEF ThreadThere
<1>4. ASSUME seek_pause \/ seek_stop \/ seek_demux \/ seek_init \/ seek_check \/ seek_restart
      PROVE  /\ hub' = hub /\ queue' = queue /\ pstatus' = pstatus
             /\ ctl \in Seeking /\ ctl' \in Seeking
             /\ ctl' \in {"seek_check", "seek_start", "seek_started", "seek_resume", "seek_exit"} =>
                  host' = "ready"
  <2>1. CASE seek_pause
    BY <2>1 DEF seek_pause, pause_io_thread, pause_wait, Move, playervars
  <2>2. CASE seek_stop
    BY <2>2 DEF seek_stop, host_stop, Move
  <2>3. CASE seek_demux
    BY <2>3 DEF seek_demux, playervars, Untroubled
  <2>4. CASE seek_init
    BY <2>4 DEF seek_init, host_init, Move
  <2>5. CASE seek_check
    BY <2>5 DEF seek_check, Move, playervars, HostInv, HostStatus
  <2>6. CASE seek_restart
    BY <2>6 DEF seek_restart, start_io_thread, start_io_thread_end, resume_io_thread, Move, playervars,
       HostInv, HostStatus
  <2>7. QED
    BY <1>4, <2>1, <2>2, <2>3, <2>4, <2>5, <2>6
<1>5. CASE seek_pause \/ seek_stop \/ seek_demux \/ seek_init \/ seek_check \/ seek_restart
  <2>1. HubFirst' /\ QueueFirst' /\ (Pending' <=> Pending)
    BY <1>4, <1>5, QueuesStay DEF HostInv
  <2>2. StatusFirst' /\ HostStatus'
    BY <1>4, <1>5, <2>1 DEF HostInv, StatusFirst, HostStatus
  <2>3. QED
    BY <2>1, <2>2 DEF HostInv
<1>6. QED
  BY <1>1, <1>2, <1>3, <1>5 DEF player_seekto

(* What the loop does between events and on its way out.                    *)
LEMMA BetweenHost ==
  ASSUME TypeOK, HostInv, ThreadThere, Untroubled, Prompt,
         \/ drained \/ player_update_state \/ player_dec_reset
         \/ player_buffering_check \/ play_end \/ quit_loop
  PROVE  HostInv'
<1> USE DEF Between, Seeking, Leaving
<1>1. CASE drained
  <2>1. /\ queue = <<>> /\ pstatus # "PREPARED" /\ ctl = "idle" /\ ctl' \in {"quit", "update"}
        /\ hub' = hub /\ queue' = queue /\ pstatus' = pstatus /\ host' = host
    BY <1>1 DEF drained, playervars
  <2>2. ~InHub
    BY <1>1 DEF drained, InHub
  <2>3. ~Pending
    BY <2>1, <2>2 DEF Pending, InQueue
  <2>4. HubFirst' /\ QueueFirst' /\ ~Pending'
    BY <2>1, <2>3, QueuesStay DEF HostInv
  <2>5. pstatus # "SEEK_EXIT"
    BY <2>1 DEF HostInv, HostStatus
  <2>6. StatusFirst' /\ HostStatus'
    BY <2>1, <2>4, <2>5 DEF HostInv, StatusFirst, HostStatus
  <2>7. QED
    BY <2>4, <2>6 DEF HostInv
<1>2. CASE player_update_state
  <2>1. /\ ctl = "update" /\ ctl' = "buffering"
        /\ hub' = hub /\ queue' = queue /\ pstatus' = pstatus /\ host' = host
    BY <1>2 DEF player_update_state, playervars, Untroubled
  <2>2. HubFirst' /\ QueueFirst' /\ (Pending' <=> Pending)
    BY <2>1, QueuesStay DEF HostInv
  <2>3. StatusFirst' /\ HostStatus'
    BY <2>1, <2>2 DEF HostInv, StatusFirst, HostStatus
  <2>4. QED
    BY <2>2, <2>3 DEF HostInv
<1>3. CASE player_dec_reset
  <2>1. ctl \in {"reset_flag", "reset_spin", "reset_stop", "reset_init", "reset_resume", "reset_start"}
    BY <1>3 DEF player_dec_reset, pause_io_thread, pause_wait, host_stop, host_init, resume_io_thread,
       Move
  <2>2. QED
    BY <2>1 DEF ThreadThere
<1>4. CASE player_buffering_check
  <2>1. ctl = "buffering" /\ ctl' = "eof" /\ hub' = hub /\ queue' = queue
    BY <1>4 DEF player_buffering_check, Move
  <2>2. HubFirst' /\ QueueFirst' /\ (Pending' <=> Pending)
    BY <2>1, QueuesStay DEF HostInv
  <2>3. ~Pending /\ pstatus # "PREPARED" /\ pstatus # "SEEK_EXIT"
    BY <2>1 DEF HostInv, StatusFirst, HostStatus
  <2>4. /\ pstatus = "RUNNING" => host = "running"
        /\ pstatus \in {"PAUSED", "BUFFERING"} => host = "paused"
        /\ pstatus = "STOP" => host \in {"running", "paused"}
        /\ pstatus \in {"RUNNING", "PAUSED", "BUFFERING", "STOP"}
    BY <2>1, <2>3 DEF HostInv, HostStatus
  <2>5. \/ pstatus' = pstatus /\ host' = host
        \/ pstatus' = "BUFFERING" /\ host' = "paused"
        \/ pstatus' = "RUNNING" /\ host' = "running"
    BY <1>4, <2>4 DEF player_buffering_check, Resume, host_pause, host_resume
  <2>6. StatusFirst' /\ HostStatus'
    BY <2>1, <2>2, <2>3, <2>4, <2>5 DEF StatusFirst, HostStatus
  <2>7. QED
    BY <2>2, <2>6 DEF HostInv
<1>5. CASE play_end
  <2>1. /\ ctl = "eof" /\ ctl' \in {"idle", "quit"} /\ hub' = hub /\ pstatus' = pstatus /\ host' = host
        /\ queue' = queue \/ queue' = Append(queue, "SEEK")
    BY <1>5 DEF play_end
  <2>2. HubFirst' /\ QueueFirst' /\ (Pending' <=> Pending)
    BY <2>1, QueuesStay, SeekOrder DEF HostInv
  <2>3. pstatus # "SEEK_EXIT" /\ ~Pending
    BY <2>1 DEF HostInv, HostStatus, StatusFirst
  <2>4. StatusFirst' /\ HostStatus'
    BY <2>1, <2>2, <2>3 DEF HostInv, StatusFirst, HostStatus
  <2>5. QED
    BY <2>2, <2>4 DEF HostInv
<1>6. CASE quit_loop
  <2>1. /\ ctl \in Leaving /\ ctl' \in Leaving /\ hub' = hub /\ queue' = queue
        /\ pstatus' = pstatus \/ pstatus' = "EXIT"
    BY <1>6 DEF quit_loop, stop_io_thread, join_io_thread, host_stop, Move, playervars
  <2>2. HubFirst' /\ QueueFirst' /\ (Pending' <=> Pending)
    BY <2>1, QueuesStay DEF HostInv
  <2>3. StatusFirst' /\ HostStatus'
    BY <2>1, <2>2 DEF HostInv, StatusFirst, HostStatus
  <2>4. QED
    BY <2>2, <2>3 DEF HostInv
<1>7. QED
  BY <1>1, <1>2, <1>3, <1>4, <1>5, <1>6

LEMMA HostKeeps ==
  ASSUME TypeOK, HostInv, ThreadThere, Untroubled, Prompt, [Next]_vars
  PROVE  HostInv'
<1>1. ASSUME NEW t \in IoThread, io_loop(t)
      PROVE  HostInv'
  <2>1. ctl' = ctl /\ UNCHANGED playervars
    BY <1>1, TypeParts, IoStepTypes DEF io_loop
  <2>2. QED
    BY <2>1 DEF HostInv, HubFirst, QueueFirst, StatusFirst, HostStatus, Pending, InHub, InQueue, playervars
<1>2. CASE UNCHANGED vars
  BY <1>2 DEF HostInv, HubFirst, QueueFirst, StatusFirst, HostStatus, Pending, InHub, InQueue, vars, iovars, playervars
<1>3. CASE event_handle_loop
  BY <1>3, HandlerHost, SeekHost, BetweenHost DEF event_handle_loop
<1>4. QED
  BY <1>1, <1>2, <1>3, SendHost DEF Next

(* HostMatches (player_start, _pause, _resume, _seekto, _buffering_check):  *)
(* between events the host does what the status tells the application, for  *)
(* any number of commands in any order.                                     *)
THEOREM PlayerHostMatches == ASSUME Prompt PROVE Spec => []HostMatches
<1>1. TypeOK /\ (Untroubled => ThreadThere) /\ (Untroubled => HostInv) /\ [Next]_vars
        => (Untroubled => HostInv)'
  BY HostKeeps, Staying
<1>2. Spec => [](TypeOK /\ (Untroubled => ThreadThere))
  <2>1. Spec => [](TypeOK /\ IInv /\ (Untroubled => ThreadThere))
    BY There
  <2>2. QED
    BY <2>1, PTL
<1>3. (Untroubled => HostInv) => HostMatches
  BY DEF HostInv, HostStatus, HostMatches, AtRest, Between
<1>4. QED
  BY <1>1, <1>2, <1>3, InitHost, PTL DEF Spec
=============================================================================
