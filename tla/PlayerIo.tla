------------------------------ MODULE PlayerIo ------------------------------
(***************************************************************************)
(* dtplayer_io.c: the thread that moves packets from the demuxer to the     *)
(* host, and the calls with which the player's event loop starts, pauses,   *)
(* resumes and stops it.  The two sides share io_loop.status and            *)
(* io_loop.flag without a lock, so every access is a step of its own.       *)
(*                                                                          *)
(* ctl is the program counter of the event loop: the calls below are        *)
(* written from one value of it to the next, and Player composes them into  *)
(* the handlers that make them.                                             *)
(***************************************************************************)
EXTENDS Integers, FiniteSets

CONSTANTS
  IoThread,   \* the IO threads there is room for; one exists at a time, or should
  Packet,     \* kinds of packets the file has
  KeyFrame,   \* those that are a key frame of the video
  NoPacket,   \* pkt_valid == 0
  Prompt      \* TRUE: the timing of the 100 us sleeps is never exceeded

(* Prompt names the timing the code counts on and does not enforce.  With   *)
(* it an IO thread has gone once around its loop in the time the event loop *)
(* takes to stop and rebuild the host, the event loop is not held up for    *)
(* 100 us between two adjacent statements, and the transport thread has     *)
(* delivered the first START by the time a seek has been handled.           *)
ASSUME PlayerIoAssumption ==
  /\ KeyFrame \subseteq Packet
  /\ NoPacket \notin Packet
  /\ Prompt \in BOOLEAN

VARIABLES
  status,     \* io_loop.status
  flag,       \* io_loop.flag
  io,         \* where each IO thread is in player_io_thread
  pkt,        \* the packet each IO thread holds
  tid,        \* io_loop.tid: the thread created last
  eof_flag,   \* ctrl_info.eof_flag
  wait_key,   \* ctrl_info.ctrl_wait_key_frame
  ctl,        \* where the event loop is
  stale,      \* history: IO threads whose packet was read before the last reposition
  fresh,      \* history: the host was rebuilt and has received no packet yet
  rested      \* history: IO threads that have slept while paused

iovars == <<status, flag, io, pkt, tid, eof_flag, wait_key, ctl, stale, fresh, rested>>

IoPlaces == {"none", "top", "mark", "check", "gate", "read", "eof", "write", "exited"}

Alive == {t \in IoThread : io[t] \notin {"none", "exited"}}

IoGoto(t, place) == io' = [io EXCEPT ![t] = place]

Drop(t) == pkt' = [pkt EXCEPT ![t] = NoPacket] /\ stale' = stale \ {t}

-----------------------------------------------------------------------------
(* player_io_thread                                                         *)

io_top(t) ==
  /\ io[t] = "top"
  /\ IoGoto(t, IF flag = "PAUSE" THEN "mark" ELSE "check")
  /\ UNCHANGED <<status, flag, pkt, tid, eof_flag, wait_key, ctl, stale, fresh, rested>>

io_mark(t) ==
  /\ io[t] = "mark"
  /\ status' = "PAUSED"
  /\ IoGoto(t, "check")
  /\ UNCHANGED <<flag, pkt, tid, eof_flag, wait_key, ctl, stale, fresh, rested>>

io_check(t) ==
  /\ io[t] = "check"
  /\ IF status = "QUIT"
     THEN IoGoto(t, "exited") /\ Drop(t)     \* a packet it held is leaked
     ELSE IoGoto(t, "gate") /\ UNCHANGED <<pkt, stale>>
  /\ UNCHANGED <<status, flag, tid, eof_flag, wait_key, ctl, fresh, rested>>

(* Mutant of io_gate: a paused thread keeps its packet.                     *)
io_gate_keeps_packet(t) ==
  /\ io[t] = "gate"
  /\ IF status = "PAUSED"
     THEN IoGoto(t, "top") /\ rested' = rested \cup {t}
     ELSE /\ IoGoto(t, IF pkt[t] = NoPacket THEN "read" ELSE "write")
          /\ UNCHANGED rested
  /\ UNCHANGED <<status, flag, pkt, tid, eof_flag, wait_key, ctl, stale, fresh>>

(* "when pause read thread, we need skip currnet pkt"                       *)
io_gate(t) ==
  /\ io[t] = "gate"
  /\ IF status = "PAUSED"
     THEN IoGoto(t, "top") /\ Drop(t) /\ rested' = rested \cup {t}
     ELSE /\ IoGoto(t, IF pkt[t] = NoPacket THEN "read" ELSE "write")
          /\ UNCHANGED <<pkt, stale, rested>>
  /\ UNCHANGED <<status, flag, tid, eof_flag, wait_key, ctl, fresh>>

(* player_read_frame returned p; while a key frame is awaited all else is   *)
(* dropped.                                                                 *)
io_read_frame(t, p) ==
  /\ io[t] = "read"
  /\ IF wait_key /\ p \notin KeyFrame
     THEN IoGoto(t, "top") /\ Drop(t) /\ UNCHANGED wait_key
     ELSE /\ IoGoto(t, "write")
          /\ pkt' = [pkt EXCEPT ![t] = p]
          /\ wait_key' = FALSE
          /\ UNCHANGED stale
  /\ UNCHANGED <<status, flag, tid, eof_flag, ctl, fresh, rested>>

io_read_error(t) ==
  /\ io[t] = "read"
  /\ IoGoto(t, "top") /\ Drop(t)
  /\ UNCHANGED <<status, flag, tid, eof_flag, wait_key, ctl, fresh, rested>>

io_read_eof(t) ==
  /\ io[t] = "read"
  /\ status' = "QUIT"
  /\ IoGoto(t, "eof") /\ Drop(t)
  /\ UNCHANGED <<flag, tid, eof_flag, wait_key, ctl, fresh, rested>>

(* The rest of the EOF branch, with its sleep.                              *)
io_eof(t) ==
  /\ io[t] = "eof"
  /\ Prompt => ctl # "seek_flag"
  /\ eof_flag' = TRUE
  /\ IoGoto(t, "top")
  /\ UNCHANGED <<status, flag, pkt, tid, wait_key, ctl, stale, fresh, rested>>

(* player_write_frame took the packet, or its queue is full.                *)
io_write_done(t) ==
  /\ io[t] = "write"
  /\ fresh' = FALSE
  /\ IoGoto(t, "top") /\ Drop(t)
  /\ UNCHANGED <<status, flag, tid, eof_flag, wait_key, ctl, rested>>

io_write_full(t) ==
  /\ io[t] = "write"
  /\ IoGoto(t, "top")
  /\ UNCHANGED <<status, flag, pkt, tid, eof_flag, wait_key, ctl, stale, fresh, rested>>

player_io_thread(t) ==
  \/ io_top(t) \/ io_mark(t) \/ io_check(t) \/ io_gate(t)
  \/ \E p \in Packet : io_read_frame(t, p)
  \/ io_read_error(t) \/ io_read_eof(t) \/ io_eof(t)
  \/ io_write_done(t) \/ io_write_full(t)

-----------------------------------------------------------------------------
(* The calls of the event loop.  Each is at ctl = from and goes on at to.   *)

Move(from, to) == ctl = from /\ ctl' = to

io_thread_running == status # "QUIT"

(* pause_io_thread: raise the flag, spin until the thread says PAUSED.      *)
pause_io_thread(from, to) ==
  /\ Move(from, to)
  /\ flag' = "PAUSE"
  /\ rested' = {}
  /\ UNCHANGED <<status, io, pkt, tid, eof_flag, wait_key, stale, fresh>>

(* Mutant of pause_wait: it goes on without the answer.                     *)
pause_wait_impatient(from, to) ==
  /\ Move(from, to)
  /\ flag' = "NULL"
  /\ UNCHANGED <<status, io, pkt, tid, eof_flag, wait_key, stale, fresh, rested>>

pause_wait(from, to) ==
  /\ Move(from, to)
  /\ status = "PAUSED"
  /\ flag' = "NULL"
  /\ UNCHANGED <<status, io, pkt, tid, eof_flag, wait_key, stale, fresh, rested>>

(* The thread that was paused has slept and is not about to pause again;    *)
(* the one that met EOF is gone.                                            *)
Settled ==
  \A t \in Alive : io_thread_running /\ t \in rested /\ io[t] # "mark"

resume_io_thread(from, to) ==
  /\ Move(from, to)
  /\ Prompt => Settled
  /\ flag' = "NULL"
  /\ status' = "RUNNING"
  /\ rested' = {}
  /\ UNCHANGED <<io, pkt, tid, eof_flag, wait_key, stale, fresh>>

(* start_io_thread: the new thread may run before status is RUNNING.        *)
start_io_thread(from, to) ==
  /\ Move(from, to)
  /\ Prompt => Settled
  /\ status' = "PAUSED"
  /\ flag' = "NULL"
  /\ \E t \in IoThread \ Alive : IoGoto(t, "top") /\ tid' = t
  /\ UNCHANGED <<pkt, eof_flag, wait_key, stale, fresh, rested>>

start_io_thread_end(from, to) ==
  /\ Move(from, to)
  /\ status' = "RUNNING"
  /\ UNCHANGED <<flag, io, pkt, tid, eof_flag, wait_key, stale, fresh, rested>>

(* Mutant of stop_io_thread: the status is not set to QUIT.                 *)
stop_io_thread_unasked(from, to) ==
  /\ Move(from, to)
  /\ flag' = "NULL"
  /\ UNCHANGED <<status, io, pkt, tid, eof_flag, wait_key, stale, fresh, rested>>

(* stop_io_thread: ask the thread to quit, join it.                         *)
stop_io_thread(from, to) ==
  /\ Move(from, to)
  /\ flag' = "NULL"
  /\ status' = "QUIT"
  /\ UNCHANGED <<io, pkt, tid, eof_flag, wait_key, stale, fresh, rested>>

join_io_thread(from, to) ==
  /\ Move(from, to)
  /\ tid \notin Alive
  /\ UNCHANGED <<status, flag, io, pkt, tid, eof_flag, wait_key, stale, fresh, rested>>

IoInit ==
  /\ status = "RUNNING"
  /\ flag = "NULL"
  /\ tid \in IoThread
  /\ io = [t \in IoThread |-> IF t = tid THEN "top" ELSE "none"]
  /\ pkt = [t \in IoThread |-> NoPacket]
  /\ eof_flag = FALSE
  /\ wait_key = FALSE
  /\ ctl = "idle"
  /\ stale = {}
  /\ fresh = FALSE
  /\ rested = {}
=============================================================================
