------------------------------- MODULE Player -------------------------------
(***************************************************************************)
(* dtplayer.c: the event loop of the player with its handlers, the state    *)
(* update and the buffering check it makes between events, and the          *)
(* application that sends it commands through dtplayer_api.c.               *)
(*                                                                          *)
(* The host (audio, video, subtitle and packet queues) is one value: it is  *)
(* built, started, paused, resumed and torn down as a whole.  Commands sent *)
(* with dt_send_event wait in hub for the transport thread, a seek goes     *)
(* straight into the queue of the player's service; EventUsers has the      *)
(* details of both ways.  The model starts when player_prepare has returned *)
(* and the first START is on its way.                                       *)
(***************************************************************************)
EXTENDS PlayerIo, Sequences

CONSTANTS
  Network,   \* the file is read from a network: buffering is checked
  Settings   \* what the source and the application may be like:
             \*   commands   bound: commands the application sends after the first START
             \*   stop_last  it sends nothing after a STOP (dtplayer_stop)
             \*   live       the stream is live: a decoder that hangs is reset
             \*   loop       loop_mode
             \*   refuses    the demuxer may refuse a seek

ASSUME PlayerAssumption ==
  /\ Network \in BOOLEAN
  /\ Settings \subseteq [commands : Nat, stop_last : BOOLEAN, live : BOOLEAN, loop : BOOLEAN,
                         refuses : BOOLEAN]

Command == {"START", "PAUSE", "RESUME", "STOP", "SEEK"}

VARIABLES
  setting,   \* which of the settings this behaviour has; it stays
  pstatus,   \* state.cur_status
  host,      \* the host: "none" (freed), "ready", "running" or "paused"
  hub,       \* commands not yet transported
  queue,     \* commands in the player's service
  sent,      \* how many commands were sent after the first START
  stopping   \* history: a STOP has been sent

playervars == <<pstatus, host, hub, queue, sent, stopping>>
vars == <<setting, iovars, playervars>>

PlayerStatus ==
  {"PREPARED", "RUNNING", "BUFFERING", "PAUSED", "SEEK_ENTER", "SEEK_EXIT", "STOP", "EXIT"}

CtlPlaces ==
  {"idle", "seek_flag", "seek_spin", "seek_stop", "seek_demux", "seek_init",
   "seek_check", "seek_start", "seek_started", "seek_resume", "seek_exit", "seek_fail", "seek_failed",
   "update", "reset_flag", "reset_spin", "reset_stop", "reset_init", "reset_resume", "reset_start",
   "buffering", "eof", "quit", "quit_join", "quit_stop", "quit_free", "exited"}

Init ==
  /\ IoInit
  /\ setting \in Settings
  /\ pstatus = "PREPARED"
  /\ host = "ready"
  /\ hub = <<"START">>
  /\ queue = <<>>
  /\ sent = 0
  /\ stopping = FALSE

-----------------------------------------------------------------------------
(* dthost.c.  Starting a host that is not ready, pausing one that is not    *)
(* running and resuming one that is not paused change nothing.              *)

host_start == host' = IF host = "ready" THEN "running" ELSE host
host_pause == host' = IF host = "running" THEN "paused" ELSE host
host_resume == host' = IF host = "paused" THEN "running" ELSE host

(* host_stop joins the host's threads and frees it.                         *)
host_stop(from, to) ==
  /\ Move(from, to)
  /\ host' = "none"
  /\ fresh' = FALSE
  /\ UNCHANGED <<status, flag, io, pkt, tid, eof_flag, wait_key, stale, rested>>
  /\ UNCHANGED <<pstatus, hub, queue, sent, stopping>>

(* host_init, then the order to wait for a key frame.                       *)
host_init(from, to) ==
  /\ Move(from, to)
  /\ host' = "ready"
  /\ fresh' = TRUE
  /\ wait_key' = TRUE
  /\ UNCHANGED <<status, flag, io, pkt, tid, eof_flag, stale, rested>>
  /\ UNCHANGED <<pstatus, hub, queue, sent, stopping>>

-----------------------------------------------------------------------------
(* The application and the transport thread                                 *)

MaySend ==
  /\ sent < setting.commands
  /\ setting.stop_last => ~stopping
  /\ ctl # "exited"

Count(c) ==
  /\ sent' = sent + 1
  /\ stopping' = (stopping \/ c = "STOP")

(* dtplayer_pause, dtplayer_resume, dtplayer_stop                           *)
send_event(c) ==
  /\ MaySend
  /\ c \in {"PAUSE", "RESUME", "STOP"}
  /\ Count(c)
  /\ hub' = Append(hub, c)
  /\ UNCHANGED <<iovars, pstatus, host, queue>>

(* dtplayer_seekto                                                          *)
dtplayer_seekto ==
  /\ MaySend
  /\ Count("SEEK")
  /\ queue' = Append(queue, "SEEK")
  /\ UNCHANGED <<iovars, pstatus, host, hub>>

transport ==
  /\ hub # <<>>
  /\ queue' = Append(queue, Head(hub))
  /\ hub' = Tail(hub)
  /\ UNCHANGED <<iovars, pstatus, host, sent, stopping>>

-----------------------------------------------------------------------------
(* player_handle_event: the handlers.  Only a seek meets the IO thread.     *)

Take(c) == ctl = "idle" /\ queue # <<>> /\ Head(queue) = c /\ queue' = Tail(queue)

player_start ==
  /\ Take("START")
  /\ host_start
  /\ pstatus' = "RUNNING"
  /\ UNCHANGED <<iovars, hub, sent, stopping>>

Resume ==
  /\ host_resume
  /\ pstatus' = "RUNNING"

(* player_pause toggles.                                                    *)
player_pause ==
  /\ Take("PAUSE")
  /\ IF pstatus = "PAUSED" THEN Resume ELSE host_pause /\ pstatus' = "PAUSED"
  /\ UNCHANGED <<iovars, hub, sent, stopping>>

(* Mutant of player_resume: the host stays paused.                          *)
player_resume_forgets_host ==
  /\ Take("RESUME")
  /\ IF pstatus = "PAUSED" THEN pstatus' = "RUNNING" ELSE UNCHANGED pstatus
  /\ UNCHANGED <<iovars, host, hub, sent, stopping>>

player_resume ==
  /\ Take("RESUME")
  /\ IF pstatus = "PAUSED" THEN Resume ELSE UNCHANGED <<host, pstatus>>
  /\ UNCHANGED <<iovars, hub, sent, stopping>>

(* player_stop only leaves a mark: the loop quits when the queue is empty   *)
(* and the mark still there.                                                *)
player_stop ==
  /\ Take("STOP")
  /\ pstatus' = "STOP"
  /\ UNCHANGED <<iovars, host, hub, sent, stopping>>

-----------------------------------------------------------------------------
(* player_seekto                                                            *)

seek_enter ==
  /\ Take("SEEK")
  /\ pstatus' = "SEEK_ENTER"
  /\ ctl' = IF io_thread_running THEN "seek_flag" ELSE "seek_stop"
  /\ UNCHANGED <<status, flag, io, pkt, tid, eof_flag, wait_key, stale, fresh, rested>>
  /\ UNCHANGED <<host, hub, sent, stopping>>

seek_pause ==
  \/ pause_io_thread("seek_flag", "seek_spin") /\ UNCHANGED playervars
  \/ pause_wait("seek_spin", "seek_stop") /\ UNCHANGED playervars

seek_stop == host_stop("seek_stop", "seek_demux")

(* dtdemuxer_seekto moves the demuxer: what was read before is stale.       *)
seek_demux ==
  /\ ctl = "seek_demux"
  /\ \/ ctl' = "seek_init" /\ stale' = {t \in IoThread : pkt[t] # NoPacket \/ io[t] = "read"}
     \/ setting.refuses /\ ctl' = "seek_fail" /\ UNCHANGED stale
  /\ UNCHANGED <<status, flag, io, pkt, tid, eof_flag, wait_key, fresh, rested>>
  /\ UNCHANGED playervars

seek_init == host_init("seek_init", "seek_check")

(* Mutant of seek_check: a second thread is started beside the first.       *)
seek_check_always_starts ==
  /\ Move("seek_check", "seek_start")
  /\ UNCHANGED <<status, flag, io, pkt, tid, eof_flag, wait_key, stale, fresh, rested>>
  /\ UNCHANGED playervars

(* "maybe io thread already quit"                                           *)
seek_check ==
  /\ Move("seek_check", IF io_thread_running THEN "seek_resume" ELSE "seek_start")
  /\ UNCHANGED <<status, flag, io, pkt, tid, eof_flag, wait_key, stale, fresh, rested>>
  /\ UNCHANGED playervars

seek_restart ==
  \/ resume_io_thread("seek_resume", "seek_exit") /\ UNCHANGED playervars
  \/ start_io_thread("seek_start", "seek_started") /\ UNCHANGED playervars
  \/ start_io_thread_end("seek_started", "seek_exit") /\ UNCHANGED playervars

(* Start again, unless another seek is next.  The state update made here    *)
(* finds a host that has decoded nothing yet and never resets the decoder.  *)
seek_exit ==
  /\ Move("seek_exit", "idle")
  /\ IF queue # <<>> /\ Head(queue) = "SEEK"
     THEN pstatus' = "SEEK_EXIT" /\ UNCHANGED host
     ELSE pstatus' = "RUNNING" /\ host_start
  /\ UNCHANGED <<status, flag, io, pkt, tid, eof_flag, wait_key, stale, fresh, rested>>
  /\ UNCHANGED <<hub, queue, sent, stopping>>

(* "seek fail, continue running": the host has been freed by then.          *)
seek_fail ==
  \/ resume_io_thread("seek_fail", "seek_failed") /\ UNCHANGED playervars
  \/ /\ Move("seek_failed", "idle")
     /\ pstatus' = "RUNNING"
     /\ IF io_thread_running THEN host_resume ELSE UNCHANGED host
     /\ UNCHANGED <<status, flag, io, pkt, tid, eof_flag, wait_key, stale, fresh, rested>>
     /\ UNCHANGED <<hub, queue, sent, stopping>>

player_seekto ==
  \/ seek_enter \/ seek_pause \/ seek_stop \/ seek_demux \/ seek_init
  \/ seek_check \/ seek_restart \/ seek_exit \/ seek_fail

-----------------------------------------------------------------------------
(* event_handle_loop: between events                                        *)

(* Nothing is left to handle.  Before the first START nothing else is done, *)
(* and a START that a seek has overtaken arrives while the seek is handled. *)
drained ==
  /\ ctl = "idle"
  /\ queue = <<>>
  /\ pstatus # "PREPARED"
  /\ Prompt => "START" \notin {hub[k] : k \in DOMAIN hub}
  /\ ctl' = IF pstatus = "STOP" THEN "quit" ELSE "update"
  /\ UNCHANGED <<status, flag, io, pkt, tid, eof_flag, wait_key, stale, fresh, rested>>
  /\ UNCHANGED playervars

(* player_update_state: a live stream whose decoder has decoded something   *)
(* and then nothing for too long gets player_dec_reset.                     *)
player_update_state ==
  /\ ctl = "update"
  /\ \/ ctl' = "buffering"
     \/ setting.live /\ host \in {"running", "paused"} /\ ctl' = "reset_flag"
  /\ UNCHANGED <<status, flag, io, pkt, tid, eof_flag, wait_key, stale, fresh, rested>>
  /\ UNCHANGED playervars

(* player_dec_reset pauses the IO thread without asking if it is running.   *)
player_dec_reset ==
  \/ pause_io_thread("reset_flag", "reset_spin") /\ UNCHANGED playervars
  \/ pause_wait("reset_spin", "reset_stop") /\ UNCHANGED playervars
  \/ host_stop("reset_stop", "reset_init")
  \/ host_init("reset_init", "reset_resume")
  \/ resume_io_thread("reset_resume", "reset_start") /\ UNCHANGED playervars
  \/ /\ Move("reset_start", "buffering")
     /\ host_start
     /\ UNCHANGED <<status, flag, io, pkt, tid, eof_flag, wait_key, stale, fresh, rested>>
     /\ UNCHANGED <<pstatus, hub, queue, sent, stopping>>

(* player_buffering_check: whatever the cache levels are, EOF overrules.    *)
player_buffering_check ==
  /\ Move("buffering", "eof")
  /\ \/ UNCHANGED <<pstatus, host>>
     \/ /\ Network /\ ~eof_flag /\ pstatus = "RUNNING"
        /\ host_pause
        /\ pstatus' = "BUFFERING"
     \/ /\ Network /\ pstatus = "BUFFERING"
        /\ Resume
  /\ UNCHANGED <<status, flag, io, pkt, tid, eof_flag, wait_key, stale, fresh, rested>>
  /\ UNCHANGED <<hub, queue, sent, stopping>>

(* At EOF, when everything has been rendered, the player ends or starts     *)
(* over with a seek it sends to itself.                                     *)
play_end ==
  /\ ctl = "eof"
  /\ \/ ctl' = "idle" /\ UNCHANGED queue
     \/ eof_flag /\ ~setting.loop /\ ctl' = "quit" /\ UNCHANGED queue
     \/ eof_flag /\ setting.loop /\ ctl' = "idle" /\ queue' = Append(queue, "SEEK")
  /\ UNCHANGED <<status, flag, io, pkt, tid, eof_flag, wait_key, stale, fresh, rested>>
  /\ UNCHANGED <<pstatus, host, hub, sent, stopping>>

quit_loop ==
  \/ stop_io_thread("quit", "quit_join") /\ UNCHANGED playervars
  \/ join_io_thread("quit_join", "quit_stop") /\ UNCHANGED playervars
  \/ host_stop("quit_stop", "quit_free")
  \/ /\ Move("quit_free", "exited")
     /\ pstatus' = "EXIT"
     /\ UNCHANGED <<status, flag, io, pkt, tid, eof_flag, wait_key, stale, fresh, rested>>
     /\ UNCHANGED <<host, hub, queue, sent, stopping>>

event_handle_loop ==
  \/ player_start \/ player_pause \/ player_resume \/ player_stop
  \/ player_seekto
  \/ drained \/ player_update_state \/ player_dec_reset
  \/ player_buffering_check \/ play_end \/ quit_loop

io_loop(t) == player_io_thread(t) /\ UNCHANGED playervars

Next ==
  /\ UNCHANGED setting
  /\ \/ \E c \in Command : send_event(c)
     \/ dtplayer_seekto
     \/ transport
     \/ event_handle_loop
     \/ \E t \in IoThread : io_loop(t)

Spec == Init /\ [][Next]_vars

(* The player's threads run; the application need not do anything.          *)
Fairness ==
  /\ WF_vars(transport /\ UNCHANGED setting)
  /\ WF_vars(event_handle_loop /\ UNCHANGED setting)
  /\ \A t \in IoThread : WF_vars(io_loop(t) /\ UNCHANGED setting)

FairSpec == Spec /\ Fairness

-----------------------------------------------------------------------------

TypeOK ==
  /\ setting \in Settings
  /\ status \in {"PAUSED", "RUNNING", "QUIT"}
  /\ flag \in {"NULL", "PAUSE"}
  /\ io \in [IoThread -> IoPlaces]
  /\ pkt \in [IoThread -> Packet \cup {NoPacket}]
  /\ tid \in IoThread
  /\ eof_flag \in BOOLEAN
  /\ wait_key \in BOOLEAN
  /\ ctl \in CtlPlaces
  /\ stale \subseteq IoThread
  /\ fresh \in BOOLEAN
  /\ rested \subseteq IoThread
  /\ pstatus \in PlayerStatus
  /\ host \in {"none", "ready", "running", "paused"}
  /\ hub \in Seq(Command)
  /\ queue \in Seq(Command)
  /\ sent \in 0 .. setting.commands
  /\ stopping \in BOOLEAN

Rebuilding == ctl \in {"seek_demux", "seek_init", "seek_check", "reset_init"}

Tearing == ctl \in {"seek_stop", "reset_stop", "quit_stop", "quit_free"}

(* player_seekto, player_dec_reset and the way out of the loop: while the   *)
(* host is torn down and rebuilt and the demuxer moves, no IO thread reads  *)
(* from the one or writes to the other.                                     *)
SeekAlone ==
  Rebuilding \/ Tearing => \A t \in IoThread : io[t] \notin {"read", "write"}

(* No decoder resets and no refused seeks: either leaves the IO thread      *)
(* paused, or running for a host that is not there (dtplayer.c:404, :470).  *)
Untroubled == ~setting.live /\ ~setting.refuses

(* Between events, when nothing of that kind can have happened.             *)
AtRest == Untroubled /\ ctl \in {"idle", "update", "buffering", "eof"}

(* player_seekto: there is never a second thread on the same demuxer; and   *)
(* between events the IO thread is not left paused, and a RUNNING status    *)
(* means that there is one.                                                 *)
OneReader == Cardinality(Alive) <= 1

IoMatches ==
  /\ OneReader
  /\ AtRest =>
       /\ status # "PAUSED"
       /\ status = "RUNNING" => Alive = {tid}

(* player_io_thread: what was read before a seek is not written to the host *)
(* that was built for what comes after it.                                  *)
NoStalePacket == \A t \in IoThread : io[t] = "write" => t \notin stale

(* ctrl_wait_key_frame: the first packet a rebuilt host receives is a key   *)
(* frame, whatever the IO thread held or was reading.                       *)
KeyFrameFirst == \A t \in IoThread : io[t] = "write" /\ fresh => pkt[t] \in KeyFrame

(* What is written to a rebuilt host was read after the seek, and begins    *)
(* with a key frame.                                                        *)
WritesBelong == NoStalePacket /\ KeyFrameFirst

(* player_start, _pause, _resume, _seekto, _buffering_check: between events *)
(* the host does what the status tells the application it does.             *)
HostMatches ==
  AtRest =>
    /\ pstatus = "RUNNING" => host = "running"
    /\ pstatus \in {"PAUSED", "BUFFERING"} => host = "paused"
    /\ pstatus = "SEEK_EXIT" => host = "ready" /\ Head(queue) = "SEEK"

(* dtplayer_stop: "need to wait until player stop ok".  A STOP that was     *)
(* sent ends the event loop.                                                *)
StopEnds == stopping ~> ctl = "exited"

(* It does when nothing is sent after it, the file does not start over and  *)
(* no decoder is reset: whatever was paused, buffered, sought or refused    *)
(* before, or comes out of the queues after it (player_stop, the drain of   *)
(* event_handle_loop, stop_io_thread).                                      *)
Final == setting.stop_last /\ ~setting.live /\ ~setting.loop
LastStopEnds == (stopping /\ Final) ~> ctl = "exited"

=============================================================================
