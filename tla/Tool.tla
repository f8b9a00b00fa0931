-------------------------------- MODULE Tool --------------------------------
(* dt_player.c: the command-line player.  Its main thread opens the window, *)
(* starts the player, and turns the window's events into the player's       *)
(* commands until the player says it has ended.  The player's own thread is *)
(* here with what it does to the window (it stops and builds the video      *)
(* device when it seeks and stops it at the end) and with how it ends: it   *)
(* releases its service, joins the thread that carries the commands, and    *)
(* calls update_cb.                                                         *)
(*                                                                          *)
(* get_event reads its event from an uninitialised record when there is     *)
(* none, so that an earlier one may act again; the user here may do         *)
(* anything at any time, which includes that.                               *)
EXTENDS SdlWindow, Integers, Sequences

CONSTANTS
  MaxEvents,  \* bound: the events the user causes
  LoopModes   \* the values of --loop

ASSUME ToolAssumption == MaxEvents \in Nat /\ LoopModes \subseteq BOOLEAN

VARIABLES
  tool,       \* where main is
  quit,       \* player.quit
  info,       \* what has_video says
  events,     \* the number of events so far
  player,     \* where the player's event loop is
  stopping,   \* its status is STOP
  loop_mode,  \* it begins again at the end of the file
  overwritten,\* history: a command took a STOP's place in the status
  queue,      \* the commands in its service
  hub,        \* the commands sent
  carried,    \* the one the transport thread has taken from the hub, if any
  transport   \* the thread: before it looks at exit_flag, after, or "gone"

toolVars == <<tool, quit, info, events>>
playerVars == <<player, stopping, loop_mode, overwritten>>
transportVars == <<hub, carried, transport>>
sentVars == <<queue, transportVars>>
vars == <<windowVars, toolVars, playerVars, sentVars>>

Init ==
  /\ WindowInit
  /\ tool = "setup" /\ quit = FALSE /\ info \in BOOLEAN /\ events = 0
  /\ player = "none" /\ stopping = FALSE /\ loop_mode \in LoopModes /\ overwritten = FALSE
  /\ queue = <<>> /\ hub = <<>> /\ carried = <<>> /\ transport = "check"

-----------------------------------------------------------------------------
(* main                                                                     *)

setup_gui ==
  /\ tool = "setup" /\ tool' = "start"
  /\ gui_init
  /\ UNCHANGED <<quit, info, events, playerVars, sentVars>>

\* SDL_Init fails.
setup_fails ==
  /\ tool = "setup" /\ tool' = "failed"
  /\ UNCHANGED <<windowVars, quit, info, events, playerVars, sentVars>>

\* dtplayer_start: the device is built in this thread, the rest is for the
\* event loop.
start ==
  /\ tool = "start" /\ tool' = "check"
  /\ player' = "loop" /\ hub' = <<"start">>
  /\ IF info THEN vo_init ELSE UNCHANGED windowVars
  /\ UNCHANGED <<quit, info, events, stopping, loop_mode, overwritten, queue, carried, transport>>

check_quit ==
  /\ tool = "check"
  /\ tool' = IF quit THEN "gui_stop" ELSE "event"
  /\ UNCHANGED <<windowVars, quit, info, events, playerVars, sentVars>>

no_event ==
  /\ tool = "event" /\ tool' = "check"
  /\ UNCHANGED <<windowVars, quit, info, events, playerVars, sentVars>>

\* The tool knows of the player's end only by update_cb; a command after the
\* service was freed goes to freed memory and is left out.
Event == tool = "event" /\ events < MaxEvents /\ events' = events + 1
Send(cmd) ==
  /\ player \notin {"exit", "gone"}
  /\ hub' = Append(hub, cmd)
  /\ UNCHANGED <<playerVars, queue, carried, transport>>

\* dt_send_event_sync: straight into the player's service, if it is there yet.
\* (Where the service is being released it waits for the lock, and is left out.)
Unlisted == {"unlisted", "release", "exit", "gone"}
SendSync(cmd) ==
  /\ player \notin {"release", "exit", "gone"}
  /\ queue' = IF player \in Unlisted THEN queue ELSE Append(queue, cmd)
  /\ UNCHANGED <<playerVars, transportVars>>

event_pause ==
  /\ Event /\ Send("pause") /\ tool' = "check"
  /\ UNCHANGED <<windowVars, quit, info>>

event_seek ==
  /\ Event /\ SendSync("seek") /\ tool' = "check"
  /\ UNCHANGED <<windowVars, quit, info>>

event_resize ==
  /\ Event /\ \E size \in Resizes : set_size(size)
  /\ tool' = "resize"
  /\ UNCHANGED <<quit, info, playerVars, sentVars>>

event_resize_end ==
  /\ tool = "resize" /\ tool' = "check" /\ set_size_end
  /\ UNCHANGED <<quit, info, events, playerVars, sentVars>>

event_stop ==
  /\ Event /\ Send("stop") /\ tool' = "join"
  /\ UNCHANGED <<windowVars, quit, info>>

\* dtplayer_stop waits for the event loop; QUIT_CHECK, which waits for quit
\* once at most, has nothing left to wait for.
stop_joined ==
  /\ tool = "join" /\ player = "gone" /\ tool' = "gui_stop"
  /\ UNCHANGED <<windowVars, quit, info, events, playerVars, sentVars>>

tool_ends ==
  /\ tool = "gui_stop" /\ tool' = "done" /\ gui_stop
  /\ UNCHANGED <<quit, info, events, playerVars, sentVars>>

-----------------------------------------------------------------------------
(* event_transport_loop: commands go from the hub to the player's service,  *)
(* under the lock that dt_service_release holds.                            *)

transport_check ==
  /\ transport = "check" /\ carried = <<>> /\ player # "none"
  /\ transport' = IF player = "release" THEN "gone" ELSE "get"
  /\ UNCHANGED <<hub, carried, queue>>

transport_get ==
  /\ transport = "get" /\ transport' = "check"
  /\ IF hub = <<>> THEN UNCHANGED <<hub, carried>>
     ELSE carried' = <<Head(hub)>> /\ hub' = Tail(hub)
  /\ UNCHANGED queue

transport_event ==
  /\ carried # <<>> /\ carried' = <<>>
  /\ player # "release"
  /\ queue' = IF player \in Unlisted THEN queue ELSE queue \o carried
  /\ UNCHANGED <<hub, transport>>

event_transport_loop ==
  /\ transport_check \/ transport_get \/ transport_event
  /\ UNCHANGED <<windowVars, toolVars, playerVars>>

-----------------------------------------------------------------------------
(* The player's event loop                                                  *)

SetVo(status) ==
  /\ vo_status' = status
  /\ UNCHANGED <<chosenVars, open, window_size, max_size, lock, renderer, texture, vf, vo_thread,
                 picture, overlapped>>

take_start ==
  /\ Head(queue) = "start" /\ UNCHANGED <<playerVars>>
  /\ IF vo_status = "IDLE" THEN SetVo("RUNNING") ELSE UNCHANGED windowVars

take_pause ==
  /\ Head(queue) = "pause"
  /\ stopping' = FALSE /\ overwritten' = (overwritten \/ stopping)
  /\ UNCHANGED <<player, loop_mode>>
  /\ CASE vo_status = "RUNNING" -> SetVo("PAUSE")
       [] vo_status = "PAUSE" -> SetVo("RUNNING")
       [] OTHER -> UNCHANGED windowVars

\* video_output_stop begins with EXIT for the thread.  The status becomes that
\* of a player that runs, whatever it was.
take_seek ==
  /\ Head(queue) = "seek" /\ player' = "seek_join" /\ SetVo("EXIT")
  /\ stopping' = FALSE /\ overwritten' = (overwritten \/ stopping)
  /\ UNCHANGED loop_mode

take_stop ==
  /\ Head(queue) = "stop" /\ stopping' = TRUE
  /\ UNCHANGED <<windowVars, player, loop_mode, overwritten>>

\* player_handle_event handles all there is before the status is looked at.
take_command ==
  /\ player = "loop" /\ queue # <<>>
  /\ queue' = Tail(queue)
  /\ take_start \/ take_pause \/ take_seek \/ take_stop
  /\ UNCHANGED <<transportVars, toolVars>>

no_command ==
  /\ player = "loop" /\ queue = <<>> /\ player' = "status"
  /\ UNCHANGED <<windowVars, toolVars, stopping, loop_mode, overwritten, sentVars>>

check_status ==
  /\ player = "status"
  /\ IF stopping THEN player' = "end_join" /\ SetVo("EXIT")
     ELSE player' = "loop" /\ UNCHANGED windowVars
  /\ UNCHANGED <<toolVars, stopping, loop_mode, overwritten, sentVars>>

\* At the end of the file a player that loops sends itself a seek.
end_of_file ==
  /\ player = "status" /\ ~stopping
  /\ \A s \in {hub, carried, queue} : \A i \in 1 .. Len(s) : s[i] # "start"
  /\ info => vo_status = "RUNNING"
  /\ IF loop_mode
     THEN player' = "loop" /\ queue' = Append(queue, "seek") /\ UNCHANGED windowVars
     ELSE player' = "end_join" /\ SetVo("EXIT") /\ UNCHANGED queue
  /\ UNCHANGED <<toolVars, stopping, loop_mode, overwritten, transportVars>>

\* mutant: the device is stopped without waiting for its thread
video_output_stop_no_join(here, there) ==
  /\ player = here /\ player' = there
  /\ IF info THEN vo_stop ELSE UNCHANGED windowVars
  /\ UNCHANGED <<toolVars, stopping, loop_mode, overwritten, sentVars>>

\* pthread_join, then wrapper->stop.
video_output_stop(here, there) ==
  /\ player = here /\ player' = there
  /\ vo_thread = "none"
  /\ IF info THEN vo_stop ELSE UNCHANGED windowVars
  /\ UNCHANGED <<toolVars, stopping, loop_mode, overwritten, sentVars>>

seek_rebuild ==
  /\ player = "seek_init" /\ player' = "seek_start"
  /\ IF info THEN vo_init ELSE UNCHANGED windowVars
  /\ UNCHANGED <<toolVars, stopping, loop_mode, overwritten, sentVars>>

\* With another seek waiting the new device is not started.
seek_start ==
  /\ player = "seek_start" /\ player' = "loop"
  /\ IF info /\ (queue = <<>> \/ Head(queue) # "seek")
     THEN SetVo("RUNNING") ELSE UNCHANGED windowVars
  /\ UNCHANGED <<toolVars, stopping, loop_mode, overwritten, sentVars>>

\* The service goes first, with the commands in it.
player_service_release ==
  /\ player = "remove" /\ player' = "unlisted"
  /\ queue' = <<>>
  /\ UNCHANGED <<windowVars, toolVars, stopping, loop_mode, overwritten, transportVars>>

\* dt_service_release takes the lock, tells the transport thread to exit and
\* joins it, with the lock still held.
dt_service_release ==
  /\ \/ player = "unlisted" /\ player' = "release"
     \/ player = "release" /\ transport = "gone" /\ player' = "exit"
  /\ UNCHANGED <<windowVars, toolVars, stopping, loop_mode, overwritten, sentVars>>

\* mutant: the tool only looks at the times
update_cb_only_times == UNCHANGED quit

\* update_cb with PLAYER_STATUS_EXIT, the last thing the player calls.
update_cb == quit' = TRUE

player_exit ==
  /\ player = "exit" /\ player' = "gone" /\ update_cb
  /\ UNCHANGED <<windowVars, tool, info, events, stopping, loop_mode, overwritten, sentVars>>

-----------------------------------------------------------------------------
Main ==
  \/ setup_gui \/ start \/ check_quit \/ no_event
  \/ event_resize_end \/ stop_joined \/ tool_ends
User == event_pause \/ event_seek \/ event_resize \/ event_stop
event_handle_loop ==
  \/ take_command \/ no_command \/ check_status
  \/ video_output_stop("seek_join", "seek_init") \/ seek_rebuild \/ seek_start
  \/ video_output_stop("end_join", "remove") \/ player_service_release
  \/ dt_service_release \/ player_exit
Video == video_output_thread /\ UNCHANGED <<toolVars, playerVars, sentVars>>

Next ==
  Main \/ setup_fails \/ User \/ event_transport_loop \/ event_handle_loop \/ end_of_file \/ Video

Spec == Init /\ [][Next]_vars

\* The threads run: the transport thread, the player's loop and the video
\* thread; the mutex is taken again and again by the video thread, and the
\* system lets the main thread in between.  The user and the end of the file
\* may never come.
FairSpec ==
  /\ Spec /\ WF_vars(event_transport_loop) /\ WF_vars(event_handle_loop) /\ WF_vars(Video)
  /\ SF_vars(Main)

-----------------------------------------------------------------------------
TypeOK ==
  /\ tool \in {"setup", "failed", "start", "check", "event", "resize", "join", "gui_stop", "done"}
  /\ player \in {"none", "loop", "status", "seek_join", "seek_init", "seek_start", "end_join",
                 "remove", "unlisted", "release", "exit", "gone"}
  /\ transport \in {"check", "get", "gone"}
  /\ vo_thread \in {"none", "top", "draw", "show"}
  /\ vo_status \in {"IDLE", "RUNNING", "PAUSE", "EXIT"}
  /\ lock \in {"free", "main", "video"}
  /\ {hub, carried, queue} \subseteq Seq({"start", "pause", "seek", "stop"})

(* Nothing of the video device uses the window once the tool has destroyed  *)
(* it, and nothing of the device is left: whether the tool ends by a key or *)
(* by the end of the file, update_cb's EXIT or dtplayer_stop's return comes *)
(* after the video thread has gone (dt_player.c:323-328, dtplayer.c:767).   *)
WindowOutlivesVideo ==
  /\ vo_thread \in {"draw", "show"} => open
  /\ tool = "done" => vo_thread = "none" /\ texture = "none" /\ ~renderer

(* Whatever the window's size and the picture's, and however they change,   *)
(* what is copied to the device has the device's format and exactly the     *)
(* size of the texture it goes to, and every conversion read the picture as *)
(* it was: the copy takes its sizes from the window, not from the picture   *)
(* (vo_sdl2.c:333, gui_sdl.c:337).  A size set while the device is being    *)
(* rebuilt is not covered: the mutex does not hold then.                    *)
PictureFits ==
  vo_thread = "show" /\ ~overlapped =>
    /\ picture.size = texture /\ texture = window_size
    /\ picture.fmt = "yuv420p" /\ picture.whole

(* The transport thread waits for the lock of the one that joins it.        *)
Stuck == player = "release" /\ carried # <<>>

(* The tool ends once it is told to or the file has ended, unless one of    *)
(* two things happened: the player came to its end by itself with a command *)
(* on its way, which the transport thread had taken from the hub or would   *)
(* take (dt_event.c:123-126, dt_player.c:305-309), or a STOP was handled    *)
(* together with a later command that wrote the status again, which only    *)
(* the seek of a player that loops does (dtplayer.c:606-645, 752-757).      *)
ToolEnds ==
  /\ (tool = "join") ~> (tool = "done" \/ Stuck \/ (overwritten /\ loop_mode))
  /\ (player = "end_join") ~> (tool = "done" \/ Stuck)

(* dtplayer_api.c:100: dtplayer_stop waits until the player has stopped.    *)
StopReturns == (tool = "join") ~> (tool = "done")
=============================================================================
