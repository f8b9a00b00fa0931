---------------------------- MODULE Tool_proofs ----------------------------
(* The command-line player, for every set of sizes and formats, with either *)
(* SDL and any number of events: the window outlives what is shown in it,   *)
(* and what is copied fits.  Its sound, for rings, units, periods and PCM   *)
(* of every size: what is heard is what was decoded, in order.              *)
(*                                                                          *)
(* Nothing but the order of the ends holds the window's two users apart:    *)
(* Ends says how far the tool may be, given where the player is, and what   *)
(* is left of the video device there.                                       *)
EXTENDS Tool, AoSdl, TLAPS

-----------------------------------------------------------------------------
(* The window                                                               *)

Sizes == FirstSizes \cup FrameSizes \cup {"screen", "dragged", "fitted"}
Colours == Formats \cup {"yuv420p"}
Para == [s : Sizes, d : Sizes, sf : Colours, df : Colours]
Filter == [status : {"IDLE", "RUNNING"}, para : Para, made : Para,
           vfc : {"none", "live", "freed"}]

WindowTypes ==
  /\ backend \in {"sdl", "sdl2"} \cap Backends /\ stream_fmt \in Formats
  /\ {media_size, window_size, max_size} \subseteq Sizes
  /\ vf \in Filter

\* The thread of the device, by the player's place; the window, by the tool's.
Ending == {"remove", "unlisted", "release", "exit", "gone"}
Ends ==
  /\ player = "none" <=> tool \in {"setup", "failed", "start"}
  /\ player \in {"none", "seek_init"} \cup Ending \/ ~info => vo_thread = "none"
  /\ player \in {"none"} \cup Ending \/ ~info => texture = "none" /\ ~renderer
  /\ quit \/ tool \in {"gui_stop", "done"} => player = "gone"
  /\ tool \in {"start", "check", "event", "resize", "join", "gui_stop"} => open

WInv == TypeOK /\ WindowTypes /\ Ends

\* Who is inside the mutex is where it says, until it is initialised again
\* under somebody's feet.
LockPlace ==
  /\ lock = "main" <=> tool = "resize"
  /\ lock = "video" <=> vo_thread \in {"draw", "show"}

TextureSize ==
  /\ backend = "sdl2" /\ tool # "resize" => texture \in {"none", window_size}
  /\ vo_thread = "show" => texture = window_size

\* A filter that runs does what it was last asked for; one that does not has
\* been asked for nothing that it could do.
FilterMade ==
  vo_thread # "none" =>
    /\ vf.para.sf = stream_fmt /\ vf.para.df = "yuv420p"
    /\ vf.status = "RUNNING" => vf.made = vf.para
    /\ vf.status = "IDLE" => vf.para.s = vf.para.d

PictureMade ==
  vo_thread \in {"draw", "show"} =>
    picture.size = window_size /\ picture.fmt = "yuv420p" /\ picture.whole

FInv == ~overlapped => LockPlace /\ TextureSize /\ FilterMade /\ PictureMade

\* One format in a file, and with SDL 2 no size on the command line.
Steady == ~FormatVaries /\ (Asked => "sdl2" \notin Backends)

LEMMA FilterKinds ==
  /\ \A p \in Para : NoFilter(p) \in Filter
  /\ \A f \in Filter : /\ video_filter_init(f) \in Filter
                       /\ video_filter_stop(f) \in Filter
                       /\ video_filter_update(f) \in Filter
<1>1. \A f \in Filter : video_filter_init(f) \in Filter
  BY DEF video_filter_init, Filter
<1>2. \A f \in Filter : video_filter_stop(f) \in Filter
  BY DEF video_filter_stop, Filter
<1> QED BY <1>1, <1>2 DEF NoFilter, Filter, video_filter_update

\* A filter made anew runs with what it was asked for, or has nothing to do.
LEMMA FilterAnew ==
  ASSUME NEW f \in Filter, NEW g, g = video_filter_init(f),
         f.status = "IDLE"
  PROVE  /\ g.para = f.para
         /\ g.status = "RUNNING" => g.made = g.para
         /\ g.status = "IDLE" => g.para.s = g.para.d /\ g.para.sf = g.para.df
BY DEF Filter, video_filter_init, need_process

LEMMA WantedKind ==
  ASSUME WindowTypes PROVE Wanted \in Para /\ [Wanted EXCEPT !.d = window_size] \in Para
BY WindowAssumption DEF WindowTypes, Wanted, Para, Sizes, Colours

-----------------------------------------------------------------------------
(* Types                                                                    *)

\* What is sent, carried and taken are commands.
Commands == {"start", "pause", "seek", "stop"}
LEMMA SentSeq ==
  /\ \A s \in Seq(Commands), cmd \in Commands :
       /\ Append(s, cmd) \in Seq(Commands) /\ <<cmd>> \in Seq(Commands)
       /\ s # <<>> => Tail(s) \in Seq(Commands) /\ Head(s) \in Commands
  /\ \A s, t \in Seq(Commands) : s \o t \in Seq(Commands)
  /\ <<>> \in Seq(Commands)
OBVIOUS

LEMMA TransportKeeps ==
  ASSUME WInv, event_transport_loop
  PROVE  TypeOK'
<1>1. {hub, carried, queue} \subseteq Seq(Commands)
  BY DEF WInv, TypeOK, Commands
<1>2. {hub', carried', queue'} \subseteq Seq(Commands) /\ transport' \in {"check", "get", "gone"}
  <2>1. CASE transport_check
    BY <1>1, <2>1 DEF transport_check
  <2>2. CASE transport_get
    <3>1. hub \in Seq(Commands) /\ UNCHANGED queue /\ transport' = "check"
      BY <1>1, <2>2 DEF transport_get
    <3>2. CASE hub = <<>>
      BY <1>1, <2>2, <3>1, <3>2 DEF transport_get
    <3>3. CASE hub # <<>>
      <4>1. Head(hub) \in Commands /\ Tail(hub) \in Seq(Commands)
        BY <3>1, <3>3, SentSeq DEF Commands
      <4>2. <<Head(hub)>> \in Seq(Commands)
        BY <3>1, <4>1, SentSeq
      <4> QED BY <1>1, <2>2, <3>1, <3>3, <4>1, <4>2 DEF transport_get
    <3> QED BY <3>2, <3>3
  <2>3. CASE transport_event
    BY <1>1, <2>3, SentSeq DEF transport_event, WInv, TypeOK
  <2> QED BY <2>1, <2>2, <2>3 DEF event_transport_loop
<1> QED BY <1>2 DEF event_transport_loop, windowVars, toolVars, playerVars, WInv, TypeOK, Commands,
               chosenVars, threadVars

LEMMA WindowInitTyped == Init => WInv
<1> SUFFICES ASSUME Init PROVE WInv
  OBVIOUS
<1>1. TypeOK
  BY DEF Init, WindowInit, TypeOK
<1>2. Wanted \in Para
  BY WindowAssumption DEF Init, WindowInit, Wanted, Para, Sizes, Colours
<1>3. WindowTypes
  BY <1>2, FilterKinds, WindowAssumption DEF Init, WindowInit, WindowTypes, Sizes
<1>4. Ends
  BY DEF Init, WindowInit, Ends
<1> QED BY <1>1, <1>3, <1>4 DEF WInv

LEMMA VoInitKeeps ==
  ASSUME WindowTypes, vo_init
  PROVE  WindowTypes' /\ vo_thread' = "top" /\ vo_status' = "IDLE" /\ lock' = "free"
         /\ UNCHANGED <<open, texture, renderer>>
<1>1. vf' \in Filter
  BY WantedKind, FilterKinds DEF vo_init
<1> QED BY <1>1 DEF vo_init, WindowTypes, chosenVars, Sizes

LEMMA VoStopKeeps ==
  ASSUME WindowTypes, vo_stop
  PROVE  WindowTypes' /\ texture' = "none" /\ ~renderer'
         /\ UNCHANGED <<open, lock, vo_status, vo_thread>>
<1>1. vf' \in Filter
  BY FilterKinds DEF vo_stop, WindowTypes
<1> QED BY <1>1 DEF vo_stop, WindowTypes, chosenVars, threadVars

LEMMA SetVoKeeps ==
  ASSUME NEW status, SetVo(status)
  PROVE  vo_status' = status
         /\ UNCHANGED <<chosenVars, open, window_size, max_size, lock, renderer, texture, vf, vo_thread,
                        picture, overlapped>>
BY DEF SetVo

LEMMA UpdatedKind ==
  ASSUME WindowTypes, NEW frame \in Frames
  PROVE  Updated(frame) \in Filter
<1>1. [s |-> frame.size, d |-> window_size, sf |-> frame.fmt, df |-> "yuv420p"] \in Para
  BY DEF Frames, WindowTypes, Para, Sizes, Colours
<1>2. [vf EXCEPT !.para = [s |-> frame.size, d |-> window_size,
                           sf |-> frame.fmt, df |-> "yuv420p"]] \in Filter
  BY <1>1 DEF WindowTypes, Filter
<1>3. vf \in Filter
  BY DEF WindowTypes
<1> QED BY <1>2, <1>3, FilterKinds DEF Updated

LEMMA WindowStep ==
  ASSUME WInv, [Next]_vars
  PROVE  WInv'
<1> USE DEF WInv
<1>1. CASE setup_gui
  BY <1>1 DEF setup_gui, gui_init, TypeOK, WindowTypes, Ends, chosenVars, threadVars, playerVars, sentVars, transportVars
<1>2. CASE setup_fails
  BY <1>2 DEF setup_fails, windowVars, TypeOK, WindowTypes, Ends, chosenVars, threadVars, playerVars, sentVars, transportVars
<1>3. CASE start
  <2>1. CASE info
    <3>1. WindowTypes' /\ vo_thread' = "top" /\ vo_status' = "IDLE" /\ lock' = "free"
          /\ UNCHANGED <<open, texture, renderer>>
      BY <1>3, <2>1, VoInitKeeps DEF start
    <3>2. TypeOK'
      BY <1>3, <3>1 DEF start, TypeOK
    <3>3. Ends'
      BY <1>3, <2>1, <3>1 DEF start, Ends, Ending
    <3> QED BY <3>1, <3>2, <3>3
  <2>2. CASE ~info
    BY <1>3, <2>2 DEF start, windowVars, TypeOK, WindowTypes, Ends, Ending
  <2> QED BY <2>1, <2>2 DEF Ends
<1>4. CASE check_quit \/ no_event
  BY <1>4 DEF check_quit, no_event, windowVars, playerVars, sentVars, transportVars, TypeOK, WindowTypes, Ends
<1>5. CASE event_resize_end
  BY <1>5 DEF event_resize_end, set_size_end, drop_texture, chosenVars, threadVars, playerVars,
              sentVars, transportVars, TypeOK, WindowTypes, Ends
<1>6. CASE stop_joined
  BY <1>6 DEF stop_joined, windowVars, playerVars, sentVars, transportVars, TypeOK, WindowTypes, Ends
<1>7. CASE tool_ends
  BY <1>7 DEF tool_ends, gui_stop, chosenVars, threadVars, playerVars, sentVars, transportVars,
              TypeOK, WindowTypes, Ends
<1>8. CASE event_pause \/ event_seek \/ event_stop
  <2>1. {hub, carried, queue} \subseteq Seq(Commands)
    BY DEF TypeOK, Commands
  <2>2. {hub', carried', queue'} \subseteq Seq(Commands)
        /\ UNCHANGED <<windowVars, playerVars, transport, quit, info>>
    BY <1>8, <2>1, SentSeq DEF event_pause, event_seek, event_stop, Send, SendSync, sentVars,
                              transportVars, Commands, windowVars
  <2>3. tool = "event" /\ tool' \in {"check", "join"}
    BY <1>8 DEF event_pause, event_seek, event_stop, Event
  <2> QED BY <2>2, <2>3 DEF windowVars, chosenVars, threadVars, playerVars, Commands, TypeOK, WindowTypes, Ends
<1>9. CASE event_resize
  <2>1. PICK size \in Resizes : set_size(size)
    BY <1>9 DEF event_resize
  <2>2. size \in Sizes
    BY DEF Resizes, FullScreen, WindowTypes, Sizes
  <2> QED BY <1>9, <2>1, <2>2 DEF event_resize, Event, set_size, chosenVars, threadVars, playerVars,
                                  sentVars, transportVars, TypeOK, WindowTypes, Ends
<1>10. CASE take_command
  <2>1. queue' \in Seq(Commands) /\ UNCHANGED <<hub, carried, transport>>
    BY <1>10, SentSeq DEF take_command, TypeOK, Commands, transportVars
  <2>2. vo_status' \in {"IDLE", "RUNNING", "PAUSE", "EXIT"}
        /\ player' \in {"loop", "seek_join"}
        /\ UNCHANGED <<chosenVars, open, window_size, max_size, lock, renderer, texture, vf, vo_thread,
                       picture, overlapped>>
    BY <1>10 DEF take_command, take_start, take_pause, take_seek, take_stop, SetVo, playerVars,
                windowVars, chosenVars, threadVars, TypeOK
  <2>3. player = "loop" /\ UNCHANGED toolVars
    BY <1>10 DEF take_command
  <2> QED BY <2>1, <2>2, <2>3 DEF toolVars, chosenVars, Commands, TypeOK, WindowTypes, Ends, Ending
<1>11. CASE no_command \/ check_status \/ end_of_file
  <2>1. queue' \in Seq(Commands) /\ UNCHANGED <<hub, carried, transport>>
    BY <1>11, SentSeq DEF no_command, check_status, end_of_file, TypeOK, Commands, sentVars, transportVars
  <2>2. vo_status' \in {"IDLE", "RUNNING", "PAUSE", "EXIT"}
        /\ player' \in {"loop", "status", "end_join"} /\ player \in {"loop", "status"}
        /\ UNCHANGED <<chosenVars, open, window_size, max_size, lock, renderer, texture, vf, vo_thread,
                       picture, overlapped>>
    BY <1>11 DEF no_command, check_status, end_of_file, SetVo, windowVars, chosenVars, threadVars, TypeOK
  <2>3. UNCHANGED toolVars
    BY <1>11 DEF no_command, check_status, end_of_file
  <2> QED BY <2>1, <2>2, <2>3 DEF toolVars, chosenVars, Commands, TypeOK, WindowTypes, Ends, Ending
<1>12. ASSUME NEW here \in {"seek_join", "end_join"}, NEW there,
              there = IF here = "seek_join" THEN "seek_init" ELSE "remove",
              video_output_stop(here, there)
       PROVE  WInv'
  <2>1. CASE info
    <3>1. vo_stop
      BY <1>12, <2>1 DEF video_output_stop
    <3>2. WindowTypes' /\ texture' = "none" /\ ~renderer'
          /\ UNCHANGED <<open, lock, vo_status, vo_thread>>
      BY <3>1, VoStopKeeps
    <3> QED BY <1>12, <3>2 DEF video_output_stop, toolVars, sentVars, transportVars, TypeOK, Ends, Ending
  <2>2. CASE ~info
    BY <1>12, <2>2 DEF video_output_stop, windowVars, toolVars, sentVars, transportVars,
                                TypeOK, WindowTypes, Ends, Ending
  <2> QED BY <2>1, <2>2
<1>13. CASE seek_rebuild
  <2>1. CASE info
    <3>1. WindowTypes' /\ vo_thread' = "top" /\ vo_status' = "IDLE" /\ lock' = "free"
          /\ UNCHANGED <<open, texture, renderer>>
      BY <1>13, <2>1, VoInitKeeps DEF seek_rebuild
    <3> QED BY <1>13, <2>1, <3>1 DEF seek_rebuild, toolVars, sentVars, transportVars, TypeOK, Ends, Ending
  <2>2. CASE ~info
    BY <1>13, <2>2 DEF seek_rebuild, windowVars, toolVars, sentVars, transportVars,
                                TypeOK, WindowTypes, Ends, Ending
  <2> QED BY <2>1, <2>2
<1>14. CASE seek_start
  BY <1>14 DEF seek_start, SetVo, windowVars, chosenVars, toolVars, sentVars, transportVars,
               TypeOK, WindowTypes, Ends, Ending
<1>15. CASE player_service_release \/ dt_service_release \/ player_exit
  <2>1. CASE player_service_release
    BY <2>1 DEF player_service_release, windowVars, toolVars, transportVars, TypeOK, WindowTypes, Ends, Ending
  <2>2. CASE dt_service_release
    BY <2>2 DEF dt_service_release, windowVars, toolVars, sentVars, transportVars, TypeOK, WindowTypes,
                Ends, Ending
  <2>3. CASE player_exit
    BY <2>3 DEF player_exit, update_cb, windowVars, sentVars, transportVars, TypeOK, WindowTypes, Ends, Ending
  <2> QED BY <1>15, <2>1, <2>2, <2>3
<1>16. ASSUME NEW frame \in Frames, render_begin(frame), UNCHANGED <<toolVars, playerVars, sentVars>>
       PROVE  WInv'
  <2>1. vf' \in Filter
    BY <1>16, UpdatedKind DEF render_begin
  <2> QED BY <1>16, <2>1 DEF render_begin, chosenVars, toolVars, playerVars, sentVars, transportVars,
                          TypeOK, WindowTypes, Ends, Ending
<1>17. CASE (render_draw \/ render_show \/ vo_thread_exit) /\ UNCHANGED <<toolVars, playerVars, sentVars>>
  BY <1>17 DEF render_draw, render_show, vo_thread_exit, chosenVars, toolVars, playerVars,
               sentVars, transportVars, TypeOK, WindowTypes, Ends, Ending
<1>18. CASE UNCHANGED vars
  BY <1>18 DEF vars, windowVars, toolVars, playerVars, sentVars, transportVars, TypeOK, WindowTypes, Ends
<1>19. CASE video_output_stop("seek_join", "seek_init") \/ video_output_stop("end_join", "remove")
  BY <1>12, <1>19
<1>20. CASE Video
  BY <1>16, <1>17, <1>20 DEF Video, video_output_thread
<1>21. CASE event_transport_loop
  BY <1>21, TransportKeeps DEF event_transport_loop, windowVars, chosenVars, threadVars, toolVars, playerVars,
                               WindowTypes, Ends, Ending
<1> HIDE DEF WInv
<1> QED BY <1>1, <1>2, <1>3, <1>4, <1>5, <1>6, <1>7, <1>8, <1>9, <1>10, <1>11, <1>13, <1>14,
           <1>15, <1>18, <1>19, <1>20, <1>21
        DEF Next, Main, User, event_handle_loop

LEMMA WindowAlways == Spec => []WInv
BY WindowInitTyped, WindowStep, PTL DEF Spec

(* Types, for every set of sizes, formats and libraries and any number of   *)
(* events.                                                                  *)
THEOREM ToolTyped == Spec => []TypeOK
<1>1. WInv => TypeOK
  BY DEF WInv
<1> QED BY <1>1, WindowAlways, PTL

(* WindowOutlivesVideo (dt_player.c, gui_sdl.c, vo_sdl2.c): the picture's   *)
(* thread never works in a window that is gone, and nothing of the device   *)
(* is left when the tool ends, whichever of key and end of file comes first *)
(* and wherever a command is that comes too late.                           *)
THEOREM ToolWindow == Spec => []WindowOutlivesVideo
<1>1. WInv => WindowOutlivesVideo
  BY DEF WInv, TypeOK, Ends, Ending, WindowOutlivesVideo
<1> QED BY <1>1, WindowAlways, PTL

-----------------------------------------------------------------------------
(* What is copied                                                           *)

\* A filter that is up to date, and a picture through it.
FilterReady(f) ==
  /\ f.para.sf = stream_fmt /\ f.para.df = "yuv420p"
  /\ f.status = "RUNNING" => f.made = f.para
  /\ f.status = "IDLE" => f.para.s = f.para.d

LEMMA UpdatedReady ==
  ASSUME WindowTypes, FilterReady(vf), NEW frame \in Frames, frame.fmt = stream_fmt
  PROVE  LET f == Updated(frame)
             pic == video_filter_process(f, frame)
         IN  /\ FilterReady(f)
             /\ pic.size = window_size /\ pic.fmt = "yuv420p" /\ pic.whole
<1> DEFINE para == [s |-> frame.size, d |-> window_size, sf |-> frame.fmt, df |-> "yuv420p"]
           asked == [vf EXCEPT !.para = para]
           f == Updated(frame)
<1>1. para \in Para /\ vf \in Filter
  BY DEF Frames, WindowTypes, Para, Sizes, Colours
<1>2. asked \in Filter /\ asked.para = para
  BY <1>1 DEF Filter
<1>3. frame = [size |-> frame.size, fmt |-> frame.fmt, whole |-> TRUE] /\ frame.whole
  BY DEF Frames
<1>4. CASE OutOfDate(frame)
  <2>1. f = video_filter_init(video_filter_stop(asked))
    BY <1>4 DEF Updated, video_filter_update
  <2>2. video_filter_stop(asked) \in Filter
    BY <1>2, FilterKinds
  <2>3. video_filter_stop(asked).status = "IDLE" /\ video_filter_stop(asked).para = para
    BY <1>2 DEF video_filter_stop, Filter
  <2>4. /\ f.para = para
        /\ f.status = "RUNNING" => f.made = para
        /\ f.status = "IDLE" => para.s = para.d /\ para.sf = para.df
    <3> HIDE DEF para, asked, f
    <3> QED BY <2>1, <2>2, <2>3, FilterAnew
  <2>5. f \in Filter
    BY <2>1, <2>2, FilterKinds
  <2>6. para.s = frame.size /\ para.d = window_size /\ para.sf = stream_fmt /\ para.df = "yuv420p"
    OBVIOUS
  <2>7. f.status \in {"IDLE", "RUNNING"}
    BY <2>5 DEF Filter
  <2> HIDE DEF para, asked, f
  <2>8. FilterReady(f)
    BY <2>4, <2>6 DEF FilterReady
  <2>9. CASE f.status = "IDLE"
    BY <1>3, <2>4, <2>6, <2>8, <2>9 DEF video_filter_process, f
  <2>10. CASE f.status = "RUNNING"
    BY <1>3, <2>4, <2>6, <2>8, <2>10 DEF video_filter_process, convert_picture, f
  <2> QED BY <2>7, <2>9, <2>10
<1>5. CASE ~OutOfDate(frame)
  <2>1. f = vf
    BY <1>5 DEF Updated
  <2>2. vf.para.d = window_size /\ vf.para.s = frame.size /\ frame.fmt = "yuv420p"
    BY <1>5 DEF OutOfDate
  <2>3. vf.status \in {"IDLE", "RUNNING"}
    BY <1>1 DEF Filter
  <2> QED BY <1>3, <2>1, <2>2, <2>3 DEF FilterReady, video_filter_process, convert_picture
<1> QED BY <1>4, <1>5

\* The filter of a device that has just been built.
LEMMA VoInitReady ==
  ASSUME WindowTypes, Steady, vo_init
  PROVE  LET f == vf' IN FilterReady(f)
<1>1. Wanted \in Para /\ [Wanted EXCEPT !.d = window_size] \in Para
  BY WantedKind
<1>2. CASE backend = "sdl"
  <2> DEFINE idle == NoFilter([Wanted EXCEPT !.d = window_size])
  <2>1. idle \in Filter
    BY <1>1, FilterKinds
  <2>2. idle.status = "IDLE" /\ idle.para.sf = stream_fmt /\ idle.para.df = "yuv420p"
    BY DEF NoFilter, Wanted
  <2>3. vf' = video_filter_init(idle)
    BY <1>2 DEF vo_init
  <2> HIDE DEF idle
  <2> QED BY <2>1, <2>2, <2>3, FilterAnew DEF FilterReady
<1>3. CASE backend = "sdl2"
  <2>1. ~Asked
    BY <1>3 DEF Steady, WindowTypes
  <2>2. vf' = NoFilter(Wanted)
    BY <1>3 DEF vo_init
  <2> QED BY <2>1, <2>2 DEF NoFilter, Wanted, FilterReady
<1> QED BY <1>2, <1>3 DEF WindowTypes

\* Steps that leave the window and its device alone.
LEMMA FitsElsewhere ==
  ASSUME FInv, UNCHANGED windowVars, (tool = "resize") = (tool' = "resize")
  PROVE  FInv'
BY DEF FInv, LockPlace, TextureSize, FilterMade, PictureMade, windowVars

\* Steps that change only the status of the device.
LEMMA FitsStatus ==
  ASSUME FInv, NEW status, SetVo(status), UNCHANGED tool
  PROVE  FInv'
BY DEF FInv, LockPlace, TextureSize, FilterMade, PictureMade, SetVo, chosenVars

\* A device is built or stopped while its thread is not there.
LEMMA FitsBuilt ==
  ASSUME FInv, WindowTypes, Steady, vo_init, vo_thread = "none", (tool = "resize") = (tool' = "resize")
  PROVE  FInv'
<1> SUFFICES ASSUME ~overlapped' PROVE (LockPlace /\ TextureSize /\ FilterMade /\ PictureMade)'
  BY DEF FInv
<1>1. ~overlapped /\ lock = "free" /\ lock' = "free"
  BY DEF vo_init
<1>2. LockPlace /\ TextureSize
  BY <1>1 DEF FInv
<1>3. vo_thread' = "top" /\ UNCHANGED <<backend, stream_fmt, window_size, texture>>
  BY DEF vo_init, chosenVars
<1>4. FilterMade'
  <2>1. LET f == vf' IN FilterReady(f)
    BY VoInitReady
  <2> QED BY <1>3, <2>1 DEF FilterMade, FilterReady
<1> QED BY <1>1, <1>2, <1>3, <1>4 DEF LockPlace, TextureSize, PictureMade

LEMMA FitsStopped ==
  ASSUME FInv, vo_stop, vo_thread = "none", UNCHANGED tool
  PROVE  FInv'
BY DEF FInv, LockPlace, TextureSize, FilterMade, PictureMade, vo_stop, chosenVars, threadVars

LEMMA FitsRendered ==
  ASSUME FInv, WindowTypes, Steady, NEW frame \in Frames, render_begin(frame), UNCHANGED tool
  PROVE  FInv'
<1> SUFFICES ASSUME ~overlapped PROVE (LockPlace /\ TextureSize /\ FilterMade /\ PictureMade)'
  BY DEF FInv, render_begin
<1>1. LockPlace /\ TextureSize /\ FilterMade
  BY DEF FInv
<1>2. frame.fmt = stream_fmt
  BY DEF Steady, Frames
<1>3. FilterReady(vf)
  BY <1>1 DEF FilterMade, FilterReady, render_begin
<1>4. PICK f \in Filter : f = Updated(frame)
  BY UpdatedKind
<1>5. PICK pic : pic = video_filter_process(f, frame)
  OBVIOUS
<1>6. vf' = f /\ picture' = pic
  BY <1>4, <1>5 DEF render_begin
<1>7. FilterReady(f) /\ pic.size = window_size /\ pic.fmt = "yuv420p" /\ pic.whole
  BY <1>2, <1>3, <1>4, <1>5, UpdatedReady
<1>8. lock' = "video" /\ vo_thread' = "draw" /\ UNCHANGED <<backend, stream_fmt, window_size, texture, tool>>
  BY DEF render_begin, chosenVars
<1>9. lock = "free"
  BY DEF render_begin
<1> QED BY <1>1, <1>6, <1>7, <1>8, <1>9 DEF LockPlace, TextureSize, FilterMade, PictureMade, FilterReady

LEMMA FitsStep ==
  ASSUME Steady, WInv, FInv, [Next]_vars
  PROVE  FInv'
<1>1. TypeOK /\ WindowTypes /\ Ends
  BY DEF WInv
<1>2. CASE setup_gui
  <2>1. vo_thread = "none" /\ texture = "none"
    BY <1>1, <1>2 DEF setup_gui, Ends
  <2> QED BY <1>2, <2>1 DEF setup_gui, gui_init, FInv, LockPlace, TextureSize, FilterMade, PictureMade,
                            chosenVars, threadVars
<1>3. CASE setup_fails \/ check_quit \/ no_event \/ stop_joined \/ event_pause \/ event_seek
           \/ event_stop \/ player_exit \/ event_transport_loop \/ no_command
           \/ player_service_release \/ dt_service_release
  <2>1. UNCHANGED windowVars /\ (tool = "resize") = (tool' = "resize")
    BY <1>3 DEF setup_fails, check_quit, no_event, stop_joined, event_pause, event_seek, event_stop,
                Event, Send, player_exit, event_transport_loop, no_command,
                player_service_release, dt_service_release, toolVars
  <2> QED BY <2>1, FitsElsewhere
<1>4. CASE start
  <2>1. vo_thread = "none" /\ tool # "resize" /\ tool' # "resize"
    BY <1>1, <1>4 DEF start, Ends
  <2>2. CASE info
    BY <1>1, <1>4, <2>1, <2>2, FitsBuilt DEF start
  <2>3. CASE ~info
    BY <1>4, <2>1, <2>3, FitsElsewhere DEF start
  <2> QED BY <2>2, <2>3
<1>5. CASE event_resize
  <2>1. PICK size \in Resizes : set_size(size)
    BY <1>5 DEF event_resize
  <2>2. tool' = "resize" /\ tool = "event"
    BY <1>5 DEF event_resize, Event
  <2> QED BY <2>1, <2>2 DEF set_size, FInv, LockPlace, TextureSize, FilterMade, PictureMade,
                            chosenVars, threadVars
<1>6. CASE event_resize_end
  BY <1>6 DEF event_resize_end, set_size_end, drop_texture, FInv, LockPlace, TextureSize, FilterMade,
              PictureMade, chosenVars, threadVars
<1>7. CASE tool_ends
  BY <1>7 DEF tool_ends, gui_stop, FInv, LockPlace, TextureSize, FilterMade, PictureMade,
              chosenVars, threadVars
<1>8. CASE take_command
  <2>1. UNCHANGED tool
    BY <1>8 DEF take_command, toolVars
  <2>2. (\E status : SetVo(status)) \/ UNCHANGED windowVars
    BY <1>8 DEF take_command, take_start, take_pause, take_seek, take_stop
  <2> QED BY <2>1, <2>2, FitsStatus, FitsElsewhere
<1>9. CASE check_status \/ end_of_file \/ seek_start
  <2>1. UNCHANGED tool
    BY <1>9 DEF check_status, end_of_file, seek_start, toolVars
  <2>2. (\E status : SetVo(status)) \/ UNCHANGED windowVars
    BY <1>9 DEF check_status, end_of_file, seek_start
  <2> QED BY <2>1, <2>2, FitsStatus, FitsElsewhere
<1>10. ASSUME NEW here, NEW there, video_output_stop(here, there) PROVE FInv'
  <2>1. vo_thread = "none" /\ UNCHANGED tool
    BY <1>10 DEF video_output_stop, toolVars
  <2>2. vo_stop \/ UNCHANGED windowVars
    BY <1>10 DEF video_output_stop
  <2> QED BY <2>1, <2>2, FitsStopped, FitsElsewhere
<1>11. CASE seek_rebuild
  <2>1. UNCHANGED tool /\ vo_thread = "none"
    BY <1>1, <1>11 DEF seek_rebuild, toolVars, Ends
  <2>2. vo_init \/ UNCHANGED windowVars
    BY <1>11 DEF seek_rebuild
  <2> QED BY <1>1, <2>1, <2>2, FitsBuilt, FitsElsewhere
<1>12. CASE Video
  <2>1. UNCHANGED tool
    BY <1>12 DEF Video, toolVars
  <2>2. ASSUME NEW frame \in Frames, render_begin(frame) PROVE FInv'
    BY <1>1, <2>1, <2>2, FitsRendered
  <2>3. CASE render_draw
    BY <1>1, <2>1, <2>3 DEF render_draw, FInv, LockPlace, TextureSize, FilterMade, PictureMade,
                       chosenVars, WindowTypes
  <2>4. CASE render_show
    BY <2>1, <2>4 DEF render_show, FInv, LockPlace, TextureSize, FilterMade, PictureMade, chosenVars
  <2>5. CASE vo_thread_exit
    BY <2>1, <2>5 DEF vo_thread_exit, FInv, LockPlace, TextureSize, FilterMade, PictureMade, chosenVars
  <2> QED BY <1>12, <2>2, <2>3, <2>4, <2>5 DEF Video, video_output_thread
<1>13. CASE UNCHANGED vars
  BY <1>13, FitsElsewhere DEF vars, toolVars
<1> QED BY <1>2, <1>3, <1>4, <1>5, <1>6, <1>7, <1>8, <1>9, <1>10, <1>11, <1>12, <1>13
        DEF Next, Main, User, event_handle_loop

(* PictureFits (vo_sdl2.c:333, gui_sdl.c:337): with one pixel format in a   *)
(* file, and with SDL 2 no size on the command line, what is copied has the *)
(* format and the size of the texture, and every conversion read the        *)
(* picture as it was, however window and pictures change their sizes.       *)
THEOREM ToolFits == Steady => (Spec => []PictureFits)
<1> SUFFICES ASSUME Steady PROVE Spec => []PictureFits
  OBVIOUS
<1>1. Init => FInv
  BY DEF Init, WindowInit, FInv, LockPlace, TextureSize, FilterMade, PictureMade
<1>2. WInv /\ FInv /\ [Next]_vars => FInv'
  BY FitsStep
<1>3. FInv => PictureFits
  BY DEF FInv, TextureSize, PictureMade, PictureFits
<1> QED BY <1>1, <1>2, <1>3, WindowAlways, PTL DEF Spec

-----------------------------------------------------------------------------
(* The sound                                                                *)
(* What has been heard, the ring and the thread's buffer are, one behind    *)
(* the other, runs of consecutive blocks.  A step moves the border between  *)
(* two runs (Cut) or joins what it read to the last (Join); opening the     *)
(* device empties the ring, which then has never been filled.               *)

\* When there is a device, a ring, and something to write to it.
Shape ==
  /\ device \in {"none", "open", "closed"}
  /\ ao_thread = "init" => device = "none"
  /\ device = "none" => /\ ring = <<>> /\ heard = <<>> /\ ao_thread # "write"
                        /\ buffer # <<>> => ao_thread = "init"
  /\ device = "closed" => ao_thread = "none"

\* The three runs have h, r and b blocks.
Runs(h, r, b) ==
  /\ heard = Blocks(0, h) /\ ring = Blocks(h, r) /\ buffer = Blocks(h + r, b)
  /\ read = h + r + b /\ read <= Content /\ r <= RingSize

Consecutive == device # "closed" => \E h, r, b \in Nat : Runs(h, r, b)

SoundInv == Shape /\ Consecutive

\* A run is a sequence.
LEMMA BlocksLen ==
  ASSUME NEW a \in Nat, NEW m \in Nat
  PROVE  /\ Blocks(a, m) \in Seq(Nat) /\ Len(Blocks(a, m)) = m
         /\ Blocks(a, m) = <<>> <=> m = 0
<1>1. Blocks(a, m) \in Seq(Nat) /\ Len(Blocks(a, m)) = m
  BY DEF Blocks
<1>2. Blocks(a, 0) = <<>>
  BY DEF Blocks
<1> QED BY <1>1, <1>2

\* Two runs, the second beginning where the first ends, are one.
LEMMA Join ==
  ASSUME NEW a \in Nat, NEW m \in Nat, NEW n \in Nat
  PROVE  Blocks(a, m) \o Blocks(a + m, n) = Blocks(a, m + n)
BY DEF Blocks

\* The first n blocks of a run, and the rest of it, are runs.
LEMMA Cut ==
  ASSUME NEW a \in Nat, NEW m \in Nat, NEW n \in 0 .. m
  PROVE  /\ SubSeq(Blocks(a, m), 1, n) = Blocks(a, n)
         /\ Drop(Blocks(a, m), n) = Blocks(a + n, m - n)
<1>1. SubSeq(Blocks(a, m), 1, n) = Blocks(a, n)
  BY DEF Blocks
<1>2. Drop(Blocks(a, m), n) = Blocks(a + n, m - n)
  BY DEF Blocks, Drop
<1> QED BY <1>1, <1>2
(* The runs, one behind the other, are the blocks read so far.              *)
LEMMA ConsecutiveInOrder == Consecutive => HeardInOrder
<1> SUFFICES ASSUME Consecutive, device # "closed"
             PROVE  heard \o ring \o buffer = Blocks(0, read)
  BY DEF HeardInOrder
<1>1. PICK h \in Nat, r \in Nat, b \in Nat : Runs(h, r, b)
  BY DEF Consecutive
<1>2. heard \o ring = Blocks(0, h + r)
  <2>1. Blocks(0, h) \o Blocks(0 + h, r) = Blocks(0, h + r)
    BY Join
  <2> QED BY <1>1, <2>1 DEF Runs
<1>3. h + r \in Nat /\ 0 + (h + r) = h + r
  OBVIOUS
<1>4. Blocks(0, h + r) \o Blocks(0 + (h + r), b) = Blocks(0, (h + r) + b)
  BY <1>3, Join
<1> QED BY <1>1, <1>2, <1>3, <1>4 DEF Runs

LEMMA SoundInit == AoInit => SoundInv
<1> SUFFICES ASSUME AoInit PROVE SoundInv
  OBVIOUS
<1>1. Blocks(0, 0) = <<>>
  BY BlocksLen
<1>2. Runs(0, 0, 0)
  BY <1>1, AoAssumption DEF AoInit, Runs
<1>3. Consecutive
  BY <1>2 DEF Consecutive
<1> QED BY <1>3 DEF AoInit, SoundInv, Shape

(* output_read: the blocks read next come behind all others.                *)
LEMMA ReadKeeps == SoundInv /\ output_read => SoundInv'
<1> SUFFICES ASSUME SoundInv, output_read PROVE SoundInv'
  OBVIOUS
<1>1. CASE buffer # <<>>
  BY <1>1 DEF SoundInv, Shape, Consecutive, Runs, output_read
<1>2. CASE buffer = <<>>
  <2>1. PICK n \in 0 .. Least(Unit, Content - read) :
          /\ buffer' = Blocks(read, n) /\ read' = read + n
          /\ ao_thread' = IF n = 0 THEN "top" ELSE IF device = "none" THEN "init" ELSE "write"
    BY <1>2 DEF output_read
  <2>2. ao_thread = "read" /\ device # "closed" /\ UNCHANGED <<device, ring, heard>>
    BY DEF output_read, SoundInv, Shape
  <2>3. PICK h \in Nat, r \in Nat, b \in Nat : Runs(h, r, b)
    BY <2>2 DEF SoundInv, Consecutive
  <2>4. h + r \in Nat /\ h + r + 0 = h + r /\ b = 0
    <3>1. h + r \in Nat
      OBVIOUS
    <3>2. Blocks(h + r, b) = <<>> <=> b = 0
      BY <3>1, BlocksLen
    <3> QED BY <1>2, <2>3, <3>1, <3>2 DEF Runs
  <2>5. n \in Nat /\ read \in Nat /\ read + n <= Content
    BY <2>1, <2>3, AoAssumption DEF Least, Runs
  <2>6. Runs(h, r, n)'
    BY <2>1, <2>2, <2>3, <2>4, <2>5 DEF Runs
  <2>7. Consecutive'
    BY <2>5, <2>6 DEF Consecutive
  <2>8. buffer' = <<>> <=> n = 0
    BY <2>1, <2>5, BlocksLen
  <2>9. Shape'
    BY <2>1, <2>2, <2>8 DEF SoundInv, Shape
  <2> QED BY <2>7, <2>9 DEF SoundInv
<1> QED BY <1>1, <1>2

(* ao_play: what the device takes goes from the buffer's head to the end of *)
(* the ring.                                                                *)
LEMMA PlayKeeps == SoundInv /\ ao_play => SoundInv'
<1> SUFFICES ASSUME SoundInv, ao_play PROVE SoundInv'
  OBVIOUS
<1>1. /\ ao_thread = "write" /\ ao_thread' = "top" /\ device \in {"open", "none"}
      /\ UNCHANGED <<device, read, heard>>
  BY DEF ao_play, SoundInv, Shape
<1>2. device = "open"
  BY <1>1 DEF SoundInv, Shape
<1>3. PICK h \in Nat, r \in Nat, b \in Nat : Runs(h, r, b)
  BY <1>2 DEF SoundInv, Consecutive
<1>4. Len(buffer) = b /\ Len(ring) = r
  BY <1>3, BlocksLen DEF Runs
<1>5. Taken(b) \in 0 .. b /\ r + Taken(b) <= RingSize
  BY <1>3, <1>4, AoAssumption DEF Taken, Room, Least, Runs
<1>6. PICK n \in 0 .. b : /\ r + n <= RingSize
                         /\ ring' = ring \o SubSeq(buffer, 1, n)
                         /\ buffer' = Drop(buffer, n)
  BY <1>4, <1>5 DEF ao_play, LeftOver
<1>7. n \in Nat /\ b - n \in Nat /\ h + r \in Nat /\ r + n \in Nat
      /\ (h + r) + n = h + (r + n) /\ h + (r + n) + (b - n) = h + r + b
  BY <1>6
<1>8. ring' = Blocks(h, r + n)
  <2>1. SubSeq(Blocks(h + r, b), 1, n) = Blocks(h + r, n)
    BY <1>6, <1>7, Cut
  <2>2. Blocks(h, r) \o Blocks(h + r, n) = Blocks(h, r + n)
    BY <1>7, Join
  <2> QED BY <1>3, <1>6, <2>1, <2>2 DEF Runs
<1>9. buffer' = Blocks(h + (r + n), b - n)
  <2>1. Drop(Blocks(h + r, b), n) = Blocks((h + r) + n, b - n)
    BY <1>6, <1>7, Cut
  <2> QED BY <1>3, <1>6, <1>7, <2>1 DEF Runs
<1>10. Runs(h, r + n, b - n)'
  BY <1>1, <1>3, <1>6, <1>7, <1>8, <1>9 DEF Runs
<1>11. Consecutive'
  BY <1>7, <1>10 DEF Consecutive
<1>12. Shape'
  BY <1>1, <1>2 DEF Shape
<1> QED BY <1>11, <1>12 DEF SoundInv

(* sdl_cb: the period the callback gives goes from the ring's head to the   *)
(* end of what has been heard.                                              *)
LEMMA CallbackKeeps == SoundInv /\ sdl_cb => SoundInv'
<1> SUFFICES ASSUME SoundInv, sdl_cb PROVE SoundInv'
  OBVIOUS
<1>1. /\ device = "open" /\ UNCHANGED <<device, read, buffer, ao_thread>>
      /\ Len(ring) >= Period
      /\ heard' = heard \o SubSeq(ring, 1, Period) /\ ring' = Drop(ring, Period)
  BY DEF sdl_cb, enough
<1>2. PICK h \in Nat, r \in Nat, b \in Nat : Runs(h, r, b)
  BY <1>1 DEF SoundInv, Consecutive
<1>3. Period \in 0 .. r /\ RingSize \in Nat
  <2>1. Len(ring) = r
    BY <1>2, BlocksLen DEF Runs
  <2> QED BY <1>1, <2>1, AoAssumption
<1>4. /\ Period \in Nat /\ h + Period \in Nat /\ r - Period \in Nat /\ 0 + h = h
      /\ (h + Period) + (r - Period) = h + r
  BY <1>3
<1>5. heard' = Blocks(0, h + Period)
  <2>1. Blocks(0, h) \o Blocks(0 + h, Period) = Blocks(0, h + Period)
    BY <1>4, Join
  <2>2. SubSeq(Blocks(h, r), 1, Period) = Blocks(h, Period)
    BY <1>3, Cut
  <2> QED BY <1>1, <1>2, <1>4, <2>1, <2>2 DEF Runs
<1>6. ring' = Blocks(h + Period, r - Period)
  BY <1>1, <1>2, <1>3, Cut DEF Runs
<1>7. Consecutive'
  <2>1. r - Period <= RingSize
    BY <1>2, <1>3 DEF Runs
  <2>2. Runs(h + Period, r - Period, b)'
    BY <1>1, <1>2, <1>4, <1>5, <1>6, <2>1 DEF Runs
  <2> QED BY <1>4, <2>2 DEF Consecutive
<1>8. Shape'
  BY <1>1 DEF SoundInv, Shape
<1> QED BY <1>7, <1>8 DEF SoundInv

(* ao_init: the ring is made anew while nothing has been put into it.       *)
LEMMA OpenKeeps == SoundInv /\ ao_init => SoundInv'
<1> SUFFICES ASSUME SoundInv, ao_init PROVE SoundInv'
  OBVIOUS
<1>1. /\ ao_thread = "init" /\ device = "none" /\ ring = <<>> /\ ring' = <<>>
      /\ device' = "open" /\ ao_thread' = "write" /\ UNCHANGED <<heard, buffer, read>>
  BY DEF SoundInv, Shape, ao_init
<1>2. Consecutive'
  BY <1>1 DEF SoundInv, Consecutive, Runs
<1>3. Shape'
  BY <1>1 DEF Shape
<1> QED BY <1>2, <1>3 DEF SoundInv

LEMMA SoundNext == SoundInv /\ [AoNext]_aoVars => SoundInv'
<1> SUFFICES ASSUME SoundInv, [AoNext]_aoVars PROVE SoundInv'
  OBVIOUS
<1> USE DEF SoundInv, Shape, Consecutive, Runs
<1>1. CASE output_top
  BY <1>1 DEF output_top
<1>2. CASE output_read
  BY <1>2, ReadKeeps
<1>3. CASE ao_init
  BY <1>3, OpenKeeps
<1>4. CASE ao_play
  BY <1>4, PlayKeeps
<1>5. CASE sdl_cb
  BY <1>5, CallbackKeeps
<1>6. CASE host
  BY <1>6 DEF host, audio_output_start, audio_output_pause, audio_output_resume,
              audio_output_stop
<1>7. CASE ao_stop
  BY <1>7 DEF ao_stop
<1>8. CASE UNCHANGED aoVars
  BY <1>8 DEF aoVars
<1> QED BY <1>1, <1>2, <1>3, <1>4, <1>5, <1>6, <1>7, <1>8 DEF AoNext, output_thread

(* ao_sdl_play, ao_sdl2_play and sdl_cb: what is heard is what was decoded, *)
(* in order, for every ring, unit, period and length, and either library.   *)
THEOREM SoundInOrder == AoSpec => []HeardInOrder
<1>1. SoundInv => HeardInOrder
  BY ConsecutiveInOrder DEF SoundInv
<1> QED BY SoundInit, SoundNext, <1>1, PTL DEF AoSpec
=============================================================================
