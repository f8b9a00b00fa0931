----------------------------- MODULE SdlWindow -----------------------------
(* gui_sdl.c and vo_sdl2.c: the window of the command-line player and the   *)
(* video device that shows pictures in it, for SDL 1 and for SDL 2.  The    *)
(* window belongs to the main thread, the device to whoever builds and      *)
(* stops the host, and the rendering to the video output thread; a mutex    *)
(* that both the window and the device initialise keeps them apart.         *)
(*                                                                          *)
(* A size is a name: of the pictures, of the window at first, of the        *)
(* screen, and of the screen cut to the picture's shape.  The texture (the  *)
(* overlay of SDL 1) is the size it was made with.                          *)
EXTENDS VideoFilter

CONSTANTS Backends,     \* subset of {"sdl", "sdl2"}: what the tool is built with
          FirstSizes,   \* the sizes the window may be created with
          FrameSizes,   \* the sizes decoded pictures may have
          Formats,      \* their pixel formats
          FormatVaries, \* the format may change within a file
          Asked         \* the user gives the size on the command line

ASSUME WindowAssumption ==
  /\ Backends \subseteq {"sdl", "sdl2"}
  /\ FormatVaries \in BOOLEAN /\ Asked \in BOOLEAN
  /\ "stream" \in FrameSizes

VARIABLES
  backend,      \* the library
  open,         \* the window is there
  window_size,  \* gui.window_w and window_h, and the rectangle
  media_size,   \* gui.media_width and media_height: what it began with
  max_size,     \* gui.max_width and max_height
  lock,         \* who is inside the mutex
  renderer,     \* the SDL 2 renderer exists
  texture,      \* the size of the texture or overlay, or "none"
  vf,           \* the device's filter
  stream_fmt,   \* the pixel format the container gives
  vo_status,    \* vo->status
  vo_thread,    \* where video_output_thread is
  picture,      \* what it is about to show
  overlapped    \* a size was set while the device was stopped or built

windowVars == <<backend, open, window_size, media_size, max_size, lock, renderer, texture, vf,
                stream_fmt, vo_status, vo_thread, picture, overlapped>>
chosenVars == <<backend, stream_fmt, media_size>>
threadVars == <<vo_status, vo_thread, picture>>

\* The destination size is the one asked for, else that of the pictures.
Wanted ==
  [s |-> "stream", d |-> IF Asked THEN media_size ELSE "stream",
   sf |-> stream_fmt, df |-> "yuv420p"]
NoPicture == [size |-> "none", fmt |-> "none", whole |-> TRUE]

WindowInit ==
  /\ backend \in Backends /\ stream_fmt \in Formats /\ media_size \in FirstSizes
  /\ open = FALSE /\ window_size = media_size /\ max_size = "screen"
  /\ lock = "free" /\ renderer = FALSE /\ texture = "none"
  /\ vf = NoFilter(Wanted)
  /\ vo_status = "EXIT" /\ vo_thread = "none" /\ picture = NoPicture /\ overlapped = FALSE

-----------------------------------------------------------------------------
(* The window, in the main thread                                           *)

\* setup_gui, and the init of either library.
gui_init ==
  /\ open' = TRUE /\ lock' = "free"
  /\ UNCHANGED <<chosenVars, window_size, max_size, renderer, texture, vf, threadVars, overlapped>>

\* What a resize event asks for: f goes to the whole screen and back, and the
\* SDL 1 window may be dragged to any size.
FullScreen == IF window_size = max_size THEN media_size ELSE max_size
Resizes == {FullScreen} \cup (IF backend = "sdl" THEN {"dragged"} ELSE {})

\* set_info(GUI_CMD_SET_SIZE) up to the drawing objects.
set_size(size) ==
  /\ lock = "free" /\ lock' = "main"
  /\ window_size' = size
  /\ UNCHANGED <<chosenVars, open, max_size, renderer, texture, vf, threadVars, overlapped>>

\* mutant: the texture of the old size stays
drop_texture_keeps == lock' = "free" /\ UNCHANGED <<renderer, texture>>

\* ... and the rest of it: SDL 2 drops them, to be made again by the next render.
drop_texture ==
  /\ lock' = "free"
  /\ IF backend = "sdl2" THEN renderer' = FALSE /\ texture' = "none"
     ELSE UNCHANGED <<renderer, texture>>

set_size_end ==
  /\ drop_texture
  /\ UNCHANGED <<chosenVars, open, window_size, max_size, vf, threadVars, overlapped>>

\* SDL 1 leaves its window to the end of the process.
gui_stop ==
  /\ backend = "sdl2" => lock = "free"
  /\ open' = (open /\ backend = "sdl")
  /\ UNCHANGED <<chosenVars, window_size, max_size, lock, renderer, texture, vf, threadVars, overlapped>>

-----------------------------------------------------------------------------
(* The device                                                               *)

\* vo_sdl_init prepares the filter for the window's size and cuts max_size to
\* the picture's shape; vo_sdl2_init leaves the filter to the first picture.
\* Both initialise the mutex again, held or not.
vo_init ==
  /\ vf' = IF backend = "sdl"
           THEN video_filter_init(NoFilter([Wanted EXCEPT !.d = window_size]))
           ELSE NoFilter(Wanted)
  /\ max_size' = IF backend = "sdl" THEN "fitted" ELSE max_size
  /\ overlapped' = (overlapped \/ lock # "free")
  /\ lock' = "free"
  /\ vo_status' = "IDLE" /\ vo_thread' = "top"
  /\ UNCHANGED <<chosenVars, open, window_size, renderer, texture, picture>>

\* Only SDL 1 enters the mutex.
vo_stop ==
  /\ backend = "sdl" => lock = "free"
  /\ renderer' = FALSE /\ texture' = "none"
  /\ vf' = video_filter_stop(vf)
  /\ overlapped' = (overlapped \/ lock # "free")
  /\ UNCHANGED <<chosenVars, open, window_size, max_size, lock, threadVars>>

\* The beginning of render: the filter is made anew when a size is not the one
\* it was made for, or whenever the picture is not in the device's format.
OutOfDate(frame) ==
  \/ vf.para.d # window_size \/ vf.para.s # frame.size
  \/ frame.fmt # "yuv420p"

Updated(frame) ==
  IF OutOfDate(frame)
  THEN video_filter_update([vf EXCEPT !.para = [s |-> frame.size, d |-> window_size,
                                                sf |-> frame.fmt, df |-> "yuv420p"]])
  ELSE vf

render_begin(frame) ==
  /\ vo_thread = "top" /\ vo_status = "RUNNING"
  /\ lock = "free" /\ lock' = "video"
  /\ vf' = Updated(frame)
  /\ picture' = video_filter_process(vf', frame)
  /\ vo_thread' = "draw"
  /\ UNCHANGED <<chosenVars, open, window_size, max_size, renderer, texture, vo_status, overlapped>>

\* SDL 2 makes what is missing; SDL 1 makes its overlay for every picture.
render_draw ==
  /\ vo_thread = "draw" /\ vo_thread' = "show"
  /\ renderer' = (backend = "sdl2")
  /\ texture' = IF backend = "sdl" \/ texture = "none" THEN window_size ELSE texture
  /\ UNCHANGED <<chosenVars, open, window_size, max_size, lock, vf, vo_status, picture, overlapped>>

\* The picture is copied in and presented.
render_show ==
  /\ vo_thread = "show" /\ vo_thread' = "top" /\ picture' = NoPicture
  /\ lock' = "free"
  /\ UNCHANGED <<chosenVars, open, window_size, max_size, renderer, texture, vf, vo_status, overlapped>>

\* video_output_thread sees EXIT only between two pictures.
vo_thread_exit ==
  /\ vo_thread = "top" /\ vo_status = "EXIT" /\ vo_thread' = "none"
  /\ UNCHANGED <<chosenVars, open, window_size, max_size, lock, renderer, texture, vf, vo_status,
                 picture, overlapped>>

Frames ==
  [size : FrameSizes, fmt : IF FormatVaries THEN Formats ELSE {stream_fmt}, whole : {TRUE}]

video_output_thread ==
  \/ \E frame \in Frames : render_begin(frame)
  \/ render_draw \/ render_show \/ vo_thread_exit
=============================================================================
