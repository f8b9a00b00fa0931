------------------------------- MODULE MCTool -------------------------------
(* The command-line player's window and its sound, with either SDL.  They   *)
(* meet only in the player, so a behaviour is about one of them, and the    *)
(* window's behaviours are of two parts:                                    *)
(*                                                                          *)
(* "window": pictures of two sizes, so that a stream changes its size while *)
(* it plays, in two formats, one of which the device takes as it is; the    *)
(* window begins with the pictures' size or with the default one.  The      *)
(* transport carries each command at once.                                  *)
(*                                                                          *)
(* "end": one size and one format, every order of the transport, and loop   *)
(* mode: how the player ends.                                               *)
(*                                                                          *)
(* Three events are enough for a resize, a seek and a stop.  For the sound  *)
(* ("sound"), the ring is not a multiple of the unit nor of the period.     *)
EXTENDS Tool, AoSdl

VARIABLE half

toolOnly == <<windowVars, toolVars, playerVars, sentVars>>

ToolInit ==
  /\ Init /\ AoInit /\ half \in {"window", "end", "sound"}
  /\ half = "sound" => info = FALSE /\ stream_fmt = "yuv420p" /\ media_size = "stream" /\ backend = ao_backend
                       /\ ~loop_mode
  /\ half # "sound" => ao_backend = backend
  /\ half = "window" => ~loop_mode /\ (stream_fmt = "yuv420p" \/ media_size = "stream") /\ (info \/ stream_fmt = "yuv420p")
  /\ half = "end" => stream_fmt = "yuv420p" /\ media_size = "stream"

ToolNext ==
  /\ UNCHANGED half
  /\ \/ half = "window" /\ UNCHANGED aoVars
        /\ IF (hub # <<>> \/ carried # <<>>) /\ player # "release" THEN event_transport_loop
           ELSE Next /\ (transport' = transport \/ player = "release")
     \/ half = "end" /\ Next /\ UNCHANGED aoVars
        /\ window_size' \in {"stream", "screen", "fitted"} /\ picture'.size # "other"
     \/ half = "sound" /\ AoNext /\ UNCHANGED toolOnly

ToolSpec ==
  /\ ToolInit /\ [][ToolNext]_<<half, toolOnly, aoVars>>
  /\ WF_vars(half # "sound" /\ event_transport_loop)
  /\ WF_vars(half # "sound" /\ event_handle_loop) /\ WF_vars(half # "sound" /\ Video)
  /\ SF_vars(half # "sound" /\ Main)
  /\ WF_aoVars(half = "sound" /\ output_thread) /\ WF_aoVars(half = "sound" /\ sdl_cb)
=============================================================================
