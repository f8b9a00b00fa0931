------------------------------ MODULE MCPlayer ------------------------------
(* A file with packets that are key frames and packets that are not, room   *)
(* for a second IO thread, and players with several settings, of which a    *)
(* behaviour has one.                                                       *)
EXTENDS Player

CONSTANTS io1, io2, audio, key

(* The first player goes through its commands.  The demuxer of the second   *)
(* refuses seeks.  The third is in all the trouble there is: a live stream  *)
(* whose decoder is reset, refused seeks, loop mode, and an application     *)
(* that sends commands after a STOP.                                        *)
MCSettings ==
  {[commands |-> 3, stop_last |-> TRUE, live |-> FALSE, loop |-> FALSE, refuses |-> FALSE],
   [commands |-> 2, stop_last |-> TRUE, live |-> FALSE, loop |-> FALSE, refuses |-> TRUE],
   [commands |-> 2, stop_last |-> FALSE, live |-> TRUE, loop |-> TRUE, refuses |-> TRUE]}

(* One command, STOP, to a file that starts over at its end.                *)
LoopSettings ==
  {[commands |-> 1, stop_last |-> TRUE, live |-> FALSE, loop |-> TRUE, refuses |-> FALSE]}
=============================================================================
