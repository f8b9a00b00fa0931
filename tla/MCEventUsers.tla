---------------------------- MODULE MCEventUsers ----------------------------
(* The player and the audio service, with the commands that matter to order *)
(* and removal, and clients of two kinds.  The first behave as the player's *)
(* own parts do.  The others go astray: a service fails to start after it   *)
(* registered, and commands are sent after the player's STOP.  Their audio  *)
(* service ends with the manager: aStop is one more command to it.          *)
EXTENDS EventUsers

CONSTANTS app, loop, aud1, aud2, ply, PLAYER, AUDIO,
          aStart, aStop, pPause, pSeek, pStop

MCIdOf == [s \in Service |-> IF s = ply THEN PLAYER ELSE AUDIO]
MCDest == [e \in Event |-> IF e \in {aStart, aStop} THEN AUDIO ELSE PLAYER]

(* The audio service hears from the player's loop only, the player's        *)
(* service from the application only.                                       *)
MCSenders == [i \in Id |-> IF i = AUDIO THEN {loop} ELSE {app}]

MCConducts ==
  {[stop |-> {aStop, pStop}, last |-> TRUE, may_fail |-> {}],
   [stop |-> {pStop}, last |-> FALSE, may_fail |-> {AUDIO}]}
=============================================================================
