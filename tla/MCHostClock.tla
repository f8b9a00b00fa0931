----------------------------- MODULE MCHostClock -----------------------------
(* HostClock on streams of a few pictures, with the thresholds scaled down  *)
(* so that the jumps take the streams apart (AVSYNC_THRESHOLD_MAX) and are  *)
(* discontinuities for the video output (ticks) and for the host (ms), on   *)
(* and back.  The content before the cut is short: sound and pictures may   *)
(* come upon it in either order and lose each other.                        *)
EXTENDS HostClock

MCJumps == {22, -26}
=============================================================================
