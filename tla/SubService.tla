----------------------------- MODULE SubService -----------------------------
(* dtsub: the subtitle service.  Built like dtvideo, with two differences:  *)
(* the host starts and stops it and never pauses it (dtsub_pause and        *)
(* dtsub_resume have no caller), and its frames are shown against the       *)
(* host's clock, which it only reads.                                       *)
(*                                                                          *)
(* A subtitle is one unit and may be due at any time, see VideoService.     *)
EXTENDS Integers

CONSTANT SubQueue   \* SUB_OUT_MAX_COUNT

ASSUME SubAssumption == SubQueue \in Nat \ {0}

VARIABLES
  sub_status,    \* sctx->sub_status
  so_status,     \* sub_out.status
  so_thread,     \* where sub_output_thread is
  so_open,       \* the device was initialised and not stopped
  sdec_status,   \* sub_dec.status
  sdec_thread,   \* where sub_decode_loop is
  so_queue       \* the length of the frame queue; -1 once freed

subVars == <<sub_status, so_status, so_thread, so_open, sdec_status, sdec_thread, so_queue>>
soVars == <<so_status, so_thread, so_open>>
sdecVars == <<sdec_status, sdec_thread>>

SubThreads == so_thread \in {"top", "render"} \/ sdec_thread \in {"read", "decode"}

SubInit ==
  /\ sub_status = "IDLE" /\ so_status = "IDLE" /\ so_thread = "none"
  /\ so_open = FALSE
  /\ sdec_status = "IDLE" /\ sdec_thread = "none" /\ so_queue = -1

-----------------------------------------------------------------------------
(* Building, starting and stopping, in the caller's thread                  *)

sub_decoder_init ==
  /\ sub_status' = "INITING"
  /\ sdec_status' = "RUNNING" /\ sdec_thread' = "read" /\ so_queue' = 0
  /\ UNCHANGED soVars

sub_decoder_init_fails ==
  /\ sub_status' = "INITING"
  /\ UNCHANGED <<soVars, sdecVars, so_queue>>

sub_output_init ==
  /\ so_open' = TRUE /\ so_status' = "IDLE" /\ so_thread' = "top" /\ sub_status' = "INITED"
  /\ UNCHANGED <<sdecVars, so_queue>>

\* err2 of sub_init stops the decoder it had started.
sub_init_undo ==
  /\ sdec_status' = "EXIT"
  /\ UNCHANGED <<sub_status, soVars, sdec_thread, so_queue>>

sub_start ==
  /\ IF sub_status = "INITED"
     THEN so_status' = "RUNNING" /\ sub_status' = "ACTIVE"
     ELSE UNCHANGED <<so_status, sub_status>>
  /\ UNCHANGED <<so_thread, so_open, sdecVars, so_queue>>

sub_stop ==
  /\ sub_status \in {"INITED", "ACTIVE"}
  /\ so_status' = "EXIT"
  /\ UNCHANGED <<sub_status, so_thread, so_open, sdecVars, so_queue>>

sub_output_stop ==
  /\ so_thread = "done"
  /\ so_open' = FALSE /\ sdec_status' = "EXIT"
  /\ UNCHANGED <<sub_status, so_status, so_thread, sdec_thread, so_queue>>

sub_decoder_stop ==
  /\ sdec_thread = "done" /\ so_queue' = -1
  /\ sub_status' = IF sub_status = "INITING" THEN sub_status ELSE "STOPPED"
  /\ UNCHANGED <<soVars, sdecVars>>

-----------------------------------------------------------------------------
(* sub_output_thread and sub_decode_loop                                    *)

so_exit ==
  /\ so_thread = "top" /\ so_status = "EXIT"
  /\ so_thread' = "done"
  /\ UNCHANGED <<sub_status, so_status, so_open, sdecVars, so_queue>>

\* A subtitle is due by the host's clock.
so_take ==
  /\ so_thread = "top" /\ so_status = "RUNNING" /\ so_queue > 0
  /\ so_queue' = so_queue - 1 /\ so_thread' = "render"
  /\ UNCHANGED <<sub_status, so_status, so_open, sdecVars>>

\* Shown, or dropped because the next one is due as well.
so_render ==
  /\ so_thread = "render" /\ so_thread' = "top"
  /\ UNCHANGED <<sub_status, so_status, so_open, sdecVars, so_queue>>

sub_output_thread == so_exit \/ so_take \/ so_render

sdec_exit ==
  /\ sdec_thread = "read" /\ sdec_status = "EXIT"
  /\ sdec_thread' = "done"
  /\ UNCHANGED <<sub_status, soVars, sdec_status, so_queue>>

\* A packet, or after the first frame an empty one that flushes the decoder.
sdec_read ==
  /\ sdec_thread = "read" /\ sdec_status = "RUNNING" /\ so_queue \in 0..SubQueue - 1
  /\ sdec_thread' = "decode"
  /\ UNCHANGED <<sub_status, soVars, sdec_status, so_queue>>

sdec_decode ==
  /\ sdec_thread = "decode" /\ sdec_thread' = "read"
  /\ so_queue' \in {so_queue, so_queue + 1}
  /\ UNCHANGED <<sub_status, soVars, sdec_status>>

sub_decode_loop == sdec_exit \/ sdec_read \/ sdec_decode

SubNext == sub_output_thread \/ sub_decode_loop

-----------------------------------------------------------------------------
SubTypeOK ==
  /\ sub_status \in {"IDLE", "INITING", "INITED", "ACTIVE", "STOPPED"}
  /\ so_status \in {"IDLE", "RUNNING", "EXIT"}
  /\ so_thread \in {"none", "top", "render", "done"}
  /\ sdec_status \in {"IDLE", "RUNNING", "EXIT"}
  /\ sdec_thread \in {"none", "read", "decode", "done"}
  /\ so_queue \in -1..SubQueue
  /\ so_open \in BOOLEAN
=============================================================================
