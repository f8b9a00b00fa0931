---------------------------- MODULE AudioService ----------------------------
(* dtaudio: the audio service the host builds and drives.                   *)
(*                                                                          *)
(* Four threads meet in one context: whoever drives the host posts commands *)
(* (dtaudio_start, _pause, _resume, _stop) and, to stop, joins the event    *)
(* loop; the event loop carries the commands out; the decoder thread fills  *)
(* the PCM ring; the output thread empties it into a device that it opens   *)
(* itself when the first PCM arrives.  The commands travel through the      *)
(* event service, which keeps their order (see EventUsers).                 *)
(*                                                                          *)
(* A packet, a piece of PCM and a write to the device are all one unit.     *)
(* What the two threads compute from time stamps is in AvStartup and        *)
(* HostClock.                                                               *)
EXTENDS Integers, Sequences, SequencesExt

CONSTANTS PcmRing,      \* the pieces of PCM the ring holds
          MaxCommands   \* bound: commands waiting for the event loop

ASSUME AudioAssumption == PcmRing \in Nat \ {0} /\ MaxCommands \in Nat \ {0}

VARIABLES
  audio_state,     \* actx->audio_state
  audio_events,    \* the commands on their way to the event loop
  event_loop,      \* where event_handle_loop is
  ao_status,       \* audio_out.status
  ao_thread,       \* where audio_output_thread is
  ao_holds,        \* rlen > 0: PCM read and not yet written
  ao_device,       \* the device behind audio_out.aoc
  ao_seen,         \* aoc as audio_output_stop read it: was there a device?
  adec_status,     \* audio_dec.status
  adec_thread,     \* where audio_decode_loop is
  pcm,             \* the level of audio_decoded_buf; -1 once released
  late_writes,     \* writes to the device since PAUSE was carried out
  alive            \* FALSE once the process has died of a device that is not there

audioVars == <<audio_state, audio_events, event_loop, ao_status, ao_thread, ao_holds,
               ao_device, ao_seen, adec_status, adec_thread, pcm, late_writes, alive>>
audioOutVars == <<ao_thread, ao_holds, ao_device, late_writes>>
audioDecVars == <<adec_status, adec_thread, pcm>>

AudioCommands == {"START", "PAUSE", "RESUME", "STOP"}
AdecRuns == {"read", "put", "ask"}
AudioRunning == event_loop \in {"run", "join_output", "join_decoder"}
AudioThreads == AudioRunning \/ ao_thread \in {"top", "write"} \/ adec_thread \in AdecRuns

AudioInit ==
  /\ audio_state = "IDLE" /\ audio_events = <<>> /\ event_loop = "none"
  /\ ao_status = "IDLE" /\ ao_thread = "none" /\ ao_holds = FALSE
  /\ ao_device = "none" /\ ao_seen = FALSE
  /\ adec_status = "IDLE" /\ adec_thread = "none" /\ pcm = -1
  /\ late_writes = 0 /\ alive = TRUE

-----------------------------------------------------------------------------
(* Building the service, in the caller's thread                             *)

\* The wrapper is selected and initialised, the ring allocated, the thread
\* created and the status set.
audio_decoder_init ==
  /\ audio_state' = "INITING"
  /\ adec_status' = "RUNNING" /\ adec_thread' = "read" /\ pcm' = 0
  /\ UNCHANGED <<audio_events, event_loop, ao_status, ao_seen, audioOutVars, alive>>

\* err1: no wrapper takes the format, or it refuses; nothing was started.
audio_decoder_init_fails ==
  /\ audio_state' = "INITING"
  /\ UNCHANGED <<audio_events, event_loop, ao_status, ao_seen, audioOutVars, audioDecVars, alive>>

\* The output's context was cleared, and its thread created: IDLE, no device.
audio_output_init ==
  /\ ao_status' = "IDLE" /\ ao_thread' = "top" /\ ao_holds' = FALSE
  /\ UNCHANGED <<audio_state, audio_events, event_loop, ao_device, ao_seen, audioDecVars,
                 late_writes, alive>>

\* The thread of the event loop, and the service is INITED.
audio_init_end ==
  /\ event_loop' = "run" /\ audio_state' = "INITED"
  /\ UNCHANGED <<audio_events, ao_status, ao_seen, audioOutVars, audioDecVars, alive>>

\* err2 and err3 stop the decoder: EXIT here, the join in audio_decoder_freed.
\* Nobody stops an output thread that already runs.
audio_init_undo ==
  /\ adec_status' = "EXIT"
  /\ UNCHANGED <<audio_state, audio_events, event_loop, ao_status, ao_seen, audioOutVars,
                 adec_thread, pcm, alive>>

\* The rest of audio_decoder_stop, once the thread is gone.
AudioDecoderFreed == adec_thread = "done" /\ pcm' = -1
audio_decoder_freed ==
  /\ AudioDecoderFreed
  /\ UNCHANGED <<audio_state, audio_events, event_loop, ao_status, ao_seen, audioOutVars,
                 adec_status, adec_thread, alive>>

-----------------------------------------------------------------------------
(* The commands                                                             *)

dtaudio_send(command) ==
  /\ Len(audio_events) < MaxCommands
  /\ audio_events' = Append(audio_events, command)
  /\ UNCHANGED <<audio_state, event_loop, ao_status, ao_seen, audioOutVars, audioDecVars, alive>>

\* The event at the head of the loop's queue is taken.
Command(command) ==
  /\ alive /\ event_loop = "run" /\ audio_state # "STOP"
  /\ audio_events # <<>> /\ Head(audio_events) = command
  /\ audio_events' = Tail(audio_events)

audio_start ==
  /\ Command("START")
  /\ IF audio_state = "INITED"
     THEN ao_status' = "RUNNING" /\ audio_state' = "ACTIVE"
     ELSE UNCHANGED <<ao_status, audio_state>>
  /\ UNCHANGED <<event_loop, ao_seen, audioOutVars, audioDecVars, alive>>

\* mutant: the service is PAUSED, the output is never told
audio_pause_keeps_output ==
  /\ Command("PAUSE")
  /\ audio_state' = IF audio_state = "ACTIVE" THEN "PAUSED" ELSE audio_state
  /\ UNCHANGED <<event_loop, ao_status, ao_seen, audioOutVars, audioDecVars, alive>>

\* A device that is open is paused with the thread; one that is not, is not.
audio_pause ==
  /\ Command("PAUSE")
  /\ IF audio_state = "ACTIVE"
     THEN /\ ao_status' = "PAUSE" /\ audio_state' = "PAUSED" /\ late_writes' = 0
          /\ ao_device' = IF ao_device = "open" THEN "paused" ELSE ao_device
     ELSE UNCHANGED <<ao_status, audio_state, ao_device, late_writes>>
  /\ UNCHANGED <<event_loop, ao_seen, ao_thread, ao_holds, audioDecVars, alive>>

\* audio_output_resume uses audio_out.aoc without asking whether there is one.
audio_resume ==
  /\ Command("RESUME")
  /\ IF audio_state = "PAUSED"
     THEN /\ ao_status' = "RUNNING" /\ audio_state' = "ACTIVE"
          /\ ao_device' = IF ao_device = "paused" THEN "open" ELSE ao_device
          /\ alive' = (ao_device # "none")
     ELSE UNCHANGED <<ao_status, audio_state, ao_device, alive>>
  /\ UNCHANGED <<event_loop, ao_seen, ao_thread, ao_holds, late_writes, audioDecVars>>

\* audio_stop, up to the join in audio_output_stop: aoc is read first.
audio_stop ==
  /\ Command("STOP")
  /\ IF audio_state \in {"INITED", "ACTIVE", "PAUSED"}
     THEN /\ ao_seen' = (ao_device # "none")
          /\ ao_status' = "EXIT" /\ event_loop' = "join_output"
     ELSE UNCHANGED <<ao_seen, ao_status, event_loop>>
  /\ UNCHANGED <<audio_state, audioOutVars, audioDecVars, alive>>

\* The output thread is gone: the device that was seen is stopped; then
\* audio_decoder_stop up to its join.
audio_output_stop ==
  /\ alive /\ event_loop = "join_output" /\ ao_thread = "done"
  /\ ao_device' = IF ao_seen THEN "stopped" ELSE ao_device
  /\ adec_status' = "EXIT" /\ event_loop' = "join_decoder"
  /\ UNCHANGED <<audio_state, audio_events, ao_status, ao_seen, ao_thread, ao_holds,
                 adec_thread, pcm, late_writes, alive>>

\* The decoder thread is gone: the ring is released, the state is STOP and the
\* loop leaves.
audio_decoder_stop ==
  /\ alive /\ event_loop = "join_decoder" /\ AudioDecoderFreed
  /\ audio_state' = "STOP" /\ event_loop' = "done"
  /\ UNCHANGED <<audio_events, ao_status, ao_seen, audioOutVars, adec_status, adec_thread, alive>>

event_handle_loop ==
  \/ audio_start \/ audio_pause \/ audio_resume \/ audio_stop
  \/ audio_output_stop \/ audio_decoder_stop

-----------------------------------------------------------------------------
(* audio_output_thread                                                      *)

ao_exit ==
  /\ alive /\ ao_thread = "top" /\ ao_status = "EXIT"
  /\ ao_thread' = "done"
  /\ UNCHANGED <<audio_state, audio_events, event_loop, ao_status, ao_holds, ao_device, ao_seen,
                 audioDecVars, late_writes, alive>>

\* PCM left over from a write that took nothing goes first.
ao_read ==
  /\ alive /\ ao_thread = "top" /\ ao_status = "RUNNING"
  /\ \/ ao_holds /\ UNCHANGED pcm
     \/ ~ao_holds /\ pcm > 0 /\ pcm' = pcm - 1
  /\ ao_holds' = TRUE /\ ao_thread' = "write"
  /\ UNCHANGED <<audio_state, audio_events, event_loop, ao_status, ao_device, ao_seen,
                 adec_status, adec_thread, late_writes, alive>>

\* The first piece of PCM: the device is opened.
ao_open ==
  /\ alive /\ ao_thread = "write" /\ ao_device = "none"
  /\ ao_device' = "open"
  /\ UNCHANGED <<audio_state, audio_events, event_loop, ao_status, ao_thread, ao_holds, ao_seen,
                 audioDecVars, late_writes, alive>>

\* No back end is registered, or the one there is refuses: the thread leaves.
ao_open_fails ==
  /\ alive /\ ao_thread = "write" /\ ao_device = "none"
  /\ ao_device' \in {"none", "failed"} /\ ao_thread' = "done"
  /\ UNCHANGED <<audio_state, audio_events, event_loop, ao_status, ao_holds, ao_seen,
                 audioDecVars, late_writes, alive>>

ao_write ==
  /\ alive /\ ao_thread = "write" /\ ao_device \in {"open", "paused"}
  /\ ao_holds' \in BOOLEAN          \* the device may take nothing
  /\ ao_thread' = "top"
  /\ late_writes' = IF audio_state = "PAUSED" THEN late_writes + 1 ELSE late_writes
  /\ UNCHANGED <<audio_state, audio_events, event_loop, ao_status, ao_device, ao_seen,
                 audioDecVars, alive>>

audio_output_thread == ao_exit \/ ao_read \/ ao_open \/ ao_open_fails \/ ao_write

-----------------------------------------------------------------------------
(* audio_decode_loop: a packet is read, decoded and put into the ring.  A   *)
(* packet that decodes to nothing leaves the thread where it was.           *)

\* mutant: a decoder that waits for room in the ring does not look
adec_exit_at_read ==
  /\ alive /\ adec_thread = "read" /\ adec_status = "EXIT"
  /\ adec_thread' = "done"
  /\ UNCHANGED <<audio_state, audio_events, event_loop, ao_status, ao_seen, audioOutVars,
                 adec_status, pcm, alive>>

adec_exit ==
  /\ alive /\ adec_thread \in {"read", "put"} /\ adec_status = "EXIT"
  /\ adec_thread' = "done"
  /\ UNCHANGED <<audio_state, audio_events, event_loop, ao_status, ao_seen, audioOutVars,
                 adec_status, pcm, alive>>

adec_decode ==
  /\ alive /\ adec_thread = "read" /\ adec_status = "RUNNING"
  /\ adec_thread' = "put"
  /\ UNCHANGED <<audio_state, audio_events, event_loop, ao_status, ao_seen, audioOutVars,
                 adec_status, pcm, alive>>

\* REFILL_BUFFER: what the device still holds is asked for when the output runs
\* and has written to it (that it has is left open).  The status is looked at
\* here ...
adec_ask ==
  /\ alive /\ adec_thread = "put" /\ adec_status = "RUNNING"
  /\ ao_status = "RUNNING" /\ ao_device \in {"open", "paused"}
  /\ adec_thread' = "ask"
  /\ UNCHANGED <<audio_state, audio_events, event_loop, ao_status, ao_seen, audioOutVars,
                 adec_status, pcm, alive>>

\* ... and the device used here, whatever has become of it.  When there is room
\* the PCM goes into the ring; when there is none, or half a second is still to
\* be heard, the thread begins again.
adec_asked ==
  /\ alive /\ adec_thread = "ask"
  /\ \/ adec_thread' = "put" /\ UNCHANGED pcm
     \/ adec_thread' = "read" /\ pcm \in 0..PcmRing - 1 /\ pcm' = pcm + 1
  /\ UNCHANGED <<audio_state, audio_events, event_loop, ao_status, ao_seen, audioOutVars,
                 adec_status, alive>>

\* Nothing was to be asked: the PCM goes into the ring when there is room.
adec_put ==
  /\ alive /\ adec_thread = "put" /\ adec_status = "RUNNING"
  /\ pcm \in 0..PcmRing - 1
  /\ pcm' = pcm + 1 /\ adec_thread' = "read"
  /\ UNCHANGED <<audio_state, audio_events, event_loop, ao_status, ao_seen, audioOutVars,
                 adec_status, alive>>

audio_decode_loop == adec_exit \/ adec_decode \/ adec_ask \/ adec_asked \/ adec_put

AudioNext == event_handle_loop \/ audio_output_thread \/ audio_decode_loop

-----------------------------------------------------------------------------
AudioTypeOK ==
  /\ audio_state \in {"IDLE", "INITING", "INITED", "ACTIVE", "PAUSED", "STOP"}
  /\ audio_events \in Seq(AudioCommands) /\ Len(audio_events) <= MaxCommands
  /\ event_loop \in {"none", "run", "join_output", "join_decoder", "done"}
  /\ ao_status \in {"IDLE", "RUNNING", "PAUSE", "EXIT"}
  /\ ao_thread \in {"none", "top", "write", "done"}
  /\ ao_device \in {"none", "open", "paused", "failed", "stopped"}
  /\ adec_status \in {"IDLE", "RUNNING", "EXIT"}
  /\ adec_thread \in AdecRuns \cup {"none", "done"}
  /\ pcm \in -1..PcmRing /\ late_writes \in Nat
  /\ {ao_holds, ao_seen, alive} \subseteq BOOLEAN
=============================================================================
