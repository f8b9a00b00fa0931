------------------------------- MODULE AoSdl -------------------------------
(* ao_sdl.c and ao_sdl2.c with the loop of audio_output_thread that feeds   *)
(* them: the thread reads PCM a unit at a time into a buffer of its own,    *)
(* opens the device with the first it gets, and writes what it holds until  *)
(* the device's ring has taken all of it; SDL's audio thread takes a period *)
(* out of the ring whenever it needs one.                                   *)
(*                                                                          *)
(* The PCM is a stream of numbered blocks, so that order, loss and doubling *)
(* show; the ring (dt_buffer, ByteRing) is a sequence here.  The decoder    *)
(* gives the thread a unit at a time or less, and nothing at the end.       *)
EXTENDS Integers, Sequences

CONSTANTS AoBackends,  \* subset of {"sdl", "sdl2"}
          RingSize,    \* dst_samplerate * 4 / 10 bytes: 100 ms
          Unit,        \* PCM_WRITE_SIZE: what the thread reads at once
          Period,      \* SDL_AUDIO_BUFFER_SIZE samples: what SDL takes at once
          Content      \* the PCM there is to play

\* In a smaller ring there can be too much for another unit and too little for
\* a period; the SDL 2 device then plays nothing any more.
ASSUME AoAssumption ==
  /\ {RingSize, Unit, Period, Content} \subseteq Nat \ {0}
  /\ Unit + Period <= RingSize + 1
  /\ AoBackends \subseteq {"sdl", "sdl2"}

VARIABLES
  ao_backend,   \* the library
  ao_status,    \* ao->status
  ao_thread,    \* where audio_output_thread is
  buffer,       \* what it has read and the device has not taken: rlen bytes
  device,       \* "none", "open" or "closed"
  sdl_paused,   \* SDL_PauseAudio
  ring,         \* ctx->dbt
  read,         \* the PCM read from the decoder so far
  heard         \* what SDL has taken

aoVars == <<ao_backend, ao_status, ao_thread, buffer, device, sdl_paused, ring, read, heard>>

Blocks(from, n) == [i \in 1 .. n |-> from + i]
Drop(s, n) == SubSeq(s, n + 1, Len(s))
Least(a, b) == IF a <= b THEN a ELSE b

AoInit ==
  /\ ao_backend \in AoBackends
  /\ ao_status = "IDLE" /\ ao_thread = "top" /\ buffer = <<>>
  /\ device = "none" /\ sdl_paused = FALSE /\ ring = <<>> /\ read = 0 /\ heard = <<>>

\* audio_output_thread: EXIT, then IDLE and PAUSE, are looked at once a round.
output_top ==
  /\ ao_thread = "top"
  /\ ao_thread' = CASE ao_status = "EXIT" -> "none"
                    [] ao_status = "RUNNING" -> "read"
                    [] OTHER -> "top"
  /\ UNCHANGED <<ao_backend, ao_status, buffer, device, sdl_paused, ring, read, heard>>

\* Nothing is read while something is left over.
output_read ==
  /\ ao_thread = "read"
  /\ IF buffer # <<>>
     THEN ao_thread' = "write" /\ UNCHANGED <<buffer, read>>
     ELSE \E n \in 0 .. Least(Unit, Content - read) :
            /\ n = 0 => read = Content
            /\ buffer' = Blocks(read, n) /\ read' = read + n
            /\ ao_thread' = IF n = 0 THEN "top" ELSE IF device = "none" THEN "init" ELSE "write"
  /\ UNCHANGED <<ao_backend, ao_status, device, sdl_paused, ring, heard>>

\* The device opens with its ring empty and plays at once.
ao_init ==
  /\ ao_thread = "init" /\ ao_thread' = "write"
  /\ device' = "open" /\ ring' = <<>> /\ sdl_paused' = FALSE
  /\ UNCHANGED <<ao_backend, ao_status, buffer, read, heard>>

\* buf_put takes what there is room for; SDL 2 asks for room for all first.
Room == RingSize - Len(ring)
Taken(n) == IF ao_backend = "sdl2" /\ Room < n THEN 0 ELSE Least(Room, n)

\* Mutant of LeftOver: a write that took something is taken for a whole one
LeftOver_none(n) == IF n = 0 THEN buffer ELSE <<>>

\* What a write leaves to be written in the next round.
LeftOver(n) == Drop(buffer, n)

ao_play ==
  /\ ao_thread = "write" /\ ao_thread' = "top"
  /\ LET n == Taken(Len(buffer)) IN
       ring' = ring \o SubSeq(buffer, 1, n) /\ buffer' = LeftOver(n)
  /\ UNCHANGED <<ao_backend, ao_status, device, sdl_paused, read, heard>>

\* Mutant of enough: a period is not enough for a period
enough_more == Len(ring) > Period

enough == Len(ring) >= Period

\* The callback gives a whole period or nothing.
sdl_cb ==
  /\ device = "open" /\ ~sdl_paused /\ enough
  /\ heard' = heard \o SubSeq(ring, 1, Period) /\ ring' = Drop(ring, Period)
  /\ UNCHANGED <<ao_backend, ao_status, ao_thread, buffer, device, sdl_paused, read>>

audio_output_start ==
  /\ ao_status = "IDLE" /\ ao_status' = "RUNNING"
  /\ UNCHANGED <<ao_backend, ao_thread, buffer, device, sdl_paused, ring, read, heard>>

audio_output_pause ==
  /\ ao_status = "RUNNING" /\ ao_status' = "PAUSE"
  /\ sdl_paused' = (device = "open" \/ sdl_paused)
  /\ UNCHANGED <<ao_backend, ao_thread, buffer, device, ring, read, heard>>

\* Resuming before there is a device dereferences its null pointer, and is
\* left out.
audio_output_resume ==
  /\ ao_status = "PAUSE" /\ device = "open"
  /\ ao_status' = "RUNNING" /\ sdl_paused' = FALSE
  /\ UNCHANGED <<ao_backend, ao_thread, buffer, device, ring, read, heard>>

audio_output_stop ==
  /\ ao_status # "EXIT" /\ ao_status' = "EXIT"
  /\ UNCHANGED <<ao_backend, ao_thread, buffer, device, sdl_paused, ring, read, heard>>

\* After the join: the device is closed, and the ring goes with it.
ao_stop ==
  /\ ao_status = "EXIT" /\ ao_thread = "none" /\ device = "open"
  /\ device' = "closed" /\ ring' = <<>>
  /\ UNCHANGED <<ao_backend, ao_status, ao_thread, buffer, sdl_paused, read, heard>>

output_thread == output_top \/ output_read \/ ao_init \/ ao_play
host == audio_output_start \/ audio_output_pause \/ audio_output_resume \/ audio_output_stop
AoNext == output_thread \/ sdl_cb \/ host \/ ao_stop

AoSpec == AoInit /\ [][AoNext]_aoVars

-----------------------------------------------------------------------------
(* What is heard is what was decoded, in order, nothing lost or doubled:    *)
(* through units that do not divide the ring, writes that take a part of    *)
(* one, periods that do not divide a unit, and pauses at any time.          *)
HeardInOrder ==
  device # "closed" => heard \o ring \o buffer = Blocks(0, read)

(* Sound that has been decoded comes out, but for less than a period, which *)
(* the callback never gives: the writer that waits for room and the device  *)
(* that waits for a period do not wait for each other.                      *)
SoundDrains ==
  <>[](ao_status = "RUNNING") => <>(Content - Len(heard) < Period)
=============================================================================
