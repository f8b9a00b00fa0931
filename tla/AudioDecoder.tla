---------------------------- MODULE AudioDecoder ----------------------------
(* audio_decode_loop with ad_ffmpeg, and the time audio_get_current_pts     *)
(* makes out of what the loop counts: packets are decoded into the PCM      *)
(* ring, the output takes them from there into a buffer of its own and      *)
(* offers that to its device until all of it was taken, and the host asks   *)
(* at any moment what is being heard.  (The bytes of the ring are           *)
(* in ByteRing, the start of the loop in AvStartup, how it is started and   *)
(* stopped in AudioService, and the device in AoSdl.)                       *)
(*                                                                          *)
(* A sample is its number in the stream; it is also the unit of time.  A    *)
(* packet is a sequence of frames, given by their lengths, and its time is  *)
(* its first sample.  The codec is libavcodec's: it decodes the frame that  *)
(* stands first in the data it is given, fails, gives no samples, or asks   *)
(* for more data.                                                           *)
EXTENDS Integers, Sequences, SequencesExt

CONSTANTS Audios,          \* the streams: the first sample and the packets
          UntimedPackets,  \* the sets of packets that may come without a time
          PcmSize,         \* the samples audio_decoded_buf has room for
          HalfSecond,      \* the samples heard in 500 ms
          UnitSize,        \* the samples heard in PCM_WRITE_SIZE
          DeviceSize       \* the samples the device holds

ASSUME AudioAssumption ==
  /\ \A a \in Audios : a.first \in Nat /\ a.packets \in Seq(Seq(Nat \ {0}) \ {<<>>})
  /\ {PcmSize, HalfSecond, UnitSize, DeviceSize} \subseteq Nat \ {0}

NoTime == -1000   \* DT_NOPTS_VALUE: far below every time

VARIABLES
  audio, untimed_packets,   \* the stream
  packets_read,
  adec,         \* where the loop is
  undecoded,    \* frame_data: frames, each a sequence of samples
  inlen,        \* how many of them are left to the loop's count
  rest,         \* rest_data
  decoded,      \* pinfo->outptr: the samples on their way to the ring
  times,        \* the pts_ fields of dtaudio_decoder_t
  ring,         \* audio_decoded_buf
  unit,         \* buffer: the samples the output has read and the device has not taken
  device,       \* the samples the device was given and has not played
  sound         \* history: "whole" while every packet was one frame and gave all its samples,
                \* "gaps" when some were lost, "repeated" when some were decoded again

loop_vars == <<packets_read, adec, undecoded, inlen, rest, decoded, times, sound>>
adec_vars == <<audio, untimed_packets, loop_vars, ring, unit, device>>

\* The sums of the first 0, 1, ... numbers of a sequence, counted from first.
Sums(first, numbers) ==
  LET sum[k \in 0 .. Len(numbers)] == IF k = 0 THEN first ELSE sum[k - 1] + numbers[k]
  IN sum

\* The samples before packet i, and packet i as the samples of its frames.
Length(packet) == Sums(0, packet)[Len(packet)]
Before(i) == Sums(audio.first, [k \in DOMAIN audio.packets |-> Length(audio.packets[k])])[i - 1]
Frames(i) ==
  LET packet == audio.packets[i]
      At(k) == Before(i) + Sums(0, packet)[k - 1]
  IN [k \in DOMAIN packet |-> [j \in 1 .. packet[k] |-> At(k) + j - 1]]

audio_pts_exchange(i) == IF i \in untimed_packets THEN NoTime ELSE Before(i)

\* A codec that was found and opened, and no time yet.
ffmpeg_adec_init == undecoded = <<>> /\ inlen = 0 /\ rest = <<>> /\ decoded = <<>>

audio_decoder_init ==
  /\ audio \in Audios /\ untimed_packets \in UntimedPackets /\ packets_read = 0
  /\ adec = "read" /\ ffmpeg_adec_init
  /\ times = [first |-> -1, current |-> -1, last_valid |-> 0, buffer_size |-> 0, cache_size |-> 0]
  /\ ring = <<>> /\ unit = <<>> /\ device = <<>> /\ sound = "whole"

-----------------------------------------------------------------------------
(* A packet is read ...                                                     *)

Invalid(pts) == pts \in {-1, NoTime}

Worse(s) == IF sound = "repeated" THEN sound ELSE s

Repacked == [times EXCEPT !.buffer_size = 0]

read_first_frame ==
  /\ adec = "read" /\ Invalid(times.first) /\ packets_read < Len(audio.packets)
  /\ packets_read' = packets_read + 1 /\ adec' = "decode"
  /\ LET pts == audio_pts_exchange(packets_read + 1)
     IN times' = IF Invalid(pts) THEN [times EXCEPT !.first = 0, !.current = 0]
                 ELSE [times EXCEPT !.first = pts, !.current = pts, !.last_valid = pts]
  /\ undecoded' = Frames(packets_read + 1) /\ inlen' = Len(undecoded')
  /\ UNCHANGED <<audio, untimed_packets, rest, decoded, ring, unit, device, sound>>

\* The time of a later packet is set before what the last one gave is
\* forgotten: whoever asks between the two is told a time that adds both.
audio_read_frame ==
  /\ adec = "read" /\ ~Invalid(times.first) /\ packets_read < Len(audio.packets)
  /\ packets_read' = packets_read + 1 /\ adec' = "repack"
  /\ times' = [times EXCEPT !.last_valid = times.current,
                            !.current = audio_pts_exchange(packets_read + 1)]
  /\ UNCHANGED <<audio, untimed_packets, undecoded, inlen, rest, decoded, ring, unit, device, sound>>

repack_frame ==
  /\ adec = "repack" /\ adec' = "decode"
  /\ times' = Repacked
  /\ undecoded' = rest \o Frames(packets_read) /\ inlen' = Len(undecoded') /\ rest' = <<>>
  /\ UNCHANGED <<audio, untimed_packets, packets_read, decoded, ring, unit, device, sound>>

(* ... given to the codec, always from its beginning ...                    *)

ffmpeg_adec_decode ==
  /\ adec = "decode" /\ adec' = "count"
  /\ decoded' = undecoded[1] /\ inlen' = inlen - 1
  /\ times' = [times EXCEPT !.cache_size = Len(undecoded[1])]
  /\ sound' = IF Len(undecoded) > 1 THEN "repeated" ELSE sound
  /\ UNCHANGED <<audio, untimed_packets, packets_read, undecoded, rest, ring, unit, device>>

count_decoded ==
  /\ adec = "count" /\ adec' = "refill"
  /\ times' = [times EXCEPT !.buffer_size = @ + Len(decoded)]
  /\ UNCHANGED <<audio, untimed_packets, packets_read, undecoded, inlen, rest, decoded, ring, unit, device, sound>>

\* An error, or no samples out of it: what is left of the data is given up.
decode_nothing ==
  /\ adec = "decode" /\ adec' = "read" /\ sound' = Worse("gaps")
  /\ UNCHANGED <<audio, untimed_packets, packets_read, undecoded, inlen, rest, decoded, times, ring, unit, device>>

need_more_data ==
  /\ adec = "decode" /\ adec' = "read" /\ sound' = Worse("gaps")
  /\ rest' = SubSeq(undecoded, 1, inlen)
  /\ UNCHANGED <<audio, untimed_packets, packets_read, undecoded, inlen, decoded, times, ring, unit, device>>

(* ... and its samples put into the ring when they fit, and there is not    *)
(* half a second of them waiting already.                                   *)

refill_buffer ==
  /\ adec = "refill" /\ adec' = "put"
  /\ Len(ring) + Len(decoded) <= PcmSize /\ Len(device) + Len(ring) < HalfSecond
  /\ ring' = ring \o decoded /\ decoded' = <<>>
  /\ UNCHANGED <<audio, untimed_packets, packets_read, undecoded, inlen, rest, times, unit, device, sound>>

decode_loop ==
  /\ adec = "put" /\ adec' = IF inlen > 0 THEN "decode" ELSE "read"
  /\ times' = [times EXCEPT !.cache_size = 0]
  /\ UNCHANGED <<audio, untimed_packets, packets_read, undecoded, inlen, rest, decoded, ring, unit, device, sound>>

(* The output's thread reads a unit, or what there is of one, and writes it *)
(* to its device, which takes what it has room for, or nothing; what it did *)
(* not take is offered again, before more is read.                          *)

audio_output_read ==
  /\ unit = <<>> /\ ring # <<>>
  /\ LET n == IF Len(ring) < UnitSize THEN Len(ring) ELSE UnitSize
     IN unit' = SubSeq(ring, 1, n) /\ ring' = SubSeq(ring, n + 1, Len(ring))
  /\ UNCHANGED <<audio, untimed_packets, loop_vars, device>>

audio_output_write ==
  /\ \E n \in 1 .. Len(unit) :
       /\ Len(device) + n <= DeviceSize
       /\ device' = device \o SubSeq(unit, 1, n) /\ unit' = SubSeq(unit, n + 1, Len(unit))
  /\ UNCHANGED <<audio, untimed_packets, loop_vars, ring>>

play_sample ==
  /\ device # <<>> /\ device' = Tail(device)
  /\ UNCHANGED <<audio, untimed_packets, loop_vars, ring, unit>>

AdecNext ==
  \/ read_first_frame \/ audio_read_frame \/ repack_frame
  \/ ffmpeg_adec_decode \/ count_decoded \/ decode_nothing \/ need_more_data
  \/ refill_buffer \/ decode_loop \/ audio_output_read \/ audio_output_write
  \/ play_sample

AdecSpec == audio_decoder_init /\ [][AdecNext]_adec_vars

-----------------------------------------------------------------------------
(* What the host is told.                                                   *)

\* mutant: the samples that are not yet in the ring count as heard
SinceCurrent_cache_heard == times.buffer_size - Len(ring)

\* What the current packet gave, without what still has to be heard of it.
SinceCurrent == times.buffer_size - Len(ring) - times.cache_size

audio_decoder_get_pts ==
  IF times.first = -1 THEN -1
  ELSE IF Invalid(times.current)
       THEN times.last_valid + times.cache_size + times.buffer_size - Len(ring) + times.first
       ELSE Max({0, times.current + SinceCurrent})

audio_get_current_pts ==
  LET pts == audio_decoder_get_pts
      latency == Len(device)
  IN IF pts = -1 THEN -1 ELSE IF latency < pts THEN pts - latency ELSE 0

-----------------------------------------------------------------------------
ToHear == device \o unit \o ring \o decoded
Longest == Max({Length(audio.packets[i]) : i \in DOMAIN audio.packets})

(* The time of the sound is ahead of the sample heard next by exactly what  *)
(* the output holds back, at most a unit: what it has read is no longer in  *)
(* the ring and not yet in the device, and counts as heard.  Nothing else   *)
(* puts it off, whichever of the loop, the output and the device is ahead:  *)
(* five counters of three threads add up to it.  While the loop is between  *)
(* two of their updates it is at most a packet off; once samples were lost  *)
(* it may be too late by them, never too early.                             *)
SoundTimed ==
  ToHear # <<>> /\ sound # "repeated" =>
    LET Between == adec \in {"repack", "count", "put"}
        Off == audio_get_current_pts - Head(ToHear) - Len(unit)
    IN /\ Len(unit) <= UnitSize
       /\ IF sound = "whole"
          THEN IF Between THEN Off \in -Longest .. Longest ELSE Off = 0
          ELSE Between \/ Off >= 0
=============================================================================
