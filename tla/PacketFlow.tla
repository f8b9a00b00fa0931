----------------------------- MODULE PacketFlow -----------------------------
(***************************************************************************)
(* dtport.c, dt_packet_queue.c and player_buffering_check: the packets of a *)
(* file on their way from the demuxer through the queues of the port to the *)
(* decoders and the output, the limits of the queues, and the check that    *)
(* stops the output when a network source has left too little in them.      *)
(*                                                                          *)
(* The IO thread holds one packet and offers it until its queue takes it,   *)
(* so a full queue of one stream keeps the other streams waiting as well.   *)
(* The k-th packet of a stream is the number k.                             *)
(***************************************************************************)
EXTENDS Integers, Sequences

CONSTANTS
  Media,      \* the streams of the file: a subset of "video", "audio", "sub"
  Stream,     \* the streams that are played: has_video, has_audio, has_sub
  Total,      \* packets of each stream
  Skew,       \* how far the file lets one stream run ahead of another
  Size,       \* the size of a packet of each stream
  MaxNum,     \* port.audio_max_num, port.video_max_num
  MaxSize,    \* port.audio_max_size, port.video_max_size
  Enter,      \* ABUF_ENTER_SIZE, VBUF_ENTER_SIZE
  Exit,       \* ABUF_EXIT_SIZE, VBUF_EXIT_SIZE
  Ahead,      \* decoded packets the PCM ring or the picture queue holds
  Network,    \* the file is read from a network
  MaxSeeks,   \* bound: seeks to the start of the file
  NoPacket

AV == {"audio", "video"}

ASSUME PacketFlowAssumption ==
  /\ Media \subseteq AV \cup {"sub"}
  /\ Stream \subseteq Media
  /\ Stream \cap AV # {}
  /\ Total \in [Media -> Nat] /\ Size \in [Media -> Nat \ {0}]
  /\ MaxNum \in [AV -> Nat \ {0}] /\ MaxSize \in [AV -> Nat \ {0}]
  /\ Enter \in [AV -> Nat] /\ Exit \in [AV -> Nat]
  /\ {Ahead, Skew} \subseteq Nat \ {0}
  /\ Network \in BOOLEAN
  /\ MaxSeeks \in Nat
  /\ NoPacket \notin Media

VARIABLES
  pos,       \* packets of each stream the demuxer has delivered
  held,      \* the stream of the packet the IO thread holds
  queue,     \* queue_audio, queue_video, queue_subtitle
  decoded,   \* decoded and not yet shown
  shown,     \* packets of each stream that have been shown
  pstatus,   \* "RUNNING" or "BUFFERING"
  eof_flag,  \* ctrl_info.eof_flag; nothing resets it
  seeks

vars == <<pos, held, queue, decoded, shown, pstatus, eof_flag, seeks>>

Init ==
  /\ pos = [m \in Media |-> 0]
  /\ held = NoPacket
  /\ queue = [m \in Stream |-> <<>>]
  /\ decoded = [m \in Stream |-> <<>>]
  /\ shown = [m \in Stream |-> 0]
  /\ pstatus = "RUNNING"
  /\ eof_flag = FALSE
  /\ seeks = 0

-----------------------------------------------------------------------------
(* The IO thread                                                            *)

player_read_frame(m) ==
  /\ held = NoPacket
  /\ pos[m] < Total[m]
  /\ \A n \in Media : pos[n] < Total[n] => pos[m] < pos[n] + Skew
  /\ pos' = [pos EXCEPT ![m] = @ + 1]
  /\ held' = m
  /\ UNCHANGED <<queue, decoded, shown, pstatus, eof_flag, seeks>>

read_eof ==
  /\ held = NoPacket
  /\ pos = Total
  /\ ~eof_flag
  /\ eof_flag' = TRUE
  /\ UNCHANGED <<pos, held, queue, decoded, shown, pstatus, seeks>>

Bytes(m) == Len(queue[m]) * Size[m]

(* The number of packets of the video queue is compared with video_max_size.*)
video_write_enable == "video" \in Stream /\ Len(queue["video"]) < MaxSize["video"]
audio_write_enable == "audio" \in Stream /\ Len(queue["audio"]) < MaxNum["audio"]

(* port_write_frame and packet_queue_put let a packet of stream m in.       *)
Accepts(m) ==
  /\ audio_write_enable \/ video_write_enable
  /\ m \in AV => Bytes(m) < MaxSize[m]

(* Mutant of write_frame: a packet that is not let in is dropped.           *)
write_frame_once ==
  /\ held # NoPacket
  /\ queue' = IF held \in Stream /\ Accepts(held)
              THEN [queue EXCEPT ![held] = Append(@, pos[held])]
              ELSE queue
  /\ held' = NoPacket
  /\ UNCHANGED <<pos, decoded, shown, pstatus, eof_flag, seeks>>

(* Mutant of write_frame: it waits for room in every queue.                 *)
write_frame_all_or_none ==
  /\ held # NoPacket
  /\ \A m \in Stream \cap AV : Accepts(m)
  /\ queue' = IF held \in Stream
              THEN [queue EXCEPT ![held] = Append(@, pos[held])]
              ELSE queue
  /\ held' = NoPacket
  /\ UNCHANGED <<pos, decoded, shown, pstatus, eof_flag, seeks>>

(* A packet of a stream that is not played is let go, one that is not let   *)
(* in is offered again.                                                     *)
write_frame ==
  /\ held # NoPacket
  /\ IF held \in Stream
     THEN Accepts(held) /\ queue' = [queue EXCEPT ![held] = Append(@, pos[held])]
     ELSE UNCHANGED queue
  /\ held' = NoPacket
  /\ UNCHANGED <<pos, decoded, shown, pstatus, eof_flag, seeks>>

-----------------------------------------------------------------------------
(* The decoders take what the output has room for, also while it is paused. *)

port_read_frame(m) ==
  /\ queue[m] # <<>>
  /\ Len(decoded[m]) < Ahead
  /\ decoded' = [decoded EXCEPT ![m] = Append(@, Head(queue[m]))]
  /\ queue' = [queue EXCEPT ![m] = Tail(@)]
  /\ UNCHANGED <<pos, held, shown, pstatus, eof_flag, seeks>>

render(m) ==
  /\ pstatus = "RUNNING"
  /\ decoded[m] # <<>>
  /\ shown' = [shown EXCEPT ![m] = Head(decoded[m])]
  /\ decoded' = [decoded EXCEPT ![m] = Tail(@)]
  /\ UNCHANGED <<pos, held, queue, pstatus, eof_flag, seeks>>

-----------------------------------------------------------------------------
(* player_buffering_check                                                   *)

(* host_get_state: the level of a stream that is not played is -1.          *)
Cache(m) == IF m \in Stream THEN Bytes(m) ELSE -1

need_enter == ~eof_flag /\ \A m \in AV : Cache(m) <= Enter[m]
need_exit == eof_flag \/ \A m \in AV : Cache(m) >= Exit[m]

player_buffering_check ==
  /\ Network
  /\ \/ need_enter /\ pstatus = "RUNNING" /\ pstatus' = "BUFFERING"
     \/ need_exit /\ pstatus = "BUFFERING" /\ pstatus' = "RUNNING"
  /\ UNCHANGED <<pos, held, queue, decoded, shown, eof_flag, seeks>>

(* A seek to the start: the host is rebuilt, the packet held is dropped.    *)
(* player_seekto ends a BUFFERING; see Player for its steps.                *)
seek ==
  /\ seeks < MaxSeeks
  /\ seeks' = seeks + 1
  /\ pos' = [m \in Media |-> 0]
  /\ held' = NoPacket
  /\ queue' = [m \in Stream |-> <<>>]
  /\ decoded' = [m \in Stream |-> <<>>]
  /\ shown' = [m \in Stream |-> 0]
  /\ pstatus' = "RUNNING"
  /\ UNCHANGED eof_flag

-----------------------------------------------------------------------------

io_thread == read_eof \/ write_frame \/ \E m \in Media : player_read_frame(m)

Next ==
  \/ io_thread
  \/ \E m \in Stream : port_read_frame(m)
  \/ \E m \in Stream : render(m)
  \/ player_buffering_check
  \/ seek

Spec == Init /\ [][Next]_vars

(* Every thread goes on; the check is made three times a second, so a       *)
(* condition it looks for may come and go unseen.                           *)
Fairness ==
  /\ WF_vars(io_thread)
  /\ \A m \in Stream : WF_vars(port_read_frame(m)) /\ WF_vars(render(m))
  /\ WF_vars(player_buffering_check)

FairSpec == Spec /\ Fairness

-----------------------------------------------------------------------------

TypeOK ==
  /\ pos \in [Media -> Nat]
  /\ held \in Media \cup {NoPacket}
  /\ queue \in [Stream -> Seq(Nat)]
  /\ decoded \in [Stream -> Seq(Nat)]
  /\ shown \in [Stream -> Nat]
  /\ pstatus \in {"RUNNING", "BUFFERING"}
  /\ eof_flag \in BOOLEAN
  /\ seeks \in 0 .. MaxSeeks

(* What is between the demuxer and the output of stream m, oldest first.    *)
UnderWay(m) ==
  decoded[m] \o queue[m] \o (IF held = m THEN <<pos[m]>> ELSE <<>>)

(* player_io_thread, packet_queue_put, packet_queue_get: no packet is lost, *)
(* repeated or overtaken, whichever queues were full on the way, and none   *)
(* from before a seek turns up after it.                                    *)
InOrder ==
  \A m \in Stream : UnderWay(m) = [k \in 1 .. pos[m] - shown[m] |-> shown[m] + k]

(* packet_queue_put: a queue outgrows its limit by less than one packet.    *)
QueueBounded == \A m \in Stream \cap AV : Bytes(m) < MaxSize[m] + Size[m]

(* The output waits for every queue to have enough, and the IO thread with  *)
(* a packet in its hand for a queue that has too much: ABUF_EXIT_SIZE and   *)
(* VBUF_EXIT_SIZE are not reached together, because one stream is much      *)
(* heavier than the other or is alone in the file.  Only a seek ends this.  *)
StarveEachOther ==
  /\ pstatus = "BUFFERING" /\ ~need_exit
  /\ held \in Stream /\ ~Accepts(held)
  /\ \A m \in Stream : queue[m] = <<>> \/ Len(decoded[m]) >= Ahead

(* The IO thread, the decoders and the check together: a file that is being *)
(* read is shown to its end, whatever stream keeps which other waiting,     *)
(* unless its queues starve each other, and in no other way than that.      *)
PlaysToEnd ==
  (\E m \in Media : pos[m] > 0) ~> (\A m \in Stream : shown[m] = Total[m]) \/ StarveEachOther

(* dtp_av.h:26-27, DTP_EVENTS_BUFFERING_START and DTP_EVENTS_BUFFERING_END: *)
(* a buffering that starts ends.                                            *)
BufferingEnds == pstatus = "BUFFERING" ~> pstatus = "RUNNING"
=============================================================================
