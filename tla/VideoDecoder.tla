---------------------------- MODULE VideoDecoder ----------------------------
(* video_decode_loop with vd_ffmpeg: packets go into the codec in decoding  *)
(* order and pictures come out in the order they are shown, some packets    *)
(* later; each picture gets its time and goes to the picture queue.  (When  *)
(* the loop may run is in VideoService, what it does before the first       *)
(* picture is shown in AvStartup.)                                          *)
(*                                                                          *)
(* A picture is its number in the order of showing, a packet the set of     *)
(* its pictures: one as a rule, two where they are packed, and none where   *)
(* the codec cannot decode it.  The codec is libavcodec's, known here by    *)
(* its send and receive calls: it keeps Delay pictures back until it is     *)
(* told that there are no more packets.                                     *)
EXTENDS Integers, Sequences, FiniteSetsExt

CONSTANTS Videos,   \* the streams: sequences of packets
          Delay,    \* the pictures the codec keeps back
          Untimed,  \* the sets of pictures that may come without a time
          Every,    \* the time from one picture to the next
          DurInc    \* dur_inc: the same with the frame rate cut to an integer

ASSUME DecoderAssumption ==
  /\ \A v \in Videos : v \in Seq(SUBSET Nat)
  /\ Delay \in Nat /\ {Every, DurInc} \subseteq Nat \ {0}

\* A picture is in one packet, and at most Delay of those shown after it are
\* decoded before it: that is what the codec's delay is.
Sent(v, k) == UNION {v[i] : i \in 1 .. k}

ASSUME DelayAssumption ==
  \A v \in Videos :
    /\ \A i, j \in DOMAIN v : i # j => v[i] \cap v[j] = {}
    /\ \E last \in 0 .. Cardinality(Sent(v, Len(v))) : Sent(v, Len(v)) = 1 .. last
    /\ \A k \in DOMAIN v : \A n \in Sent(v, Len(v)) \ Sent(v, k) :
         Cardinality({x \in Sent(v, k) : x > n}) <= Delay

NoPts == -1000   \* DT_NOPTS_VALUE: far below every time

VARIABLES
  video,        \* the stream
  untimed,      \* the pictures of it that have no time
  pts_mode,     \* video_pts_mode: count the times, do not read them
  next_packet,  \* the packets read so far
  packet_pending,
  held,         \* the pictures inside the codec
  vdec,         \* where the loop is
  no_packet,    \* this round found no packet
  taken_out,    \* the picture it holds
  pts_first,
  pts_current,
  pushed        \* what went into the picture queue

vdec_vars == <<video, untimed, pts_mode, next_packet, packet_pending, held, vdec, no_packet, taken_out,
               pts_first, pts_current, pushed>>
streamVars == <<video, untimed, pts_mode>>
timeVars == <<pts_first, pts_current>>

\* A codec that was found and opened holds nothing.
ffmpeg_vdec_init == held = {}

VdecIdle ==
  /\ video \in Videos /\ pts_mode \in BOOLEAN /\ untimed \in Untimed /\ ffmpeg_vdec_init
  /\ next_packet = 0 /\ packet_pending = FALSE
  /\ no_packet = FALSE /\ taken_out = 0
  /\ pts_first = NoPts /\ pts_current = NoPts /\ pushed = <<>>

VdecInit == VdecIdle /\ vdec = "top"

-----------------------------------------------------------------------------
(* A round: a packet is read unless one is pending ...                      *)

read_packet ==
  /\ vdec = "top" /\ ~packet_pending /\ next_packet < Len(video)
  /\ next_packet' = next_packet + 1 /\ packet_pending' = TRUE
  /\ no_packet' = FALSE /\ vdec' = "send"
  /\ UNCHANGED <<streamVars, held, taken_out, timeVars, pushed>>

pending_packet ==
  /\ vdec = "top" /\ packet_pending
  /\ no_packet' = FALSE /\ vdec' = "send"
  /\ UNCHANGED <<streamVars, next_packet, packet_pending, held, taken_out, timeVars, pushed>>

\* ... and none may be there at any time, at the end there is none.  Before
\* the first picture the loop then only waits.
read_nothing ==
  /\ vdec = "top" /\ ~packet_pending /\ pts_first # NoPts
  /\ no_packet' = TRUE /\ vdec' = "receive"
  /\ UNCHANGED <<streamVars, next_packet, packet_pending, held, taken_out, timeVars, pushed>>

(* ... it is sent ...                                                       *)

Ready == Cardinality(held) > Delay

\* mutant: the packet is freed whether the codec took it or not
PendingAfter_freed(taken) == FALSE

\* A packet that was not taken is kept for the next round.
PendingAfter(taken) == ~taken

\* The codec refuses a packet when a picture is waiting, and always one it
\* cannot decode.
send_packet ==
  /\ vdec = "send" /\ vdec' = "receive"
  /\ \E taken \in BOOLEAN :
       /\ ~taken => Ready \/ video[next_packet] = {}
       /\ taken => video[next_packet] # {}
       /\ held' = IF taken THEN held \cup video[next_packet] ELSE held
       /\ packet_pending' = PendingAfter(taken)
  /\ UNCHANGED <<streamVars, next_packet, no_packet, taken_out, timeVars, pushed>>

(* ... and one picture taken out, if there is one.                          *)

receive_frame ==
  /\ vdec = "receive"
  /\ IF Ready
     THEN taken_out' = Min(held) /\ held' = held \ {Min(held)} /\ vdec' = "push"
     ELSE vdec' = "empty" /\ UNCHANGED <<taken_out, held>>
  /\ UNCHANGED <<streamVars, next_packet, packet_pending, no_packet, timeVars, pushed>>

receive_failed ==
  /\ vdec = "empty" /\ vdec' = "top"
  /\ UNCHANGED <<streamVars, next_packet, packet_pending, held, no_packet, taken_out, timeVars, pushed>>

\* A picture's time is its place in the stream's time base, exchanged to the
\* player's; one without a time keeps none.
pts_exchange(place) == IF place = NoPts THEN place ELSE place * Every
PictureTime == pts_exchange(IF taken_out \in untimed THEN NoPts ELSE taken_out)

\* The first picture decides where counting begins; a counted time follows the
\* last counted one, not the last one shown.
First == pushed = <<>>
Counted == ~First /\ (pts_mode \/ PictureTime = NoPts)
Pts == IF Counted THEN pts_current + DurInc ELSE PictureTime

push_picture ==
  /\ vdec = "push" /\ vdec' = "top" /\ taken_out' = 0
  /\ pushed' = Append(pushed, [picture |-> taken_out, pts |-> Pts])
  /\ pts_first' = IF First THEN Pts ELSE pts_first
  /\ pts_current' = IF First \/ Counted THEN Pts ELSE pts_current
  /\ UNCHANGED <<streamVars, next_packet, packet_pending, held, no_packet>>

VdecNext ==
  \/ read_packet \/ pending_packet \/ read_nothing \/ send_packet
  \/ receive_frame \/ receive_failed \/ push_picture

VdecSpec == VdecInit /\ [][VdecNext]_vdec_vars /\ WF_vdec_vars(VdecNext)

-----------------------------------------------------------------------------
(* Whatever packets the codec refuses and however often the port runs dry,  *)
(* the pictures come out one after the other as they are to be shown, none  *)
(* missing between two of them, and their times grow, read from the stream  *)
(* or counted from the frame rate.                                          *)
PicturesInOrder ==
  \A i \in DOMAIN pushed :
    /\ pushed[i].picture = i
    /\ i > 1 => pushed[i].pts > pushed[i - 1].pts

(* "no data left, maybe eof, need to flush left data": once a round without *)
(* packet at the end of the stream gets nothing out of the codec, there is  *)
(* nothing left in it.                                                      *)
LeftFramesFlushed ==
  vdec = "empty" /\ no_packet /\ next_packet = Len(video) => held = {}
=============================================================================
