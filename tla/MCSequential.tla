--------------------------- MODULE MCSequential ----------------------------
(* The parts that one thread at a time works on.  They share nothing, so a  *)
(* behaviour is about one of them, its subject, and the others stay as they *)
(* were created.  The ring: small enough that every pointer alias and every *)
(* split is met, and transfers longer than the ring.  The list: two         *)
(* callers, so that both directions of the walk are taken, and positions    *)
(* beyond its end.  The AAC demuxer: files of up to six pieces, frames of   *)
(* two sizes and junk between them that does and does not hold a 0xFF, one  *)
(* with a header whose sampling rate is not one; files of 7350 Hz; and      *)
(* files that begin with junk, with frames enough for the probe behind it.  *)
(* The video decoder: streams with reordered pictures and with packed ones. *)
(* The audio decoder: streams that begin at 0 and later, with packets of    *)
(* different lengths, one with a packet of two frames.                      *)
EXTENDS ByteRing, LinkedQueue, AacDemuxer, VideoDecoder, AudioDecoder, TLC

CONSTANT Subjects   \* the parts a run is about

VARIABLE subject

MCNodes == Permutations(Node)
MCChunks == UNION {[1 .. n -> Byte] : n \in 0 .. Size + 1}
MCRequests == 0 .. Size + 1

ShortFrame == [len |-> 9, sr |-> 4]
LongFrame == [len |-> 12, sr |-> 4]
SlowFrame == [len |-> 9, sr |-> 12]
PlainJunk == [junk |-> <<1>>]
SyncJunk == [junk |-> <<255, 241, 48, 2, 255, 7>>]
MCFrames == {ShortFrame, LongFrame}
MCPiece == MCFrames \cup {PlainJunk, SyncJunk}
MCPieces ==
  {<<f, g>> : f \in MCPiece \ {SyncJunk}, g \in MCPiece} \cup
  {<<SlowFrame, SlowFrame, SlowFrame>> \o s : s \in {<<>>, <<SlowFrame>>, <<PlainJunk>>}} \cup
  {<<PlainJunk, f, ShortFrame, LongFrame>> \o s : f \in MCFrames, s \in {<<>>, <<ShortFrame>>, <<SyncJunk>>}} \cup
  {<<f, g, h>> \o s : f, g, h \in MCFrames, s \in UNION {[1 .. n -> MCPiece] : n \in 0 .. 3}}

MCVideos == {<<{1}, {3}, {2}>>, <<{1}, {4}, {2}, {3}, {7}, {5}, {6}>>, <<{1, 2}, {4, 3}, {5}, {6}, {7}, {8}>>}

MCAudios == {[first |-> 0, packets |-> <<<<2>>, <<1>>, <<3>>, <<2>>>>],
             [first |-> 5, packets |-> <<<<1>>, <<2>>, <<2, 1>>, <<2>>>>]}

MCTimestamps == {0, 1, 500000, 1000000, 2500000}

SequentialInit ==
  /\ Init /\ queue_new
  /\ subject \in Subjects
  /\ IF subject = "aac" THEN AacInit ELSE AacIdle
  /\ IF subject = "video" THEN VdecInit
     ELSE VdecIdle /\ vdec = "top" /\ Len(video) = 3 /\ ~pts_mode
  /\ audio_decoder_init /\ (subject # "audio" => audio.first = 0)
  /\ subject # "ring" => data = [c \in Cells |-> CHOOSE b \in Byte : TRUE]

SequentialNext ==
  /\ UNCHANGED subject
  /\ \/ subject = "ring" /\ Next /\ UNCHANGED <<queue_vars, aac_vars, vdec_vars, adec_vars>>
     \/ subject = "list" /\ QueueNext /\ UNCHANGED <<vars, aac_vars, vdec_vars, adec_vars>>
     \/ subject = "aac" /\ AacNext /\ UNCHANGED <<vars, queue_vars, vdec_vars, adec_vars>>
     \/ subject = "video" /\ VdecNext /\ UNCHANGED <<vars, queue_vars, aac_vars, adec_vars>>
     \/ subject = "audio" /\ AdecNext /\ UNCHANGED <<vars, queue_vars, aac_vars, vdec_vars>>

SequentialSpec ==
  SequentialInit /\ [][SequentialNext]_<<subject, vars, queue_vars, aac_vars, vdec_vars, adec_vars>>
=============================================================================
