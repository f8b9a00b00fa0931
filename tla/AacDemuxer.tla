----------------------------- MODULE AacDemuxer -----------------------------
(***************************************************************************)
(* demuxer_aac.c over a file stream (stream_file.c): an ADTS file is probed *)
(* and opened, then read frame by frame, with seeks in between.             *)
(*                                                                          *)
(* Files are sequences of bytes, built from pieces so that the model knows  *)
(* where the frames really are: a frame is [len |-> n, sr |-> the index of  *)
(* its sampling rate], anything else is [junk |-> bytes].  A frame lasts    *)
(* one unit of time (1024 samples).  The whole file is in the probe buffer. *)
(***************************************************************************)
EXTENDS Integers, Sequences, SequencesExt, FiniteSets

CONSTANTS
  Pieces,      \* the files: a set of sequences of pieces
  Timestamps,  \* the times that are sought, in microseconds
  Rate,        \* frames per second: samplerate / 1024
  Many         \* the frames in a row that convince the probe anywhere (500)

IsFrame(piece) == "len" \in DOMAIN piece

(* A frame has more than its header.  A file has one sampling rate, and     *)
(* what stands at its head and looks like a header is one.                  *)
ASSUME AacAssumption ==
  /\ Timestamps \subseteq Nat
  /\ {Rate, Many} \subseteq Nat \ {0}
  /\ \A s \in Pieces :
       /\ \A i \in DOMAIN s : IsFrame(s[i]) => s[i].len \in 9..2047 /\ s[i].sr \in 0..12
       /\ \A i, j \in DOMAIN s : IsFrame(s[i]) /\ IsFrame(s[j]) => s[i].sr = s[j].sr
       /\ IsFrame(s[1]) \/ s[1].junk[1] # 255

VARIABLES
  pieces,     \* the file, piece by piece
  file,       \* its bytes
  passes,     \* what a reader hands over: a "packet", as demuxer_aac.c declares,
              \* or the address of its "pointer", as demuxer_wrapper.h:37 does
  accepted,   \* what demuxer_aac_probe said of its first bytes
  ctx,        \* "closed", "open", "refused", or "crashed": division by zero
  duration,   \* aac_ctx->duration, in seconds
  pos, eof,   \* info->cur_pos and info->eof_flag of the stream
  last,       \* aac_ctx->last_pts, in frames
  packet,     \* what was last written through the argument of the read: where
              \* the frame starts in the file and its pts
  given,      \* what the reader's pointer then is: of a "packet", or of the
              \* "bytes" of the frame, the first field that was written over it
  expected    \* history: the number of the frame to come, counted from 1

aac_file == <<pieces, file, passes, accepted>>
aac_vars == <<aac_file, ctx, duration, pos, eof, last, packet, given, expected>>

NoPacket == [at |-> -1, pts |-> -1]
Microseconds == 1000000

-----------------------------------------------------------------------------
(* Files                                                                    *)

Header(len, sr) ==
  <<255, 241, 64 + 4 * sr, 128, (len \div 8) % 256, (len % 8) * 32, 252, 0>>

Bytes(piece) ==
  IF IsFrame(piece) THEN Header(piece.len, piece.sr) \o [i \in 1..(piece.len - 8) |-> i]
  ELSE piece.junk

FileOf(s) == FlattenSeq([i \in DOMAIN s |-> Bytes(s[i])])

(* Where the frames start, counted from 0.                                  *)
Starts ==
  {Len(FileOf(SubSeq(pieces, 1, i - 1))) : i \in {j \in DOMAIN pieces : IsFrame(pieces[j])}}

FileSize == Len(file)

At(p) == file[p + 1]

-----------------------------------------------------------------------------
(* aac_parse_frame: the length of the frame whose header starts at p, 0 if  *)
(* there is none; the number of its blocks.                                 *)

IsSync(c1, c2) == c1 = 255 /\ (c2 \div 16) = 15 /\ (c2 \div 2) % 4 = 0

aac_parse_frame(p) ==
  IF ~IsSync(At(p), At(p + 1)) \/ (At(p + 2) \div 4) % 16 > 11 THEN 0
  ELSE (At(p + 3) % 4) * 2048 + At(p + 4) * 8 + At(p + 5) \div 32

Blocks(p) == IF (At(p + 6) \div 2) % 2 = 1 THEN 3 ELSE 1

-----------------------------------------------------------------------------
(* demuxer_aac_probe: how many frames follow one another from p, up to the  *)
(* last place where a header fits, and where that ends; a frame may not be  *)
(* shorter than 7 bytes, and its sampling rate is not looked at.            *)

End == FileSize - 7

ProbeSize(p) == (At(p + 3) % 4) * 2048 + At(p + 4) * 8 + At(p + 5) \div 32

Run ==
  LET run[p \in 0..FileSize] ==
        IF p >= End \/ ~IsSync(At(p), At(p + 1)) \/ ProbeSize(p) < 7 THEN [frames |-> 0, at |-> p]
        ELSE LET rest == run[IF ProbeSize(p) < End - p THEN p + ProbeSize(p) ELSE End]
             IN [rest EXCEPT !.frames = @ + 1]
  IN run

(* The longest run: the next is looked for behind the end of the last.      *)
LongestRun ==
  LET longest[p \in 0..FileSize] ==
        IF p >= End THEN 0
        ELSE LET rest == longest[Run[p].at + 1]
             IN IF rest > Run[p].frames THEN rest ELSE Run[p].frames
  IN longest[0]

demuxer_aac_probe == FileSize >= 10 /\ (Run[0].frames >= 3 \/ LongestRun > Many)

(* estimate_duration: the frames found in the probe buffer give the number  *)
(* of bytes per second, and that the duration of the file.  After a byte    *)
(* 0xFF that starts no header the search goes on with the byte behind it;   *)
(* after a header that does not parse, with the byte behind the sync word.  *)
SyncFrom(p) ==
  LET sync == {q \in p..(FileSize - 1) : At(q) = 255}
  IN IF sync = {} THEN FileSize ELSE CHOOSE q \in sync : \A r \in sync : q <= r

Estimate ==
  LET scan[p \in 0..FileSize] ==
        LET c == SyncFrom(p)
            len == aac_parse_frame(c)
        IN IF c + 2 >= End THEN [size |-> 0, time |-> 0]
           ELSE IF ~IsSync(At(c), At(c + 1)) THEN scan[c + 1]
           ELSE IF c + 8 + len >= End THEN [size |-> 0, time |-> 0]
           ELSE IF len = 0 THEN scan[c + 2]
           ELSE LET rest == scan[c + len]
                IN [size |-> rest.size + len, time |-> rest.time + Blocks(c)]
  IN scan[0]

Bitrate == (Estimate.size * Rate) \div Estimate.time

-----------------------------------------------------------------------------
AacInit ==
  /\ pieces \in Pieces
  /\ file = FileOf(pieces)
  /\ passes \in {"packet", "pointer"}
  /\ accepted = demuxer_aac_probe
  /\ ctx = "closed" /\ duration = 0
  /\ pos = 0 /\ eof = FALSE
  /\ last = 0
  /\ packet = NoPacket /\ given = "nothing"
  /\ expected = 1

(* The demuxer when no file is being looked at.                             *)
AacIdle ==
  /\ pieces = << >> /\ file = << >> /\ passes = "packet" /\ accepted = FALSE
  /\ ctx = "closed" /\ duration = 0 /\ pos = 0 /\ eof = FALSE /\ last = 0
  /\ packet = NoPacket /\ given = "nothing" /\ expected = 1

(* demuxer_aac_open: the file has to begin with a header.  Its size is      *)
(* divided by the bit rate, which is 0 when no frame could be parsed.       *)
demuxer_aac_open ==
  /\ accepted
  /\ ctx = "closed"
  /\ IF ~IsSync(At(0), At(1)) THEN ctx' = "refused" /\ UNCHANGED duration
     ELSE IF Estimate.time = 0 THEN ctx' = "crashed" /\ UNCHANGED duration
     ELSE ctx' = "open" /\ duration' = FileSize \div Bitrate
  /\ UNCHANGED <<aac_file, pos, eof, last, packet, given, expected>>

(* What a reader whose pointer was written over does is not defined.        *)
Reading == ctx = "open" /\ given # "bytes"

(* demuxer_aac_read_frame: the next header from p; a 0xFF that starts none  *)
(* is passed over with the byte behind it, and a header that does not parse *)
(* is read again from its third byte.  Without one it ends at the place     *)
(* where the bytes did not suffice.                                         *)
Found ==
  LET from[p \in 0..FileSize] ==
        LET c == SyncFrom(p)
        IN IF c + 1 >= FileSize THEN [frame |-> FALSE, at |-> c]
           ELSE IF ~IsSync(At(c), At(c + 1)) THEN from[c + 2]
           ELSE IF c + 8 > FileSize THEN [frame |-> FALSE, at |-> c]
           ELSE IF aac_parse_frame(c) = 0 THEN from[c + 2]
           ELSE [frame |-> TRUE, at |-> c]
  IN from

Lesser(a, b) == IF a < b THEN a ELSE b

(* The end of the file sets eof_flag only for a read that gets nothing: six *)
(* bytes of which some are there is a failure without an end.               *)
read_frame_failed ==
  /\ Reading /\ ~eof
  /\ LET f == Found[pos] IN
       /\ ~f.frame
       /\ pos' = FileSize
       /\ eof' = (f.at + 2 >= FileSize)
  /\ given' = "nothing"
  /\ UNCHANGED <<aac_file, ctx, duration, last, packet, expected>>

AfterFrame_too_far(c, len) == Lesser(c + 8 + len, FileSize)

(* What is left of the frame is read behind the 8 bytes that were parsed.   *)
AfterFrame(c, len) == Lesser(c + len, FileSize)

read_frame ==
  /\ Reading /\ ~eof
  /\ LET f == Found[pos] IN
       /\ f.frame
       /\ last' = last + Blocks(f.at)
       /\ packet' = [at |-> f.at, pts |-> last']
       /\ pos' = AfterFrame(f.at, aac_parse_frame(f.at))
       /\ eof' = (f.at + 8 = FileSize)
  /\ given' = IF passes = "packet" THEN "packet" ELSE "bytes"
  /\ expected' = expected + 1
  /\ UNCHANGED <<aac_file, ctx, duration>>

(* demuxer_aac_seek_frame: from the start of the file over as many frames   *)
(* as the time takes, byte by byte where there is no header.                *)
Skip ==
  LET skip[p \in 0..FileSize, nf \in Nat] ==
        IF nf = 0 THEN [pos |-> p, time |-> 0]
        ELSE IF p + 8 > FileSize THEN [pos |-> FileSize, time |-> 0]
        ELSE LET len == aac_parse_frame(p) IN
             IF len = 0 THEN skip[p + 1, nf]
             ELSE LET rest == skip[p + len, IF nf > Blocks(p) THEN nf - Blocks(p) ELSE 0]
                  IN [rest EXCEPT !.time = @ + Blocks(p)]
  IN skip

FramesIn(timestamp) == (timestamp * Rate) \div Microseconds

seek_frame ==
  \E t \in Timestamps :
    /\ Reading
    /\ LET s == Skip[0, FramesIn(t)] IN
         /\ pos' = s.pos
         /\ last' = s.time
         /\ eof' = FALSE
         /\ expected' = FramesIn(t) + 1
    /\ UNCHANGED <<aac_file, ctx, duration, packet, given>>

AacNext == demuxer_aac_open \/ read_frame \/ read_frame_failed \/ seek_frame

AacSpec == AacInit /\ [][AacNext]_aac_vars

-----------------------------------------------------------------------------
FrameNo(p) == Cardinality({s \in Starts : s <= p})

(* A file the probe accepts is opened if it begins with a header, and       *)
(* refused otherwise; there is a crash only where not one of its headers    *)
(* has a sampling rate that aac_parse_frame knows.  A file of equal frames  *)
(* gets its own duration (demuxer_aac.c:126-276).                           *)
ProbedOpens ==
  /\ ctx # "closed" => (ctx = "refused" <=> ~IsSync(At(0), At(1)))
  /\ ctx = "crashed" => \A i \in DOMAIN pieces : IsFrame(pieces[i]) => pieces[i].sr = 12
  /\ ctx = "open" /\ (\A i \in DOMAIN pieces : pieces[i] = pieces[1])
       => duration = Len(pieces) \div Rate

(* A probed file opens, and reading gives every frame of it, once and in    *)
(* order, whole and with the time of its place in the file, over junk       *)
(* between frames; after a seek it goes on with the frame of the time that  *)
(* was asked for, over junk as well (demuxer_aac.c:334-389 and :395-428).   *)
EveryFrameOnce ==
  /\ []ProbedOpens
  /\ [][packet' # packet =>
          /\ packet'.at \in Starts
          /\ packet'.pts = FrameNo(packet'.at)
          /\ FrameNo(packet'.at) = expected]_aac_vars

(* demuxer_aac.c:61 lists 7350 Hz among the rates of a file, and so does    *)
(* sr_index; no file the demuxer takes ends the program.                    *)
EveryRateOpens == ctx # "crashed"

(* demuxer_wrapper.h:37: read_frame is given the place of a pointer, and    *)
(* leaves the pointer of a packet there.                                    *)
FrameReachesReader == given # "bytes"

=============================================================================
