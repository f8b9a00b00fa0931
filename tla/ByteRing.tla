------------------------------ MODULE ByteRing ------------------------------
(***************************************************************************)
(* dt_buffer.c: the ring the audio decoder fills with PCM and the audio     *)
(* output drains.  Every operation holds the buffer's mutex from its first  *)
(* to its last statement, so each is one action.                            *)
(*                                                                          *)
(* Pointers are offsets from dbt->data.  The code never reduces them modulo *)
(* the size: either may come to rest at Size, the same place as 0, and the  *)
(* two branch tests of buf_get and buf_put must be right there too.         *)
(***************************************************************************)
EXTENDS Integers, Sequences

CONSTANTS Byte, Size, Chunks, Requests

ASSUME RingAssumption ==
  /\ Size \in Nat \ {0}
  /\ Byte # {}
  /\ Chunks \subseteq Seq(Byte)
  /\ Requests \subseteq Nat

VARIABLES
  data,      \* the allocated cells
  rd_ptr,    \* offset of the next byte to read
  wr_ptr,    \* offset of the next byte to write
  level,     \* the number of bytes held
  out,       \* the bytes the last call copied to its caller
  ret        \* the value the last call returned

vars == <<data, rd_ptr, wr_ptr, level, out, ret>>

Cells == 0 .. Size - 1

Least(a, b) == IF a <= b THEN a ELSE b

(* buf_init; malloc leaves the cells with any contents. *)
Init ==
  /\ data \in [Cells -> Byte]
  /\ rd_ptr = 0
  /\ wr_ptr = 0
  /\ level = 0
  /\ out = <<>>
  /\ ret = 0

buf_reinit ==
  /\ level' = 0
  /\ rd_ptr' = 0
  /\ wr_ptr' = 0
  /\ out' = <<>>
  /\ ret' = 0
  /\ UNCHANGED data

(* A transfer of len bytes from offset ptr is one memcpy when the other     *)
(* pointer lies ahead or the bytes fit before the end, else two.            *)
OneCopy(ptr, other, len) == other > ptr \/ len <= Size - ptr

Advance(ptr, other, len) ==
  IF OneCopy(ptr, other, len) THEN ptr + len ELSE len - (Size - ptr)

(* The cell the i-th byte (from 1) of a transfer uses. *)
Cell(ptr, other, len, i) ==
  IF OneCopy(ptr, other, len) \/ i <= Size - ptr
  THEN ptr + i - 1
  ELSE i - (Size - ptr) - 1

buf_get(n) ==
  LET len == Least(level, n) IN
  /\ ret' = len
  /\ out' = [i \in 1 .. len |-> data[Cell(rd_ptr, wr_ptr, len, i)]]
  /\ IF level = 0
     THEN UNCHANGED <<rd_ptr, level>>
     ELSE /\ rd_ptr' = Advance(rd_ptr, wr_ptr, len)
          /\ level' = level - len
  /\ UNCHANGED <<data, wr_ptr>>

(* Mutant of Index: the second memcpy starts again at in[0].                *)
IndexRestarts(ptr, other, len, c) == IF c >= ptr THEN c - ptr + 1 ELSE c + 1

(* Which byte of a transfer to ptr lands in cell c; outside 1 .. len: none. *)
Index(ptr, other, len, c) ==
  IF OneCopy(ptr, other, len) \/ c >= ptr
  THEN c - ptr + 1
  ELSE c + (Size - ptr) + 1

Stored(in, len) ==
  [c \in Cells |->
     IF Index(wr_ptr, rd_ptr, len, c) \in 1 .. len
     THEN in[Index(wr_ptr, rd_ptr, len, c)]
     ELSE data[c]]

buf_put(in) ==
  LET len == Least(Size - level, Len(in)) IN
  /\ ret' = len
  /\ out' = <<>>
  /\ IF level = Size
     THEN UNCHANGED <<data, wr_ptr, level>>
     ELSE /\ data' = Stored(in, len)
          /\ wr_ptr' = Advance(wr_ptr, rd_ptr, len)
          /\ level' = level + len
  /\ UNCHANGED rd_ptr

Next ==
  \/ \E in \in Chunks : buf_put(in)
  \/ \E n \in Requests : buf_get(n)
  \/ buf_reinit

Spec == Init /\ [][Next]_vars

-----------------------------------------------------------------------------

(* The counters stay inside the allocation and every call reports at most   *)
(* what it could move.                                                      *)
TypeOK ==
  /\ data \in [Cells -> Byte]
  /\ rd_ptr \in 0 .. Size
  /\ wr_ptr \in 0 .. Size
  /\ level \in 0 .. Size
  /\ out \in Seq(Byte)
  /\ ret \in 0 .. Size

(* dt_buffer.c keeps level beside two pointers and never recomputes one     *)
(* from the others: the write pointer must always be level bytes after the  *)
(* read pointer, going round at most once, whichever alias of offset 0 each *)
(* of them rests on.                                                        *)
PointersAgree ==
  wr_ptr \in {rd_ptr + level, rd_ptr + level - Size}

(* The live byte at distance i from the read pointer. *)
LiveCell(i) == IF rd_ptr + i < Size THEN rd_ptr + i ELSE rd_ptr + i - Size

Live == [i \in 1 .. level |-> data[LiveCell(i - 1)]]

Fifo == INSTANCE ByteQueue WITH queue <- Live

(* The ring is a FIFO: no byte the decoder put is lost, repeated or         *)
(* overtaken on its way to the output, whatever sizes the two sides use.    *)
ImplementsFifo == Fifo!Spec
=============================================================================
