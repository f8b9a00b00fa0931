------------------------- MODULE Sequential_proofs --------------------------
(* Proofs about the parts that one thread at a time works on: the ring of   *)
(* dt_buffer.c is a FIFO, the doubly linked list of dt_queue.c a deque, the *)
(* decoded pictures of dtvideo_decoder.c come in the order they are shown   *)
(* in, and the time that dtaudio_decoder.c tells is that of the sound that  *)
(* is heard.  The list and the sums of the audio decoder need induction:    *)
(* Induct has it as a fact about a set, from the least member of the rest.  *)
EXTENDS ByteRing, LinkedQueue, VideoDecoder, AudioDecoder, WellFoundedInduction,
        SequenceTheorems, FiniteSetTheorems, TLAPS

(* A set of naturals that has a member has a least one.                     *)
LEMMA HasLeast ==
  ASSUME NEW T \in SUBSET Nat, T # {}
  PROVE  \E x \in T : \A y \in T : x <= y
<1> DEFINE R == OpToRel(<, Nat)
<1>1. IsWellFoundedOn(R, Nat) BY NatLessThanWellFounded
<1>2. \A x, y \in Nat : x < y => <<x, y>> \in R BY DEF OpToRel
<1> HIDE DEF R
<1>3. PICK x \in T : \A y \in T : ~ (<<y, x>> \in R) BY <1>1, WFMin
<1>4. ASSUME NEW y \in T PROVE x <= y
  <2>1. ~(y < x) BY <1>2, <1>3
  <2> QED BY <2>1
<1> QED BY <1>4

(* Induction, as a fact about a set.                                        *)
LEMMA Induct ==
  ASSUME NEW S, 0 \in S, \A n \in Nat : n \in S => n + 1 \in S
  PROVE  Nat \subseteq S
<1> SUFFICES ASSUME ~(Nat \subseteq S) PROVE FALSE
  OBVIOUS
<1> DEFINE T == Nat \ S
<1>1. PICK x \in T : \A y \in T : x <= y BY HasLeast
<1>2. x \in Nat /\ x # 0 BY <1>1
<1>3. x - 1 \in Nat /\ x - 1 \notin T BY <1>1, <1>2
<1> QED BY <1>1, <1>2, <1>3

-----------------------------------------------------------------------------

(* The ring: its pointers and its level agree, and what lies between them is *)
(* what the FIFO holds.                                                     *)
IInv == TypeOK /\ PointersAgree

(* A get whose guards the invariant satisfies reads cells of the ring and   *)
(* leaves the read pointer inside it.                                       *)
LEMMA GetStep ==
  ASSUME IInv, NEW n \in Requests, buf_get(n)
  PROVE  IInv'
<1> USE RingAssumption
<1> DEFINE len == Least(level, n)
<1>1. /\ len \in 0 .. level
      /\ n \in Nat
  BY DEF IInv, TypeOK, Least
<1>2. \A i \in 1 .. len : Cell(rd_ptr, wr_ptr, len, i) \in Cells
  BY <1>1 DEF IInv, TypeOK, PointersAgree, Cell, OneCopy, Cells
<1>3. out' \in Seq(Byte)
  <2>1. out' = [i \in 1 .. len |-> data[Cell(rd_ptr, wr_ptr, len, i)]]
    BY DEF buf_get
  <2>2. \A i \in 1 .. len : data[Cell(rd_ptr, wr_ptr, len, i)] \in Byte
    BY <1>2 DEF IInv, TypeOK
  <2> HIDE DEF len
  <2>3. len \in Nat
    BY <1>1 DEF IInv, TypeOK
  <2> QED
    BY <2>1, <2>2, <2>3
<1>4. TypeOK'
  BY <1>1, <1>3 DEF buf_get, IInv, TypeOK, PointersAgree, Advance, OneCopy, Least
<1>5. PointersAgree'
  BY <1>1 DEF buf_get, IInv, TypeOK, PointersAgree, Advance, OneCopy, Least
<1> QED
  BY <1>4, <1>5 DEF IInv

(* The same for a put. *)
LEMMA PutStep ==
  ASSUME IInv, NEW in \in Chunks, buf_put(in)
  PROVE  IInv'
<1> USE RingAssumption
<1> DEFINE len == Least(Size - level, Len(in))
<1>0. /\ in \in Seq(Byte)
      /\ Len(in) \in Nat
      /\ \A i \in 1 .. Len(in) : in[i] \in Byte
  OBVIOUS
<1>1. /\ len \in 0 .. Size - level
      /\ len <= Len(in)
  BY <1>0 DEF IInv, TypeOK, Least
<1>2. data' \in [Cells -> Byte]
  <2>1. \A i \in 1 .. len : in[i] \in Byte
    BY <1>0, <1>1
  <2>2. Stored(in, len) \in [Cells -> Byte]
    BY <2>1 DEF Stored, IInv, TypeOK
  <2> QED
    BY <2>2 DEF buf_put, IInv, TypeOK
<1>3. <<>> \in Seq(Byte)
  OBVIOUS
<1>4. /\ ret' = len
      /\ out' = <<>>
      /\ rd_ptr' = rd_ptr
      /\ \/ level = Size /\ UNCHANGED <<data, wr_ptr, level>>
         \/ /\ level # Size
            /\ wr_ptr' = Advance(wr_ptr, rd_ptr, len)
            /\ level' = level + len
  BY DEF buf_put
<1> HIDE DEF len
<1>5. PointersAgree'
  <2>0. /\ Size \in Int /\ level \in Int /\ rd_ptr \in Int
        /\ wr_ptr \in Int /\ len \in Int
    BY <1>1 DEF IInv, TypeOK
  <2>1. CASE level = Size
    BY <2>1, <1>4 DEF IInv, PointersAgree
  <2>2. CASE level # Size /\ OneCopy(wr_ptr, rd_ptr, len)
    BY <2>0, <2>2, <1>4 DEF IInv, PointersAgree, Advance
  <2>3. CASE level # Size /\ ~OneCopy(wr_ptr, rd_ptr, len)
    BY <2>0, <2>3, <1>1, <1>4 DEF IInv, TypeOK, PointersAgree, Advance, OneCopy
  <2> QED
    BY <2>1, <2>2, <2>3
<1>6. TypeOK'
  BY <1>1, <1>2, <1>3, <1>4 DEF IInv, TypeOK, PointersAgree, Advance, OneCopy
<1> QED
  BY <1>5, <1>6 DEF IInv

(* The level and the two pointers of the ring agree in every reachable      *)
(* state, and stay inside the allocation.                                   *)
THEOREM RingInvariant == Spec => [](TypeOK /\ PointersAgree)
<1>1. Init => IInv
  BY RingAssumption DEF Init, IInv, TypeOK, PointersAgree
<1>2. IInv /\ [Next]_vars => IInv'
  <2> SUFFICES ASSUME IInv, [Next]_vars
               PROVE  IInv'
    OBVIOUS
  <2>1. CASE \E in \in Chunks : buf_put(in)
    BY <2>1, PutStep
  <2>2. CASE \E n \in Requests : buf_get(n)
    BY <2>2, GetStep
  <2>3. CASE buf_reinit
    BY <2>3, RingAssumption DEF buf_reinit, IInv, TypeOK, PointersAgree
  <2>4. CASE UNCHANGED vars
    BY <2>4 DEF vars, IInv, TypeOK, PointersAgree
  <2> QED
    BY <2>1, <2>2, <2>3, <2>4 DEF Next
<1> QED
  BY <1>1, <1>2, PTL DEF Spec, IInv

-----------------------------------------------------------------------------

(* Live is a sequence of level bytes. *)
LEMMA LiveSeq ==
  ASSUME IInv
  PROVE  /\ Len(Live) = level
         /\ \A i \in 1 .. level : /\ LiveCell(i - 1) \in Cells
                                  /\ Live[i] = data[LiveCell(i - 1)]
<1>1. \A i \in 1 .. level : LiveCell(i - 1) \in Cells
  BY RingAssumption DEF IInv, TypeOK, LiveCell, Cells
<1>2. level \in Nat
  BY RingAssumption DEF IInv, TypeOK
<1>3. \A i \in 1 .. level : data[LiveCell(i - 1)] \in Byte
  BY <1>1 DEF IInv, TypeOK
<1>4. Live \in Seq(Byte) /\ Len(Live) = level
  BY <1>2, <1>3 DEF Live
<1> QED
  BY <1>1, <1>4 DEF Live

(* A get takes exactly the oldest bytes and leaves the others in order. *)
LEMMA GetRefines ==
  ASSUME IInv, NEW n \in Requests, buf_get(n)
  PROVE  Fifo!Get(n)
<1> DEFINE len == Least(level, n)
<1>1. /\ level \in Nat /\ Size \in Nat /\ rd_ptr \in Nat /\ wr_ptr \in Nat
      /\ level <= Size /\ rd_ptr <= Size /\ wr_ptr <= Size
      /\ len \in Nat /\ len <= level
  BY RingAssumption DEF IInv, TypeOK, Least
<1>2. /\ ret' = len
      /\ out' = [i \in 1 .. len |-> data[Cell(rd_ptr, wr_ptr, len, i)]]
      /\ level' = level - len
      /\ data' = data
      /\ \/ level = 0 /\ rd_ptr' = rd_ptr
         \/ level # 0 /\ rd_ptr' = Advance(rd_ptr, wr_ptr, len)
  BY <1>1 DEF buf_get
<1>3. ret' = Fifo!Least(Len(Live), n)
  BY <1>2, LiveSeq DEF Least, Fifo!Least
<1> HIDE DEF len
<1>4. ASSUME NEW i \in 1 .. len
      PROVE  data[Cell(rd_ptr, wr_ptr, len, i)] = Live[i]
  <2>1. Cell(rd_ptr, wr_ptr, len, i) = LiveCell(i - 1)
    BY <1>1 DEF IInv, PointersAgree, Cell, OneCopy, LiveCell
  <2> QED
    BY <2>1, <1>1, LiveSeq
<1>5. out' = [i \in 1 .. ret' |-> Live[i]]
  BY <1>2, <1>4
<1>6. ASSUME NEW i \in 1 .. level - len
      PROVE  data'[LiveCell(i - 1)'] = Live[i + len]
  <2> DEFINE j == i + len
  <2>1. LiveCell(i - 1)' = LiveCell(j - 1)
    BY <1>1, <1>2 DEF IInv, PointersAgree, Advance, OneCopy, LiveCell
  <2>2. j \in 1 .. level
    BY <1>1
  <2> HIDE DEF j
  <2>3. Live[j] = data[LiveCell(j - 1)]
    BY <2>2, LiveSeq
  <2>4. data'[LiveCell(i - 1)'] = Live[j]
    BY <2>1, <2>3, <1>2
  <2> QED
    BY <2>4 DEF j
<1>7. Live' = [i \in 1 .. Len(Live) - ret' |-> Live[i + ret']]
  <2>1. Live' = [i \in 1 .. level - len |-> data'[LiveCell(i - 1)']]
    BY <1>2 DEF Live
  <2>2. Live' = [i \in 1 .. level - len |-> Live[i + len]]
    BY <2>1, <1>6
  <2> QED
    BY <2>2, <1>2, LiveSeq
<1> QED
  BY <1>3, <1>5, <1>7 DEF Fifo!Get

(* A put appends exactly the bytes it accepts and touches no live byte. *)
LEMMA PutRefines ==
  ASSUME IInv, NEW in \in Chunks, buf_put(in)
  PROVE  Fifo!Put(in)
<1> DEFINE len == Least(Size - level, Len(in))
<1>0. in \in Seq(Byte) /\ Len(in) \in Nat
  BY RingAssumption
<1>1. /\ level \in Nat /\ Size \in Nat /\ rd_ptr \in Nat /\ wr_ptr \in Nat
      /\ level <= Size /\ rd_ptr <= Size /\ wr_ptr <= Size
      /\ len \in Nat /\ level + len <= Size
  BY <1>0, RingAssumption DEF IInv, TypeOK, Least
<1>2. /\ ret' = len
      /\ out' = <<>>
      /\ level' = level + len
      /\ rd_ptr' = rd_ptr
      /\ \/ level = Size /\ data' = data /\ len = 0
         \/ level # Size /\ data' = Stored(in, len)
  BY <1>0, <1>1 DEF buf_put, Least
<1>3. ret' = Fifo!Least(Size - Len(Live), Len(in))
  BY <1>2, LiveSeq DEF Least, Fifo!Least
<1> HIDE DEF len
<1>4. ASSUME NEW i \in 1 .. level
      PROVE  data'[LiveCell(i - 1)] = Live[i]
  <2>1. LiveCell(i - 1) \in Cells /\ Live[i] = data[LiveCell(i - 1)]
    BY LiveSeq
  <2>2. level # Size => Index(wr_ptr, rd_ptr, len, LiveCell(i - 1)) \notin 1 .. len
    BY <1>1 DEF IInv, PointersAgree, Index, OneCopy, LiveCell
  <2> QED
    BY <2>1, <2>2, <1>2 DEF Stored
<1>5. ASSUME NEW i \in level + 1 .. level + len
      PROVE  data'[LiveCell(i - 1)] = in[i - level]
  <2>1. LiveCell(i - 1) \in Cells
    BY <1>1 DEF LiveCell, Cells
  <2>2. level # Size
    BY <1>1
  <2>3. Index(wr_ptr, rd_ptr, len, LiveCell(i - 1)) = i - level
    BY <1>1, <2>2 DEF IInv, PointersAgree, Index, OneCopy, LiveCell
  <2>4. i - level \in 1 .. len
    BY <1>1
  <2> QED
    BY <2>1, <2>2, <2>3, <2>4, <1>2 DEF Stored
<1>6. Live' = [i \in 1 .. Len(Live) + ret' |->
                 IF i <= Len(Live) THEN Live[i] ELSE in[i - Len(Live)]]
  <2>1. Live' = [i \in 1 .. level + len |-> data'[LiveCell(i - 1)']]
    BY <1>2 DEF Live
  <2>2. \A i \in 1 .. level + len : LiveCell(i - 1)' = LiveCell(i - 1)
    BY <1>2 DEF LiveCell
  <2>3. \A i \in 1 .. level + len :
          data'[LiveCell(i - 1)] = IF i <= level THEN Live[i] ELSE in[i - level]
    BY <1>1, <1>4, <1>5
  <2>4. Live' = [i \in 1 .. level + len |->
                   IF i <= level THEN Live[i] ELSE in[i - level]]
    BY <2>1, <2>2, <2>3
  <2> QED
    BY <2>4, <1>2, LiveSeq
<1> QED
  BY <1>2, <1>3, <1>6 DEF Fifo!Put

(* dt_buffer.c implements a bounded FIFO: whatever the decoder puts and the *)
(* output gets, in whatever chunk sizes, no byte is lost or reordered.      *)
THEOREM RingIsFifo == Spec => ImplementsFifo
<1>1. Init => Fifo!Init
  BY DEF Init, Fifo!Init, Live
<1>2. IInv /\ [Next]_vars => [Fifo!Next]_(Fifo!vars)
  <2> SUFFICES ASSUME IInv, [Next]_vars
               PROVE  [Fifo!Next]_(Fifo!vars)
    OBVIOUS
  <2>1. CASE \E in \in Chunks : buf_put(in)
    BY <2>1, PutRefines DEF Fifo!Next
  <2>2. CASE \E n \in Requests : buf_get(n)
    BY <2>2, GetRefines DEF Fifo!Next
  <2>3. CASE buf_reinit
    BY <2>3 DEF buf_reinit, Fifo!Next, Fifo!Clear, Live
  <2>4. CASE UNCHANGED vars
    BY <2>4 DEF vars, Fifo!vars, Live, LiveCell
  <2> QED
    BY <2>1, <2>2, <2>3, <2>4 DEF Next
<1>3. Spec => []IInv
  BY RingInvariant DEF IInv
<1> QED
  BY <1>1, <1>2, <1>3, PTL DEF Spec, ImplementsFifo, Fifo!Spec

-----------------------------------------------------------------------------
(* Walks: following links from a cell defines a function of the number of   *)
(* steps.                                                                   *)
Walk(g, n, a, nx) == g = [i \in 0 .. n |-> IF i = 0 THEN a ELSE nx[g[i - 1]]]

(* Every number of links can be followed.                                   *)
LEMMA WalksExist ==
  ASSUME NEW a, NEW nx
  PROVE  \A n \in Nat : \E g : Walk(g, n, a, nx)
<1> DEFINE S == {n \in Nat : \E g : Walk(g, n, a, nx)}
<1>1. 0 \in S
  <2> DEFINE g == [i \in 0 .. 0 |-> a]
  <2>1. Walk(g, 0, a, nx) BY DEF Walk
  <2> HIDE DEF g
  <2> QED BY <2>1
<1>2. ASSUME NEW n \in Nat, n \in S PROVE n + 1 \in S
  <2>1. PICK g : Walk(g, n, a, nx) BY <1>2
  <2> DEFINE h == [i \in 0 .. n + 1 |-> IF i = n + 1 THEN nx[g[n]] ELSE g[i]]
  <2>2. ASSUME NEW i \in 0 .. n + 1 PROVE h[i] = IF i = 0 THEN a ELSE nx[h[i - 1]]
    <3>1. CASE i = 0 BY <3>1, <2>1 DEF Walk
    <3>2. CASE i = n + 1 BY <3>2
    <3>3. CASE i # 0 /\ i # n + 1
      <4>1. i \in 0 .. n /\ i - 1 \in 0 .. n BY <3>3
      <4>2. g[i] = nx[g[i - 1]] BY <3>3, <4>1, <2>1 DEF Walk
      <4> QED BY <3>3, <4>1, <4>2
    <3> QED BY <3>1, <3>2, <3>3
  <2>3. h = [i \in 0 .. n + 1 |-> h[i]] OBVIOUS
  <2> HIDE DEF h
  <2>4. Walk(h, n + 1, a, nx) BY <2>2, <2>3 DEF Walk
  <2> QED BY <2>4
<1> HIDE DEF S
<1>3. Nat \subseteq S BY <1>1, <1>2, Induct
<1> QED BY <1>3 DEF S

(* Two walks from the same cell meet the same cells.                        *)
LEMMA WalksAgree ==
  ASSUME NEW a, NEW nx, NEW g, NEW h, NEW m \in Nat, NEW n \in Nat,
         Walk(g, m, a, nx), Walk(h, n, a, nx)
  PROVE  \A i \in Nat : i <= m /\ i <= n => g[i] = h[i]
<1> DEFINE S == {i \in Nat : i <= m /\ i <= n => g[i] = h[i]}
<1>1. 0 \in S BY DEF Walk
<1>2. ASSUME NEW i \in Nat, i \in S PROVE i + 1 \in S
  <2> SUFFICES ASSUME i + 1 <= m, i + 1 <= n PROVE g[i + 1] = h[i + 1]
    OBVIOUS
  <2>1. g[i + 1] = nx[g[i]] BY DEF Walk
  <2>2. h[i + 1] = nx[h[i]] BY DEF Walk
  <2>3. g[i] = h[i] BY <1>2
  <2> QED BY <2>1, <2>2, <2>3
<1> HIDE DEF S
<1>3. Nat \subseteq S BY <1>1, <1>2, Induct
<1> QED BY <1>3 DEF S

(* So the walks of every length are the beginnings of one function.         *)
LEMMA WalkOnward ==
  ASSUME NEW a, NEW nx
  PROVE  \E f : f = [i \in Nat |-> IF i = 0 THEN a ELSE nx[f[i - 1]]]
<1> DEFINE G(n) == CHOOSE g : Walk(g, n, a, nx)
           f == [i \in Nat |-> G(i)[i]]
<1>1. \A n \in Nat : Walk(G(n), n, a, nx) BY WalksExist
<1> HIDE DEF G
<1>2. ASSUME NEW i \in Nat PROVE f[i] = IF i = 0 THEN a ELSE nx[f[i - 1]]
  <2>1. CASE i = 0
    <3>1. Walk(G(0), 0, a, nx) BY <1>1
    <3> QED BY <2>1, <3>1 DEF Walk
  <2>2. CASE i # 0
    <3>1. i - 1 \in Nat BY <2>2
    <3>2. Walk(G(i), i, a, nx) /\ Walk(G(i - 1), i - 1, a, nx) BY <1>1, <3>1
    <3>3. G(i)[i] = nx[G(i)[i - 1]] BY <2>2, <3>1, <3>2 DEF Walk
    <3>4. G(i)[i - 1] = G(i - 1)[i - 1] BY <3>1, <3>2, WalksAgree
    <3> QED BY <2>2, <3>1, <3>3, <3>4
  <2> QED BY <2>1, <2>2
<1>3. f = [i \in Nat |-> f[i]] OBVIOUS
<1> HIDE DEF f
<1> QED BY <1>2, <1>3

(* That function is what get_node_link_nth follows from the head ...        *)
LEMMA AheadWalks ==
  ASSUME NEW k \in Nat
  PROVE  /\ Ahead(0) = head
         /\ Ahead(k + 1) = next[Ahead(k)]
<1> DEFINE F == CHOOSE f : f = [i \in Nat |-> IF i = 0 THEN head ELSE next[f[i - 1]]]
<1>1. F = [i \in Nat |-> IF i = 0 THEN head ELSE next[F[i - 1]]] BY WalkOnward
<1>2. \A i : Ahead(i) = F[i] BY DEF Ahead
<1> HIDE DEF F
<1>3. F[0] = head BY <1>1
<1>4. F[k + 1] = next[F[k]]
  <2>1. k + 1 \in Nat /\ k + 1 # 0 /\ (k + 1) - 1 = k OBVIOUS
  <2> QED BY <1>1, <2>1
<1> QED BY <1>2, <1>3, <1>4

(* ... and, the other way, from the tail.                                   *)
LEMMA BackWalks ==
  ASSUME NEW k \in Nat
  PROVE  /\ Back(0) = tail
         /\ Back(k + 1) = prev[Back(k)]
<1> DEFINE F == CHOOSE f : f = [i \in Nat |-> IF i = 0 THEN tail ELSE prev[f[i - 1]]]
<1>1. F = [i \in Nat |-> IF i = 0 THEN tail ELSE prev[F[i - 1]]] BY WalkOnward
<1>2. \A i : Back(i) = F[i] BY DEF Back
<1> HIDE DEF F
<1>3. F[0] = tail BY <1>1
<1>4. F[k + 1] = prev[F[k]]
  <2>1. k + 1 \in Nat /\ k + 1 # 0 /\ (k + 1) - 1 = k OBVIOUS
  <2> QED BY <1>1, <2>1
<1> QED BY <1>2, <1>3, <1>4

(* The cells s[1], ..., s[m] are the list: the first is the head and the last *)
(* the tail, next leads from each to the one behind it and prev back.       *)
Links ==
  /\ next \in [Node -> Node \union {None}]
  /\ prev \in [Node -> Node \union {None}]
  /\ item \in [Node -> Item \union {None}]
  /\ used \in SUBSET Node

Row(s, m) ==
  /\ m \in Nat
  /\ s \in [1 .. m -> Node]
  /\ \A i, j \in 1 .. m : s[i] = s[j] => i = j

Chain(s, m) ==
  /\ length = m
  /\ \A i \in 1 .. m : s[i] \in used
  /\ head = IF m = 0 THEN None ELSE s[1]
  /\ tail = IF m = 0 THEN None ELSE s[m]
  /\ \A i \in 1 .. m : next[s[i]] = IF i = m THEN None ELSE s[i + 1]
  /\ \A i \in 1 .. m : prev[s[i]] = IF i = 1 THEN None ELSE s[i - 1]

(* In a chain the walk from the head meets its cells in order ...           *)
LEMMA ChainAhead ==
  ASSUME NEW s, NEW m, Row(s, m), Chain(s, m)
  PROVE  \A i \in 1 .. m : Ahead(i - 1) = s[i]
<1> DEFINE S == {k \in Nat : k + 1 \in 1 .. m => Ahead(k) = s[k + 1]}
<1>1. 0 \in S BY AheadWalks DEF Chain
<1>2. ASSUME NEW k \in Nat, k \in S PROVE k + 1 \in S
  <2> SUFFICES ASSUME k + 2 \in 1 .. m PROVE Ahead(k + 1) = s[k + 2]
    OBVIOUS
  <2>1. m \in Nat /\ k + 1 \in 1 .. m /\ k + 1 # m BY DEF Row
  <2>2. Ahead(k) = s[k + 1] BY <1>2, <2>1
  <2>3. Ahead(k + 1) = next[Ahead(k)] BY AheadWalks
  <2>4. next[s[k + 1]] = s[k + 2] BY <2>1 DEF Chain
  <2> QED BY <2>2, <2>3, <2>4
<1> HIDE DEF S
<1>3. Nat \subseteq S BY <1>1, <1>2, Induct
<1>4. ASSUME NEW i \in 1 .. m PROVE Ahead(i - 1) = s[i]
  <2>1. m \in Nat /\ i - 1 \in Nat /\ (i - 1) + 1 = i BY DEF Row
  <2>2. i - 1 \in S BY <1>3, <2>1
  <2> QED BY <2>1, <2>2 DEF S
<1> QED BY <1>4

(* ... and the walk from the tail meets them backwards.                     *)
LEMMA ChainBack ==
  ASSUME NEW s, NEW m, Row(s, m), Chain(s, m)
  PROVE  \A i \in 1 .. m : Back(m - i) = s[i]
<1> DEFINE S == {k \in Nat : m - k \in 1 .. m => Back(k) = s[m - k]}
<1>1. 0 \in S BY BackWalks DEF Chain, Row
<1>2. ASSUME NEW k \in Nat, k \in S PROVE k + 1 \in S
  <2> SUFFICES ASSUME m - (k + 1) \in 1 .. m PROVE Back(k + 1) = s[m - (k + 1)]
    OBVIOUS
  <2>1. m \in Nat /\ m - k \in 1 .. m /\ m - k # 1 /\ (m - k) - 1 = m - (k + 1) BY DEF Row
  <2>2. Back(k) = s[m - k] BY <1>2, <2>1
  <2>3. Back(k + 1) = prev[Back(k)] BY BackWalks
  <2>4. prev[s[m - k]] = s[(m - k) - 1] BY <2>1 DEF Chain
  <2> QED BY <2>1, <2>2, <2>3, <2>4
<1> HIDE DEF S
<1>3. Nat \subseteq S BY <1>1, <1>2, Induct
<1>4. ASSUME NEW i \in 1 .. m PROVE Back(m - i) = s[i]
  <2>1. m \in Nat /\ m - i \in Nat /\ m - (m - i) = i BY DEF Row
  <2>2. m - i \in S BY <1>3, <2>1
  <2> QED BY <2>1, <2>2 DEF S
<1> QED BY <1>4

(* The walk of get_node_link_nth, from either end, arrives at the n-th cell.  *)
LEMMA Nth ==
  ASSUME NEW s, NEW m, Row(s, m), Chain(s, m), NEW n \in 1 .. m
  PROVE  get_node_link_nth(n) = s[n]
<1>1. Ahead(n - 1) = s[n] BY ChainAhead
<1>2. Back(length - n) = s[n] BY ChainBack DEF Chain
<1> QED BY <1>1, <1>2 DEF get_node_link_nth

(* What the list holds, read along its row.                                 *)
LEMMA ListedIs ==
  ASSUME NEW s, NEW m, Row(s, m), Chain(s, m)
  PROVE  Listed = [i \in 1 .. m |-> item[s[i]]]
<1>1. length = m BY DEF Chain
<1>2. \A i \in 1 .. m : Ahead(i - 1) = s[i] BY ChainAhead
<1>3. Listed = [i \in 1 .. m |-> item[Ahead(i - 1)]] BY <1>1 DEF Listed
<1> HIDE DEF Ahead
<1> QED BY <1>2, <1>3

(* The row with cell c put in at place k, and without the cell at place k.  *)
Put(s, m, k, c) == [i \in 1 .. m + 1 |-> IF i < k THEN s[i] ELSE IF i = k THEN c ELSE s[i - 1]]
Take(s, m, k) == [i \in 1 .. m - 1 |-> IF i < k THEN s[i] ELSE s[i + 1]]

(* What a push of d into cell c does when c becomes the k-th, as seen from  *)
(* the cells of the row ...                                                 *)
Linked(s, m, k, c, d) ==
  /\ k \in 1 .. m + 1 /\ c \in Node \ used /\ d \in Item
  /\ length' = length + 1 /\ used' = used \union {c} /\ item' = [item EXCEPT ![c] = d]
  /\ next' \in [Node -> Node \union {None}] /\ prev' \in [Node -> Node \union {None}]
  /\ head' = IF k = 1 THEN c ELSE head
  /\ tail' = IF k = m + 1 THEN c ELSE tail
  /\ next'[c] = IF k = m + 1 THEN None ELSE s[k]
  /\ prev'[c] = IF k = 1 THEN None ELSE s[k - 1]
  /\ \A i \in 1 .. m : next'[s[i]] = IF i = k - 1 THEN c ELSE next[s[i]]
  /\ \A i \in 1 .. m : prev'[s[i]] = IF i = k THEN c ELSE prev[s[i]]

(* ... and what the removal of the k-th does.                               *)
Unlinked(s, m, k) ==
  /\ k \in 1 .. m
  /\ length' = length - 1 /\ used' = used \ {s[k]} /\ item' = [item EXCEPT ![s[k]] = None]
  /\ next' \in [Node -> Node \union {None}] /\ prev' \in [Node -> Node \union {None}]
  /\ head' = IF k = 1 THEN next[s[1]] ELSE head
  /\ tail' = IF k = m THEN prev[s[m]] ELSE tail
  /\ \A i \in 1 .. m : i # k => next'[s[i]] = IF i = k - 1 THEN next[s[k]] ELSE next[s[i]]
  /\ \A i \in 1 .. m : i # k => prev'[s[i]] = IF i = k + 1 THEN prev[s[k]] ELSE prev[s[i]]

(* A cell that was in no list makes the row longer, and it stays a row.     *)
LEMMA PutRow ==
  ASSUME NEW s, NEW m, NEW k \in 1 .. m + 1, NEW c \in Node, Row(s, m),
         \A i \in 1 .. m : s[i] # c
  PROVE  Row(Put(s, m, k, c), m + 1)
<1> DEFINE t == Put(s, m, k, c)
<1>1. m \in Nat /\ s \in [1 .. m -> Node] BY DEF Row
<1>2. \A i \in 1 .. m + 1 : t[i] = IF i < k THEN s[i] ELSE IF i = k THEN c ELSE s[i - 1] BY DEF Put
<1>3. t \in [1 .. m + 1 -> Node]
  <2>1. ASSUME NEW i \in 1 .. m + 1 PROVE t[i] \in Node
    <3>1. i < k => i \in 1 .. m BY <1>1
    <3>2. i > k => i - 1 \in 1 .. m BY <1>1
    <3> QED BY <1>1, <1>2, <3>1, <3>2
  <2>2. t = [i \in 1 .. m + 1 |-> t[i]] BY DEF Put
  <2> HIDE DEF t
  <2> QED BY <2>1, <2>2
<1> HIDE DEF t
<1>4. ASSUME NEW i \in 1 .. m + 1, NEW j \in 1 .. m + 1, t[i] = t[j] PROVE i = j
  <2>9. t[i] = t[j] BY <1>4
  <2>0. /\ i \in Int /\ j \in Int /\ k \in Int
        /\ \A x, y \in 1 .. m : s[x] = s[y] => x = y
    BY <1>1 DEF Row
  <2>1. /\ i < k => i \in 1 .. m
        /\ i > k => i - 1 \in 1 .. m
        /\ j < k => j \in 1 .. m
        /\ j > k => j - 1 \in 1 .. m BY <1>1
  <2>2. /\ t[i] = IF i < k THEN s[i] ELSE IF i = k THEN c ELSE s[i - 1]
        /\ t[j] = IF j < k THEN s[j] ELSE IF j = k THEN c ELSE s[j - 1] BY <1>2
  <2>3. /\ i < k /\ j < k /\ s[i] = s[j] => i = j
        /\ i < k /\ j > k /\ s[i] = s[j - 1] => i = j - 1
        /\ i > k /\ j < k /\ s[i - 1] = s[j] => i - 1 = j
        /\ i > k /\ j > k /\ s[i - 1] = s[j - 1] => i - 1 = j - 1 BY <2>0, <2>1
  <2>4. /\ i < k => s[i] # c
        /\ i > k => s[i - 1] # c
        /\ j < k => s[j] # c
        /\ j > k => s[j - 1] # c BY <2>1
  <2>5. CASE i < k
    <3>0. t[i] = s[i] BY <2>2, <2>5
    <3>1. j # k
      <4>1. j = k => t[j] = c BY <2>0, <2>2
      <4> QED BY <2>9, <2>4, <2>5, <3>0, <4>1
    <3>2. j < k => i = j BY <2>9, <2>2, <2>3, <2>5
    <3>3. j > k => s[i] = s[j - 1]
      <4>1. j > k => t[j] = s[j - 1] BY <2>0, <2>2
      <4> QED BY <2>9, <3>0, <4>1
    <3>4. ~(j > k) BY <2>0, <2>3, <2>5, <3>3
    <3> QED BY <2>0, <3>1, <3>2, <3>4
  <2>6. CASE i = k
    <3>1. t[j] = c BY <2>9, <2>0, <2>2, <2>6
    <3> QED BY <2>0, <2>2, <2>4, <2>6, <3>1
  <2>7. CASE i > k
    <3>0. t[i] = s[i - 1] BY <2>0, <2>2, <2>7
    <3>1. j # k
      <4>1. j = k => t[j] = c BY <2>0, <2>2
      <4> QED BY <2>9, <2>4, <2>7, <3>0, <4>1
    <3>2. j < k => s[i - 1] = s[j] BY <2>9, <2>2, <3>0
    <3>3. j > k => s[i - 1] = s[j - 1]
      <4>1. j > k => t[j] = s[j - 1] BY <2>0, <2>2
      <4> QED BY <2>9, <3>0, <4>1
    <3>4. ~(j < k) BY <2>0, <2>3, <2>7, <3>2
    <3> QED BY <2>0, <2>3, <2>7, <3>1, <3>3, <3>4
  <2> QED BY <2>0, <2>5, <2>6, <2>7
<1>5. Row(t, m + 1) BY <1>1, <1>3, <1>4 DEF Row
<1> QED BY <1>5 DEF t

(* Without the cell at place k it is a row that cell is not in.             *)
LEMMA TakeRow ==
  ASSUME NEW s, NEW m, NEW k \in 1 .. m, Row(s, m)
  PROVE  /\ Row(Take(s, m, k), m - 1)
         /\ \A i \in 1 .. m - 1 : Take(s, m, k)[i] # s[k]
<1> DEFINE t == Take(s, m, k)
<1>1. m \in Nat /\ m - 1 \in Nat /\ s \in [1 .. m -> Node] BY DEF Row
<1>0. \A x, y \in 1 .. m : s[x] = s[y] => x = y BY DEF Row
<1>2. \A i \in 1 .. m - 1 : t[i] = IF i < k THEN s[i] ELSE s[i + 1] BY DEF Take
<1>3. t \in [1 .. m - 1 -> Node]
  <2>1. ASSUME NEW i \in 1 .. m - 1 PROVE t[i] \in Node
    <3>1. i \in 1 .. m /\ i + 1 \in 1 .. m BY <1>1
    <3> QED BY <1>1, <1>2, <3>1
  <2>2. t = [i \in 1 .. m - 1 |-> t[i]] BY DEF Take
  <2> HIDE DEF t
  <2> QED BY <2>1, <2>2
<1> HIDE DEF t
<1>4. ASSUME NEW i \in 1 .. m - 1, NEW j \in 1 .. m - 1, t[i] = t[j] PROVE i = j
  <2>1. i \in 1 .. m /\ i + 1 \in 1 .. m /\ j \in 1 .. m /\ j + 1 \in 1 .. m /\ k \in Int BY <1>1
  <2>2. /\ t[i] = IF i < k THEN s[i] ELSE s[i + 1]
        /\ t[j] = IF j < k THEN s[j] ELSE s[j + 1] BY <1>2
  <2>3. /\ s[i] = s[j] => i = j
        /\ s[i] = s[j + 1] => i = j + 1
        /\ s[i + 1] = s[j] => i + 1 = j
        /\ s[i + 1] = s[j + 1] => i + 1 = j + 1 BY <1>0, <2>1
  <2>4. i \in Int /\ j \in Int BY <1>1
  <2>9. t[i] = t[j] BY <1>4
  <2>5. CASE i < k /\ j < k BY <2>9, <2>2, <2>3, <2>5
  <2>6. CASE i < k /\ ~(j < k)
    <3>1. t[j] = s[j + 1] BY <2>2, <2>6
    <3>2. t[i] = s[i] BY <2>2, <2>6
    <3>3. s[i] = s[j + 1] BY <2>9, <3>1, <3>2
    <3>4. i = j + 1 BY <2>3, <3>3
    <3> QED BY <2>1, <2>4, <2>6, <3>4
  <2>7. CASE ~(i < k) /\ j < k
    <3>1. t[j] = s[j] BY <2>2, <2>7
    <3>2. t[i] = s[i + 1] BY <2>2, <2>7
    <3>3. s[i + 1] = s[j] BY <2>9, <3>1, <3>2
    <3>4. i + 1 = j BY <2>3, <3>3
    <3> QED BY <2>1, <2>4, <2>7, <3>4
  <2>8. CASE ~(i < k) /\ ~(j < k)
    <3>1. t[j] = s[j + 1] BY <2>2, <2>8
    <3>2. t[i] = s[i + 1] BY <2>2, <2>8
    <3>3. s[i + 1] = s[j + 1] BY <2>9, <3>1, <3>2
    <3>4. i + 1 = j + 1 BY <2>3, <3>3
    <3> QED BY <2>4, <3>4
  <2> QED BY <2>5, <2>6, <2>7, <2>8
<1>5. ASSUME NEW i \in 1 .. m - 1 PROVE t[i] # s[k]
  <2>1. i \in 1 .. m /\ i + 1 \in 1 .. m /\ k \in 1 .. m BY <1>1
  <2>2. t[i] = IF i < k THEN s[i] ELSE s[i + 1] BY <1>2
  <2> QED BY <1>0, <2>1, <2>2
<1>6. Row(t, m - 1) BY <1>1, <1>3, <1>4 DEF Row
<1> QED BY <1>5, <1>6 DEF t

(* The links a push sets are those of the row with the new cell ...         *)
LEMMA LinkedChain ==
  ASSUME NEW s, NEW m, NEW k, NEW c, NEW d, Links, Row(s, m), Chain(s, m), Linked(s, m, k, c, d)
  PROVE  /\ Links' /\ Row(Put(s, m, k, c), m + 1) /\ Chain(Put(s, m, k, c), m + 1)'
<1> DEFINE t == Put(s, m, k, c)
<1>1. m \in Nat /\ k \in 1 .. m + 1 /\ c \in Node \ used /\ d \in Item BY DEF Row, Linked
<1>2. \A i \in 1 .. m : s[i] \in used /\ s[i] # c BY <1>1 DEF Chain
<1>3. Links' BY <1>1 DEF Links, Linked
<1>4. Row(t, m + 1) BY <1>1, <1>2, PutRow
<1>5. \A i \in 1 .. m + 1 : t[i] = IF i < k THEN s[i] ELSE IF i = k THEN c ELSE s[i - 1] BY DEF Put
<1> HIDE DEF t
<1>6. length' = m + 1 BY DEF Chain, Linked
<1>7. \A i \in 1 .. m + 1 : t[i] \in used'
  <2> SUFFICES ASSUME NEW i \in 1 .. m + 1 PROVE t[i] \in used'
    OBVIOUS
  <2>1. used' = used \union {c} BY DEF Linked
  <2>2. i < k => i \in 1 .. m BY <1>1
  <2>3. i > k => i - 1 \in 1 .. m BY <1>1
  <2> QED BY <1>1, <1>2, <1>5, <2>1, <2>2, <2>3
<1>8. head' = t[1]
  <2>1. 1 \in 1 .. m + 1 BY <1>1
  <2>2. t[1] = IF 1 < k THEN s[1] ELSE c BY <1>1, <1>5, <2>1
  <2>3. k # 1 => m # 0 /\ 1 < k BY <1>1
  <2> QED BY <1>1, <2>2, <2>3 DEF Linked, Chain
<1>9. tail' = t[m + 1]
  <2>1. m + 1 \in 1 .. m + 1 /\ (m + 1) - 1 = m BY <1>1
  <2>2. t[m + 1] = IF m + 1 = k THEN c ELSE s[m] BY <1>1, <1>5, <2>1
  <2>3. k # m + 1 => m # 0 BY <1>1
  <2> QED BY <1>1, <2>2, <2>3 DEF Linked, Chain
<1>10. \A i \in 1 .. m + 1 : next'[t[i]] = IF i = m + 1 THEN None ELSE t[i + 1]
  <2> SUFFICES ASSUME NEW i \in 1 .. m + 1
               PROVE  next'[t[i]] = IF i = m + 1 THEN None ELSE t[i + 1]
    OBVIOUS
  <2>0. i # m + 1 => t[i + 1] = IF i + 1 < k THEN s[i + 1] ELSE IF i + 1 = k THEN c ELSE s[i]
    <3>1. i # m + 1 => i + 1 \in 1 .. m + 1 /\ (i + 1) - 1 = i BY <1>1
    <3> QED BY <1>5, <3>1
  <2>1. CASE i < k
    <3>1. i \in 1 .. m /\ i # m + 1 /\ (i = k - 1 <=> i + 1 = k) /\ ~(i + 1 > k) BY <1>1, <2>1
    <3>2. next'[s[i]] = IF i = k - 1 THEN c ELSE next[s[i]] BY <3>1 DEF Linked
    <3>3. next[s[i]] = IF i = m THEN None ELSE s[i + 1] BY <3>1 DEF Chain
    <3>4. i = m => i + 1 = k BY <1>1, <2>1
    <3>5. t[i] = s[i] BY <1>5, <2>1
    <3>6. i + 1 = k => ~(i + 1 < k) BY <1>1
    <3>7. i + 1 # k => i + 1 < k BY <1>1, <2>1
    <3> QED BY <2>0, <3>1, <3>2, <3>3, <3>4, <3>5, <3>6, <3>7
  <2>2. CASE i = k
    <3>1. t[i] = c /\ next'[c] = IF k = m + 1 THEN None ELSE s[k] BY <1>1, <1>5, <2>2 DEF Linked
    <3>2. ~(i + 1 < k) /\ i + 1 # k BY <1>1, <2>2
    <3> QED BY <2>0, <2>2, <3>1, <3>2
  <2>3. CASE i > k
    <3>1. i - 1 \in 1 .. m /\ i - 1 # k - 1 /\ (i - 1 = m <=> i = m + 1) /\ (i - 1) + 1 = i BY <1>1, <2>3
    <3>2. next'[s[i - 1]] = next[s[i - 1]] BY <3>1 DEF Linked
    <3>3. next[s[i - 1]] = IF i - 1 = m THEN None ELSE s[i] BY <3>1 DEF Chain
    <3>4. t[i] = s[i - 1] /\ ~(i + 1 < k) /\ i + 1 # k BY <1>1, <1>5, <2>3
    <3> QED BY <2>0, <3>1, <3>2, <3>3, <3>4
  <2> QED BY <1>1, <2>1, <2>2, <2>3
<1>11. \A i \in 1 .. m + 1 : prev'[t[i]] = IF i = 1 THEN None ELSE t[i - 1]
  <2> SUFFICES ASSUME NEW i \in 1 .. m + 1
               PROVE  prev'[t[i]] = IF i = 1 THEN None ELSE t[i - 1]
    OBVIOUS
  <2>0. i # 1 => t[i - 1] = IF i - 1 < k THEN s[i - 1] ELSE IF i - 1 = k THEN c ELSE s[(i - 1) - 1]
    <3>1. i # 1 => i - 1 \in 1 .. m + 1 BY <1>1
    <3> QED BY <1>5, <3>1
  <2>1. CASE i < k
    <3>1. i \in 1 .. m /\ i # k /\ i - 1 < k BY <1>1, <2>1
    <3>2. prev'[s[i]] = prev[s[i]] BY <3>1 DEF Linked
    <3>3. prev[s[i]] = IF i = 1 THEN None ELSE s[i - 1] BY <3>1 DEF Chain
    <3>4. t[i] = s[i] BY <1>5, <2>1
    <3> QED BY <2>0, <3>1, <3>2, <3>3, <3>4
  <2>2. CASE i = k
    <3>1. t[i] = c /\ prev'[c] = IF k = 1 THEN None ELSE s[k - 1] BY <1>1, <1>5, <2>2 DEF Linked
    <3>2. i - 1 < k BY <1>1, <2>2
    <3> QED BY <2>0, <2>2, <3>1, <3>2
  <2>3. CASE i > k
    <3>1. i - 1 \in 1 .. m /\ i # 1 /\ (i - 1 = k \/ i - 1 > k) BY <1>1, <2>3
    <3>2. prev'[s[i - 1]] = IF i - 1 = k THEN c ELSE prev[s[i - 1]] BY <3>1 DEF Linked
    <3>3. prev[s[i - 1]] = IF i - 1 = 1 THEN None ELSE s[(i - 1) - 1] BY <3>1 DEF Chain
    <3>4. t[i] = s[i - 1] /\ ~(i - 1 < k) BY <1>1, <1>5, <2>3
    <3>5. i - 1 > k => i - 1 # 1 /\ i - 1 # k BY <1>1, <2>3
    <3> QED BY <2>0, <3>1, <3>2, <3>3, <3>4, <3>5
  <2> QED BY <1>1, <2>1, <2>2, <2>3
<1>12. m + 1 # 0 BY <1>1
<1>13. Chain(t, m + 1)' BY <1>6, <1>7, <1>8, <1>9, <1>10, <1>11, <1>12 DEF Chain
<1> QED BY <1>3, <1>4, <1>13 DEF t

(* ... and the links a removal sets are those of the row without the cell.  *)
LEMMA UnlinkedChain ==
  ASSUME NEW s, NEW m, NEW k, Links, Row(s, m), Chain(s, m), Unlinked(s, m, k)
  PROVE  /\ Links' /\ Row(Take(s, m, k), m - 1) /\ Chain(Take(s, m, k), m - 1)'
<1> DEFINE t == Take(s, m, k)
<1>1. m \in Nat /\ k \in 1 .. m /\ s[k] \in Node BY DEF Row, Unlinked
<1>2. \A i \in 1 .. m : s[i] \in used BY DEF Chain
<1>3. Links' BY <1>1 DEF Links, Unlinked
<1>4. Row(t, m - 1) /\ \A i \in 1 .. m - 1 : t[i] # s[k] BY <1>1, TakeRow
<1>5. \A i \in 1 .. m - 1 : t[i] = IF i < k THEN s[i] ELSE s[i + 1] BY DEF Take
<1> HIDE DEF t
<1>6. length' = m - 1 BY DEF Chain, Unlinked
<1>7. \A i \in 1 .. m - 1 : t[i] \in used'
  <2> SUFFICES ASSUME NEW i \in 1 .. m - 1 PROVE t[i] \in used'
    OBVIOUS
  <2>1. used' = used \ {s[k]} BY DEF Unlinked
  <2>2. i \in 1 .. m /\ i + 1 \in 1 .. m BY <1>1
  <2> QED BY <1>2, <1>4, <1>5, <2>1, <2>2
<1>8. head' = IF m - 1 = 0 THEN None ELSE t[1]
  <2>1. next[s[1]] = IF 1 = m THEN None ELSE s[2] BY <1>1 DEF Chain
  <2>2. m - 1 # 0 => t[1] = IF 1 < k THEN s[1] ELSE s[2]
    <3>1. m - 1 # 0 => 1 \in 1 .. m - 1 BY <1>1
    <3> QED BY <1>5, <3>1
  <2>3. m - 1 = 0 <=> m = 1 BY <1>1
  <2>4. k # 1 => 1 < k /\ m - 1 # 0 /\ m # 0 BY <1>1
  <2>5. head' = IF k = 1 THEN next[s[1]] ELSE head BY DEF Unlinked
  <2>6. m # 0 => head = s[1] BY DEF Chain
  <2> QED BY <2>1, <2>2, <2>3, <2>4, <2>5, <2>6
<1>9. tail' = IF m - 1 = 0 THEN None ELSE t[m - 1]
  <2>1. prev[s[m]] = IF m = 1 THEN None ELSE s[m - 1] BY <1>1 DEF Chain
  <2>2. m - 1 # 0 => t[m - 1] = IF m - 1 < k THEN s[m - 1] ELSE s[m]
    <3>1. m - 1 # 0 => m - 1 \in 1 .. m - 1 /\ (m - 1) + 1 = m BY <1>1
    <3> QED BY <1>5, <3>1
  <2>3. m - 1 = 0 <=> m = 1 BY <1>1
  <2>4. k # m => ~(m - 1 < k) /\ m - 1 # 0 /\ m # 0 BY <1>1
  <2>5. tail' = IF k = m THEN prev[s[m]] ELSE tail BY DEF Unlinked
  <2>6. m # 0 => tail = s[m] BY DEF Chain
  <2>7. k = m => m - 1 < k BY <1>1
  <2> QED BY <2>1, <2>2, <2>3, <2>4, <2>5, <2>6, <2>7
<1>10. \A i \in 1 .. m - 1 : next'[t[i]] = IF i = m - 1 THEN None ELSE t[i + 1]
  <2> SUFFICES ASSUME NEW i \in 1 .. m - 1
               PROVE  next'[t[i]] = IF i = m - 1 THEN None ELSE t[i + 1]
    OBVIOUS
  <2>0. i # m - 1 => t[i + 1] = IF i + 1 < k THEN s[i + 1] ELSE s[(i + 1) + 1]
    <3>1. i # m - 1 => i + 1 \in 1 .. m - 1 BY <1>1
    <3> QED BY <1>5, <3>1
  <2>1. CASE i < k
    <3>1. i \in 1 .. m /\ i # k /\ (i = k - 1 <=> i + 1 = k) /\ i # m BY <1>1, <2>1
    <3>2. next'[s[i]] = IF i = k - 1 THEN next[s[k]] ELSE next[s[i]] BY <3>1 DEF Unlinked
    <3>3. next[s[i]] = s[i + 1] BY <3>1 DEF Chain
    <3>4. next[s[k]] = IF k = m THEN None ELSE s[k + 1] BY <1>1 DEF Chain
    <3>5. t[i] = s[i] BY <1>5, <2>1
    <3>6. i + 1 = k => ~(i + 1 < k) /\ (k = m <=> i = m - 1) BY <1>1
    <3>7. i + 1 # k => i + 1 < k /\ i # m - 1 BY <1>1, <2>1
    <3> QED BY <2>0, <3>1, <3>2, <3>3, <3>4, <3>5, <3>6, <3>7
  <2>2. CASE ~(i < k)
    <3>1. i + 1 \in 1 .. m /\ i + 1 # k /\ i + 1 # k - 1 /\ (i + 1 = m <=> i = m - 1) BY <1>1, <2>2
    <3>2. next'[s[i + 1]] = next[s[i + 1]] BY <3>1 DEF Unlinked
    <3>3. next[s[i + 1]] = IF i + 1 = m THEN None ELSE s[(i + 1) + 1] BY <3>1 DEF Chain
    <3>4. t[i] = s[i + 1] /\ ~(i + 1 < k) BY <1>1, <1>5, <2>2
    <3> QED BY <2>0, <3>1, <3>2, <3>3, <3>4
  <2> QED BY <2>1, <2>2
<1>11. \A i \in 1 .. m - 1 : prev'[t[i]] = IF i = 1 THEN None ELSE t[i - 1]
  <2> SUFFICES ASSUME NEW i \in 1 .. m - 1
               PROVE  prev'[t[i]] = IF i = 1 THEN None ELSE t[i - 1]
    OBVIOUS
  <2>0. i # 1 => t[i - 1] = IF i - 1 < k THEN s[i - 1] ELSE s[i]
    <3>1. i # 1 => i - 1 \in 1 .. m - 1 /\ (i - 1) + 1 = i BY <1>1
    <3> QED BY <1>5, <3>1
  <2>1. CASE i < k
    <3>1. i \in 1 .. m /\ i # k /\ i - 1 < k /\ i # k + 1 BY <1>1, <2>1
    <3>2. prev'[s[i]] = prev[s[i]] BY <3>1 DEF Unlinked
    <3>3. prev[s[i]] = IF i = 1 THEN None ELSE s[i - 1] BY <3>1 DEF Chain
    <3>4. t[i] = s[i] BY <1>5, <2>1
    <3> QED BY <2>0, <3>1, <3>2, <3>3, <3>4
  <2>2. CASE ~(i < k)
    <3>1. i + 1 \in 1 .. m /\ i + 1 # k /\ i + 1 # 1 /\ (i + 1 = k + 1 <=> i = k) /\ (i + 1) - 1 = i BY <1>1, <2>2
    <3>2. prev'[s[i + 1]] = IF i + 1 = k + 1 THEN prev[s[k]] ELSE prev[s[i + 1]] BY <3>1 DEF Unlinked
    <3>3. prev[s[i + 1]] = s[i] BY <3>1 DEF Chain
    <3>4. prev[s[k]] = IF k = 1 THEN None ELSE s[k - 1] BY <1>1 DEF Chain
    <3>5. t[i] = s[i + 1] BY <1>5, <2>2
    <3>6. i # k => ~(i - 1 < k) /\ i # 1 BY <1>1, <2>2
    <3>7. i = k => i - 1 < k BY <1>1
    <3>8. CASE i = k
      <4>1. prev'[t[i]] = prev[s[k]] BY <3>1, <3>2, <3>5, <3>8
      <4>2. i # 1 => t[i - 1] = s[i - 1] BY <2>0, <3>7, <3>8
      <4> QED BY <3>4, <3>8, <4>1, <4>2
    <3>9. CASE i # k
      <4>1. prev'[t[i]] = s[i] BY <3>1, <3>2, <3>3, <3>5, <3>9
      <4> QED BY <2>0, <3>6, <3>9, <4>1
    <3> QED BY <3>8, <3>9
  <2> QED BY <2>1, <2>2
<1>13. Chain(t, m - 1)' BY <1>6, <1>7, <1>8, <1>9, <1>10, <1>11 DEF Chain
<1> QED BY <1>3, <1>4, <1>13 DEF t

(* A function on 1 .. n is a sequence of length n.                          *)
LEMMA RowIsSeq ==
  ASSUME NEW S, NEW n \in Nat, NEW f \in [1 .. n -> S]
  PROVE  f \in Seq(S) /\ Len(f) = n
<1>1. f \in Seq(S) BY SeqDef
<1>2. DOMAIN f = 1 .. Len(f) /\ Len(f) \in Nat BY <1>1, LenProperties
<1>3. 1 .. n = 1 .. Len(f) BY <1>2
<1> QED BY <1>1, <1>2, <1>3

\* r is q with d put in at place k.
PutIn(q, r, k, d) ==
  /\ Len(r) = Len(q) + 1
  /\ \A i \in 1 .. Len(q) + 1 : r[i] = IF i < k THEN q[i] ELSE IF i = k THEN d ELSE q[i - 1]

\* r is q without what is at place k.
TakenOut(q, r, k) ==
  /\ Len(r) = Len(q) - 1
  /\ \A i \in 1 .. Len(q) - 1 : r[i] = IF i < k THEN q[i] ELSE q[i + 1]

(* Put in at the first place, it is in front of the rest.                   *)
LEMMA PutInFront ==
  ASSUME NEW S, NEW q \in Seq(S), NEW r \in Seq(S), NEW d \in S, PutIn(q, r, 1, d)
  PROVE  r = <<d>> \o q
<1>0. Len(q) \in Nat BY LenProperties
<1>1. <<d>> \in Seq(S) /\ Len(<<d>>) = 1 /\ <<d>>[1] = d OBVIOUS
<1>2. /\ <<d>> \o q \in Seq(S) /\ Len(<<d>> \o q) = 1 + Len(q)
      /\ \A i \in 1 .. 1 + Len(q) : (<<d>> \o q)[i] = IF i <= 1 THEN <<d>>[i] ELSE q[i - 1]
  BY <1>1, ConcatProperties
<1> DEFINE t == <<d>> \o q
<1> HIDE DEF t
<1>3. ASSUME NEW i \in 1 .. Len(r) PROVE r[i] = t[i]
  <2>1. i \in 1 .. Len(q) + 1 /\ i \in 1 .. 1 + Len(q) BY <1>0 DEF PutIn
  <2>2. r[i] = IF i < 1 THEN q[i] ELSE IF i = 1 THEN d ELSE q[i - 1] BY <2>1 DEF PutIn
  <2>3. t[i] = IF i <= 1 THEN <<d>>[i] ELSE q[i - 1] BY <1>2, <2>1 DEF t
  <2>4. CASE i = 1 BY <1>1, <2>2, <2>3, <2>4
  <2>5. CASE i # 1
    <3>1. ~(i < 1) /\ ~(i <= 1) BY <1>0, <2>1, <2>5
    <3> QED BY <2>2, <2>3, <2>5, <3>1
  <2> QED BY <2>4, <2>5
<1>4. Len(r) = Len(t) /\ t \in Seq(S) BY <1>0, <1>2 DEF PutIn, t
<1>5. r = t BY <1>3, <1>4, SeqEqual
<1> QED BY <1>5 DEF t

(* Put in after the last place, it is appended.                             *)
LEMMA PutBehind ==
  ASSUME NEW S, NEW q \in Seq(S), NEW r \in Seq(S), NEW d \in S, PutIn(q, r, Len(q) + 1, d)
  PROVE  r = Append(q, d)
<1>0. Len(q) \in Nat BY LenProperties
<1> DEFINE t == Append(q, d)
<1>1. /\ t \in Seq(S) /\ Len(t) = Len(q) + 1 /\ t[Len(q) + 1] = d
      /\ \A i \in 1 .. Len(q) : t[i] = q[i] BY AppendProperties
<1> HIDE DEF t
<1>3. ASSUME NEW i \in 1 .. Len(r) PROVE r[i] = t[i]
  <2>1. i \in 1 .. Len(q) + 1 BY <1>0 DEF PutIn
  <2>2. r[i] = IF i < Len(q) + 1 THEN q[i] ELSE IF i = Len(q) + 1 THEN d ELSE q[i - 1] BY <2>1 DEF PutIn
  <2>4. CASE i = Len(q) + 1 BY <1>0, <1>1, <2>2, <2>4
  <2>5. CASE i # Len(q) + 1
    <3>1. i < Len(q) + 1 /\ i \in 1 .. Len(q) BY <1>0, <2>1, <2>5
    <3> QED BY <1>1, <2>2, <3>1
  <2> QED BY <2>4, <2>5
<1>4. Len(r) = Len(t) /\ t \in Seq(S) BY <1>0, <1>1 DEF PutIn
<1>5. r = t BY <1>3, <1>4, SeqEqual
<1> QED BY <1>5 DEF t

(* What a part of a sequence holds.                                         *)
LEMMA Part ==
  ASSUME NEW S, NEW q \in Seq(S), NEW a \in 1 .. Len(q) + 1, NEW b \in 0 .. Len(q)
  PROVE  /\ SubSeq(q, a, b) \in Seq(S)
         /\ Len(SubSeq(q, a, b)) = IF a <= b THEN b - a + 1 ELSE 0
         /\ \A i \in 1 .. b - a + 1 : SubSeq(q, a, b)[i] = q[a + i - 1]
<1>1. Len(q) \in Nat BY LenProperties
<1>2. \A i \in a .. b : q[i] \in S
  <2> SUFFICES ASSUME NEW i \in a .. b PROVE q[i] \in S
    OBVIOUS
  <2>1. i \in 1 .. Len(q) BY <1>1
  <2> QED BY <2>1, ElementOfSeq
<1>3. a \in Int /\ b \in Int BY <1>1
<1> QED BY <1>2, <1>3, SubSeqProperties

(* Put in at a place between, it has the two parts on either side.          *)
LEMMA PutBetween ==
  ASSUME NEW S, NEW q \in Seq(S), NEW r \in Seq(S), NEW d \in S, NEW k \in 1 .. Len(q), PutIn(q, r, k, d)
  PROVE  r = SubSeq(q, 1, k - 1) \o <<d>> \o SubSeq(q, k, Len(q))
<1> DEFINE u == SubSeq(q, 1, k - 1)
           v == SubSeq(q, k, Len(q))
           w == u \o <<d>>
           t == w \o v
<1>0. Len(q) \in Nat /\ k \in Int BY LenProperties
<1>1. /\ u \in Seq(S) /\ Len(u) = k - 1 /\ \A i \in 1 .. k - 1 : u[i] = q[i]
  <2>1. 1 \in 1 .. Len(q) + 1 /\ k - 1 \in 0 .. Len(q) /\ (k - 1) - 1 + 1 = k - 1 BY <1>0
  <2>2. /\ u \in Seq(S) /\ Len(u) = IF 1 <= k - 1 THEN (k - 1) - 1 + 1 ELSE 0
        /\ \A i \in 1 .. (k - 1) - 1 + 1 : u[i] = q[1 + i - 1] BY <2>1, Part
  <2>3. \A i \in 1 .. k - 1 : 1 + i - 1 = i BY <1>0
  <2> HIDE DEF u
  <2>4. Len(u) = k - 1 BY <1>0, <2>2
  <2>5. \A i \in 1 .. k - 1 : u[i] = q[i] BY <2>1, <2>2, <2>3
  <2> QED BY <2>2, <2>4, <2>5
<1>2. /\ v \in Seq(S) /\ Len(v) = Len(q) - k + 1 /\ \A i \in 1 .. Len(q) - k + 1 : v[i] = q[k + i - 1]
  <2>1. k \in 1 .. Len(q) + 1 /\ Len(q) \in 0 .. Len(q) /\ k <= Len(q) BY <1>0
  <2> QED BY <2>1, Part
<1> HIDE DEF u, v
<1>3. <<d>> \in Seq(S) /\ Len(<<d>>) = 1 /\ <<d>>[1] = d OBVIOUS
<1>4. /\ w \in Seq(S) /\ Len(w) = Len(u) + 1
      /\ \A i \in 1 .. Len(u) + 1 : w[i] = IF i <= Len(u) THEN u[i] ELSE <<d>>[i - Len(u)]
  BY <1>1, <1>3, ConcatProperties
<1> HIDE DEF w
<1>5. /\ t \in Seq(S) /\ Len(t) = Len(w) + Len(v)
      /\ \A i \in 1 .. Len(w) + Len(v) : t[i] = IF i <= Len(w) THEN w[i] ELSE v[i - Len(w)]
  BY <1>2, <1>4, ConcatProperties
<1> HIDE DEF t
<1>6. Len(w) = k /\ Len(w) + Len(v) = Len(q) + 1 BY <1>0, <1>1, <1>2, <1>4
<1>7. ASSUME NEW i \in 1 .. Len(r) PROVE r[i] = t[i]
  <2>1. i \in 1 .. Len(q) + 1 /\ i \in Int BY <1>0 DEF PutIn
  <2>2. r[i] = IF i < k THEN q[i] ELSE IF i = k THEN d ELSE q[i - 1] BY <2>1 DEF PutIn
  <2>3. t[i] = IF i <= k THEN w[i] ELSE v[i - k] BY <1>5, <1>6, <2>1
  <2>4. CASE i < k
    <3>1. i \in 1 .. k - 1 /\ i \in 1 .. Len(u) + 1 /\ i <= Len(u) /\ i <= k BY <1>0, <1>1, <2>1, <2>4
    <3>2. w[i] = u[i] BY <1>4, <3>1
    <3>3. u[i] = q[i] BY <1>1, <3>1
    <3> QED BY <2>2, <2>3, <2>4, <3>1, <3>2, <3>3
  <2>5. CASE i = k
    <3>1. i \in 1 .. Len(u) + 1 /\ ~(i <= Len(u)) /\ i - Len(u) = 1 /\ i <= k /\ ~(i < k) BY <1>0, <1>1, <2>1, <2>5
    <3>2. w[i] = <<d>>[1] BY <1>4, <3>1
    <3> QED BY <1>3, <2>2, <2>3, <2>5, <3>1, <3>2
  <2>6. CASE i > k
    <3>1. i - k \in 1 .. Len(q) - k + 1 /\ k + (i - k) - 1 = i - 1 /\ ~(i <= k) /\ ~(i < k) /\ i # k BY <1>0, <2>1, <2>6
    <3>2. v[i - k] = q[k + (i - k) - 1] BY <1>2, <3>1
    <3> QED BY <2>2, <2>3, <3>1, <3>2
  <2> QED BY <1>0, <2>1, <2>4, <2>5, <2>6
<1>8. Len(r) = Len(t) BY <1>5, <1>6 DEF PutIn
<1>9. r = t BY <1>5, <1>7, <1>8, SeqEqual
<1> QED BY <1>9 DEF t, w, u, v

(* Taken out, it leaves the two parts next to each other.                   *)
LEMMA TakeBetween ==
  ASSUME NEW S, NEW q \in Seq(S), NEW r \in Seq(S), NEW k \in 1 .. Len(q), TakenOut(q, r, k)
  PROVE  r = SubSeq(q, 1, k - 1) \o SubSeq(q, k + 1, Len(q))
<1> DEFINE u == SubSeq(q, 1, k - 1)
           v == SubSeq(q, k + 1, Len(q))
           t == u \o v
<1>0. Len(q) \in Nat /\ k \in Int BY LenProperties
<1>1. /\ u \in Seq(S) /\ Len(u) = k - 1 /\ \A i \in 1 .. k - 1 : u[i] = q[i]
  <2>1. 1 \in 1 .. Len(q) + 1 /\ k - 1 \in 0 .. Len(q) /\ (k - 1) - 1 + 1 = k - 1 BY <1>0
  <2>2. /\ u \in Seq(S) /\ Len(u) = IF 1 <= k - 1 THEN (k - 1) - 1 + 1 ELSE 0
        /\ \A i \in 1 .. (k - 1) - 1 + 1 : u[i] = q[1 + i - 1] BY <2>1, Part
  <2>3. \A i \in 1 .. k - 1 : 1 + i - 1 = i BY <1>0
  <2> HIDE DEF u
  <2>4. Len(u) = k - 1 BY <1>0, <2>2
  <2>5. \A i \in 1 .. k - 1 : u[i] = q[i] BY <2>1, <2>2, <2>3
  <2> QED BY <2>2, <2>4, <2>5
<1>2. /\ v \in Seq(S) /\ Len(v) = Len(q) - k /\ \A i \in 1 .. Len(q) - k : v[i] = q[k + i]
  <2>1. k + 1 \in 1 .. Len(q) + 1 /\ Len(q) \in 0 .. Len(q) /\ Len(q) - (k + 1) + 1 = Len(q) - k BY <1>0
  <2>2. /\ v \in Seq(S) /\ Len(v) = IF k + 1 <= Len(q) THEN Len(q) - (k + 1) + 1 ELSE 0
        /\ \A i \in 1 .. Len(q) - (k + 1) + 1 : v[i] = q[k + 1 + i - 1] BY <2>1, Part
  <2>3. \A i \in 1 .. Len(q) - k : k + 1 + i - 1 = k + i BY <1>0
  <2> HIDE DEF v
  <2>4. Len(v) = Len(q) - k BY <1>0, <2>2
  <2>5. \A i \in 1 .. Len(q) - k : v[i] = q[k + i] BY <2>1, <2>2, <2>3
  <2> QED BY <2>2, <2>4, <2>5
<1> HIDE DEF u, v
<1>5. /\ t \in Seq(S) /\ Len(t) = Len(u) + Len(v)
      /\ \A i \in 1 .. Len(u) + Len(v) : t[i] = IF i <= Len(u) THEN u[i] ELSE v[i - Len(u)]
  BY <1>1, <1>2, ConcatProperties
<1> HIDE DEF t
<1>6. Len(u) + Len(v) = Len(q) - 1 BY <1>0, <1>1, <1>2
<1>7. ASSUME NEW i \in 1 .. Len(r) PROVE r[i] = t[i]
  <2>1. i \in 1 .. Len(q) - 1 /\ i \in Int BY <1>0 DEF TakenOut
  <2>2. r[i] = IF i < k THEN q[i] ELSE q[i + 1] BY <2>1 DEF TakenOut
  <2>3. t[i] = IF i <= k - 1 THEN u[i] ELSE v[i - (k - 1)] BY <1>1, <1>5, <1>6, <2>1
  <2>4. CASE i < k
    <3>1. i \in 1 .. k - 1 /\ i <= k - 1 BY <1>0, <2>1, <2>4
    <3>3. u[i] = q[i] BY <1>1, <3>1
    <3> QED BY <2>2, <2>3, <2>4, <3>1, <3>3
  <2>6. CASE ~(i < k)
    <3>1. i - (k - 1) \in 1 .. Len(q) - k /\ k + (i - (k - 1)) = i + 1 /\ ~(i <= k - 1) BY <1>0, <2>1, <2>6
    <3>2. v[i - (k - 1)] = q[k + (i - (k - 1))] BY <1>2, <3>1
    <3> QED BY <2>2, <2>3, <2>6, <3>1, <3>2
  <2> QED BY <2>4, <2>6
<1>8. Len(r) = Len(t) BY <1>5, <1>6 DEF TakenOut
<1>9. r = t BY <1>5, <1>7, <1>8, SeqEqual
<1> QED BY <1>9 DEF t, u, v

-----------------------------------------------------------------------------
(* The list as the deque sees it.                                           *)
Value == Item \union {None}

(* What is listed is a sequence, one item per cell of the row.              *)
LEMMA ListedSeq ==
  ASSUME NEW s, NEW m, Links, Row(s, m), Chain(s, m)
  PROVE  /\ m \in Nat /\ Listed \in Seq(Value) /\ Len(Listed) = m
         /\ \A i \in 1 .. m : Listed[i] = item[s[i]]
<1>1. Listed = [i \in 1 .. m |-> item[s[i]]] BY ListedIs
<1>2. m \in Nat /\ \A i \in 1 .. m : item[s[i]] \in Value BY DEF Row, Links, Value
<1> HIDE DEF Listed
<1>3. Listed \in [1 .. m -> Value] BY <1>1, <1>2
<1>4. Listed \in Seq(Value) /\ Len(Listed) = m BY <1>2, <1>3, RowIsSeq
<1> QED BY <1>1, <1>2, <1>4

ListedFrom(s, m) ==
  /\ m \in Nat /\ Listed \in Seq(Value) /\ Len(Listed) = m
  /\ \A i \in 1 .. m : Listed[i] = item[s[i]]

(* The same for every row at once, so that it can be said of the next state. *)
LEMMA ListedNow == \A s, m : Links /\ Row(s, m) /\ Chain(s, m) => ListedFrom(s, m)
BY ListedSeq DEF ListedFrom

LEMMA ListedThen == (\A s, m : Links /\ Row(s, m) /\ Chain(s, m) => ListedFrom(s, m))'
BY ListedNow, PTL

(* A push puts its item in at the place of its cell ...                     *)
LEMMA LinkedListed ==
  ASSUME NEW s, NEW m, NEW k, NEW c, NEW d, Links, Row(s, m), Chain(s, m), Linked(s, m, k, c, d)
  PROVE  /\ Listed \in Seq(Value) /\ Listed' \in Seq(Value) /\ d \in Value /\ Len(Listed) = m
         /\ PutIn(Listed, Listed', k, d)
<1> DEFINE t == Put(s, m, k, c)
<1>1. /\ m \in Nat /\ Listed \in Seq(Value) /\ Len(Listed) = m
      /\ \A i \in 1 .. m : Listed[i] = item[s[i]] BY ListedSeq
<1>2. Links' /\ Row(t, m + 1) /\ Chain(t, m + 1)' BY LinkedChain
<1> HIDE DEF t
<1>3. /\ Listed' \in Seq(Value) /\ Len(Listed') = m + 1
      /\ \A i \in 1 .. m + 1 : Listed'[i] = item'[t[i]]
  <2>1. ListedFrom(t, m + 1)' BY <1>2, ListedThen DEF Row
  <2> QED BY <2>1 DEF ListedFrom, Value
<1>4. /\ \A i \in 1 .. m + 1 : t[i] = IF i < k THEN s[i] ELSE IF i = k THEN c ELSE s[i - 1]
      /\ k \in 1 .. m + 1 /\ c \in Node \ used /\ d \in Item /\ d \in Value
      /\ item' = [item EXCEPT ![c] = d] /\ item \in [Node -> Item \union {None}]
  BY DEF Put, Linked, Links, Value, t
<1>5. \A i \in 1 .. m : s[i] \in Node /\ s[i] # c BY <1>4 DEF Chain, Row
<1>6. ASSUME NEW i \in 1 .. m + 1
      PROVE  Listed'[i] = IF i < k THEN Listed[i] ELSE IF i = k THEN d ELSE Listed[i - 1]
  <2>1. Listed'[i] = item'[t[i]] BY <1>3
  <2>2. CASE i < k
    <3>1. i \in 1 .. m BY <1>1, <1>4, <2>2
    <3>2. t[i] = s[i] BY <1>4, <2>2
    <3>3. item'[s[i]] = item[s[i]] BY <1>4, <1>5, <3>1
    <3> QED BY <1>1, <2>1, <2>2, <3>1, <3>2, <3>3
  <2>3. CASE i = k
    <3>1. t[i] = c /\ ~(i < k) BY <1>1, <1>4, <2>3
    <3>2. item'[c] = d BY <1>4
    <3> QED BY <2>1, <2>3, <3>1, <3>2
  <2>4. CASE i > k
    <3>1. i - 1 \in 1 .. m /\ ~(i < k) /\ i # k BY <1>1, <1>4, <2>4
    <3>2. t[i] = s[i - 1] BY <1>4, <3>1
    <3>3. item'[s[i - 1]] = item[s[i - 1]] BY <1>4, <1>5, <3>1
    <3> QED BY <1>1, <2>1, <3>1, <3>2, <3>3
  <2> QED BY <1>1, <1>4, <2>2, <2>3, <2>4
<1> QED BY <1>1, <1>3, <1>4, <1>6 DEF PutIn

(* ... and a removal takes the item of the cell out.                        *)
LEMMA UnlinkedListed ==
  ASSUME NEW s, NEW m, NEW k, Links, Row(s, m), Chain(s, m), Unlinked(s, m, k)
  PROVE  /\ Listed \in Seq(Value) /\ Listed' \in Seq(Value) /\ Len(Listed) = m
         /\ k \in 1 .. Len(Listed) /\ Listed[k] = item[s[k]]
         /\ TakenOut(Listed, Listed', k)
<1> DEFINE t == Take(s, m, k)
<1>1. /\ m \in Nat /\ Listed \in Seq(Value) /\ Len(Listed) = m
      /\ \A i \in 1 .. m : Listed[i] = item[s[i]] BY ListedSeq
<1>2. Links' /\ Row(t, m - 1) /\ Chain(t, m - 1)' BY UnlinkedChain
<1> HIDE DEF t
<1>3. /\ Listed' \in Seq(Value) /\ Len(Listed') = m - 1
      /\ \A i \in 1 .. m - 1 : Listed'[i] = item'[t[i]]
  <2>1. ListedFrom(t, m - 1)' BY <1>2, ListedThen DEF Row
  <2> QED BY <2>1 DEF ListedFrom, Value
<1>4. /\ \A i \in 1 .. m - 1 : t[i] = IF i < k THEN s[i] ELSE s[i + 1]
      /\ k \in 1 .. m
      /\ item' = [item EXCEPT ![s[k]] = None] /\ item \in [Node -> Item \union {None}]
  BY DEF Take, Unlinked, Links, t
<1>5. /\ \A i \in 1 .. m : s[i] \in Node
      /\ \A i \in 1 .. m : s[i] = s[k] => i = k BY <1>4 DEF Row
<1>6. ASSUME NEW i \in 1 .. m - 1
      PROVE  Listed'[i] = IF i < k THEN Listed[i] ELSE Listed[i + 1]
  <2>1. Listed'[i] = item'[t[i]] BY <1>3
  <2>2. CASE i < k
    <3>1. i \in 1 .. m /\ i # k BY <1>1, <1>4, <2>2
    <3>2. t[i] = s[i] BY <1>4, <2>2
    <3>3. item'[s[i]] = item[s[i]] BY <1>4, <1>5, <3>1
    <3> QED BY <1>1, <2>1, <2>2, <3>1, <3>2, <3>3
  <2>4. CASE ~(i < k)
    <3>1. i + 1 \in 1 .. m /\ i + 1 # k BY <1>1, <1>4, <2>4
    <3>2. t[i] = s[i + 1] BY <1>4, <2>4
    <3>3. item'[s[i + 1]] = item[s[i + 1]] BY <1>4, <1>5, <3>1
    <3> QED BY <1>1, <2>1, <2>4, <3>1, <3>2, <3>3
  <2> QED BY <2>2, <2>4
<1> QED BY <1>1, <1>3, <1>4, <1>6 DEF TakenOut

-----------------------------------------------------------------------------
(* The calls, one by one.                                                   *)
LEMMA HeadLinked ==
  ASSUME NEW s, NEW m, Links, Row(s, m), Chain(s, m), NEW d \in Item, LinkHead(d)
  PROVE  \E c : Linked(s, m, 1, c, d)
<1>1. m \in Nat /\ \A i \in 1 .. m : s[i] \in Node /\ s[i] \in used BY DEF Row, Chain
<1>2. PICK c \in Node \ used :
        /\ item' = [item EXCEPT ![c] = d]
        /\ next' = [next EXCEPT ![c] = head]
        /\ prev' = [n \in Node |-> CASE n = c -> None [] n = head -> c [] OTHER -> prev[n]]
        /\ head' = c
        /\ tail' = IF tail = None THEN c ELSE tail
        /\ length' = length + 1
        /\ used' = used \union {c}
  BY DEF LinkHead
<1>3. head = IF m = 0 THEN None ELSE s[1] BY DEF Chain
<1>4. head \in Node \union {None} /\ c # None
  <2>1. m # 0 => s[1] \in Node BY <1>1
  <2> QED BY <1>3, <2>1, NodeAssumption
<1>5. next' \in [Node -> Node \union {None}] BY <1>2, <1>4 DEF Links
<1>6. prev' \in [Node -> Node \union {None}]
  <2>1. \A n \in Node : prev'[n] \in Node \union {None} BY <1>2 DEF Links
  <2> QED BY <1>2, <2>1
<1>7. tail' = IF 1 = m + 1 THEN c ELSE tail
  <2>1. tail = IF m = 0 THEN None ELSE s[m] BY DEF Chain
  <2>2. m # 0 => s[m] \in Node /\ 1 # m + 1 BY <1>1
  <2>3. m = 0 => 1 = m + 1 BY <1>1
  <2> QED BY <1>2, <2>1, <2>2, <2>3, NodeAssumption
<1>8. next'[c] = IF 1 = m + 1 THEN None ELSE s[1]
  <2>1. next'[c] = head BY <1>2 DEF Links
  <2>2. m = 0 <=> 1 = m + 1 BY <1>1
  <2> QED BY <1>3, <2>1, <2>2
<1>9. prev'[c] = None
  <2>1. c # head
    <3>1. m # 0 => s[1] \in used BY <1>1
    <3> QED BY <1>3, <1>4, <3>1
  <2> QED BY <1>2, <2>1
<1>10. \A i \in 1 .. m : next'[s[i]] = IF i = 1 - 1 THEN c ELSE next[s[i]]
  <2> SUFFICES ASSUME NEW i \in 1 .. m PROVE next'[s[i]] = IF i = 1 - 1 THEN c ELSE next[s[i]]
    OBVIOUS
  <2>1. s[i] \in Node /\ s[i] # c /\ i # 1 - 1 BY <1>1, <1>2
  <2> QED BY <1>2, <2>1 DEF Links
<1>11. \A i \in 1 .. m : prev'[s[i]] = IF i = 1 THEN c ELSE prev[s[i]]
  <2> SUFFICES ASSUME NEW i \in 1 .. m PROVE prev'[s[i]] = IF i = 1 THEN c ELSE prev[s[i]]
    OBVIOUS
  <2>1. s[i] \in Node /\ s[i] # c /\ m # 0 BY <1>1, <1>2
  <2>2. s[i] = head <=> i = 1
    <3>1. 1 \in 1 .. m BY <1>1
    <3> QED BY <1>3, <2>1, <3>1 DEF Row
  <2>3. prev'[s[i]] = CASE s[i] = c -> None [] s[i] = head -> c [] OTHER -> prev[s[i]] BY <1>2, <2>1
  <2> QED BY <2>1, <2>2, <2>3
<1>12. 1 \in 1 .. m + 1 BY <1>1
<1>13. /\ c \in Node \ used /\ d \in Item /\ length' = length + 1 /\ used' = used \union {c}
       /\ item' = [item EXCEPT ![c] = d]
  BY <1>2
<1>14. head' = IF 1 = 1 THEN c ELSE head BY <1>2
<1>15. prev'[c] = IF 1 = 1 THEN None ELSE s[1 - 1] BY <1>9
<1>16. Linked(s, m, 1, c, d) BY <1>5, <1>6, <1>7, <1>8, <1>10, <1>11, <1>12, <1>13, <1>14, <1>15 DEF Linked
<1> QED BY <1>16

(* queue_push_tail: the new cell comes after the last.                      *)
LEMMA TailLinked ==
  ASSUME NEW s, NEW m, Links, Row(s, m), Chain(s, m), NEW d \in Item, LinkTail(d)
  PROVE  \E c : Linked(s, m, m + 1, c, d)
<1>1. m \in Nat /\ \A i \in 1 .. m : s[i] \in Node /\ s[i] \in used BY DEF Row, Chain
<1>2. PICK c \in Node \ used :
        /\ item' = [item EXCEPT ![c] = d]
        /\ prev' = [prev EXCEPT ![c] = tail]
        /\ next' = [n \in Node |-> CASE n = c -> None [] n = tail -> c [] OTHER -> next[n]]
        /\ tail' = c
        /\ head' = IF head = None THEN c ELSE head
        /\ length' = length + 1
        /\ used' = used \union {c}
  BY DEF LinkTail
<1>3. tail = IF m = 0 THEN None ELSE s[m] BY DEF Chain
<1>4. tail \in Node \union {None} /\ c # None
  <2>1. m # 0 => s[m] \in Node BY <1>1
  <2> QED BY <1>3, <2>1, NodeAssumption
<1>5. prev' \in [Node -> Node \union {None}] BY <1>2, <1>4 DEF Links
<1>6. next' \in [Node -> Node \union {None}]
  <2>1. \A n \in Node : next'[n] \in Node \union {None} BY <1>2 DEF Links
  <2> QED BY <1>2, <2>1
<1>7. head' = IF m + 1 = 1 THEN c ELSE head
  <2>1. head = IF m = 0 THEN None ELSE s[1] BY DEF Chain
  <2>2. m # 0 => s[1] \in Node /\ m + 1 # 1 BY <1>1
  <2>3. m = 0 => m + 1 = 1 BY <1>1
  <2> QED BY <1>2, <2>1, <2>2, <2>3, NodeAssumption
<1>8. prev'[c] = IF m + 1 = 1 THEN None ELSE s[(m + 1) - 1]
  <2>1. prev'[c] = tail BY <1>2 DEF Links
  <2>2. (m = 0 <=> m + 1 = 1) /\ (m + 1) - 1 = m BY <1>1
  <2> QED BY <1>3, <2>1, <2>2
<1>9. next'[c] = None
  <2>1. c # tail
    <3>1. m # 0 => s[m] \in used BY <1>1
    <3> QED BY <1>3, <1>4, <3>1
  <2> QED BY <1>2, <2>1
<1>10. \A i \in 1 .. m : prev'[s[i]] = IF i = m + 1 THEN c ELSE prev[s[i]]
  <2> SUFFICES ASSUME NEW i \in 1 .. m PROVE prev'[s[i]] = IF i = m + 1 THEN c ELSE prev[s[i]]
    OBVIOUS
  <2>1. s[i] \in Node /\ s[i] # c /\ i # m + 1 BY <1>1, <1>2
  <2> QED BY <1>2, <2>1 DEF Links
<1>11. \A i \in 1 .. m : next'[s[i]] = IF i = (m + 1) - 1 THEN c ELSE next[s[i]]
  <2> SUFFICES ASSUME NEW i \in 1 .. m PROVE next'[s[i]] = IF i = (m + 1) - 1 THEN c ELSE next[s[i]]
    OBVIOUS
  <2>1. s[i] \in Node /\ s[i] # c /\ m # 0 /\ (m + 1) - 1 = m BY <1>1, <1>2
  <2>2. s[i] = tail <=> i = m
    <3>1. m \in 1 .. m BY <1>1
    <3> QED BY <1>3, <2>1, <3>1 DEF Row
  <2>3. next'[s[i]] = CASE s[i] = c -> None [] s[i] = tail -> c [] OTHER -> next[s[i]] BY <1>2, <2>1
  <2> QED BY <2>1, <2>2, <2>3
<1>12. m + 1 \in 1 .. m + 1 BY <1>1
<1>13. /\ c \in Node \ used /\ d \in Item /\ length' = length + 1 /\ used' = used \union {c}
       /\ item' = [item EXCEPT ![c] = d]
  BY <1>2
<1>14. tail' = IF m + 1 = m + 1 THEN c ELSE tail BY <1>2
<1>15. next'[c] = IF m + 1 = m + 1 THEN None ELSE s[m + 1] BY <1>9
<1>16. Linked(s, m, m + 1, c, d) BY <1>5, <1>6, <1>7, <1>8, <1>10, <1>11, <1>12, <1>13, <1>14, <1>15 DEF Linked
<1> QED BY <1>16

(* queue_push_nth between two cells: p is the cell before the new one.      *)
LinkNth(c, d, n) ==
  LET p == get_node_link_nth(n - 1)
  IN  /\ c \in Node \ used
      /\ item' = [item EXCEPT ![c] = d]
      /\ next' = [next EXCEPT ![c] = next[p], ![p] = c]
      /\ prev' = [prev EXCEPT ![c] = p, ![next[p]] = c]
      /\ used' = used \union {c}
      /\ length' = length + 1
      /\ UNCHANGED <<head, tail>>

(* Its new cell comes to be the n-th.                                       *)
LEMMA NthLinked ==
  ASSUME NEW s, NEW m, Links, Row(s, m), Chain(s, m), NEW d \in Item, NEW n \in 2 .. m, NEW c, LinkNth(c, d, n)
  PROVE  Linked(s, m, n, c, d)
<1>1. /\ m \in Nat /\ \A i \in 1 .. m : s[i] \in Node /\ s[i] \in used
      /\ \A i, j \in 1 .. m : s[i] = s[j] => i = j BY DEF Row, Chain
<1>2. n \in Int /\ n \in 1 .. m /\ n - 1 \in 1 .. m /\ n - 1 # m /\ (n - 1) + 1 = n /\ n # 1 /\ n # m + 1 BY <1>1
<1>3. get_node_link_nth(n - 1) = s[n - 1] BY <1>2, Nth
<1>4. next[s[n - 1]] = s[n] BY <1>2 DEF Chain
<1>5. /\ c \in Node \ used
      /\ item' = [item EXCEPT ![c] = d]
      /\ next' = [next EXCEPT ![c] = s[n], ![s[n - 1]] = c]
      /\ prev' = [prev EXCEPT ![c] = s[n - 1], ![s[n]] = c]
      /\ used' = used \union {c}
      /\ length' = length + 1
      /\ head' = head /\ tail' = tail
  BY <1>3, <1>4 DEF LinkNth
<1>6. s[n] \in Node /\ s[n] # c /\ s[n - 1] \in Node /\ s[n - 1] # c BY <1>1, <1>2, <1>5
<1>7. next' \in [Node -> Node \union {None}] /\ prev' \in [Node -> Node \union {None}] BY <1>5, <1>6 DEF Links
<1>8. next'[c] = s[n] /\ prev'[c] = s[n - 1] BY <1>5, <1>6 DEF Links
<1>9. \A i \in 1 .. m : next'[s[i]] = IF i = n - 1 THEN c ELSE next[s[i]]
  <2> SUFFICES ASSUME NEW i \in 1 .. m PROVE next'[s[i]] = IF i = n - 1 THEN c ELSE next[s[i]]
    OBVIOUS
  <2>1. s[i] \in Node /\ s[i] # c /\ (s[i] = s[n - 1] <=> i = n - 1) BY <1>1, <1>2, <1>5
  <2> QED BY <1>5, <1>6, <2>1 DEF Links
<1>10. \A i \in 1 .. m : prev'[s[i]] = IF i = n THEN c ELSE prev[s[i]]
  <2> SUFFICES ASSUME NEW i \in 1 .. m PROVE prev'[s[i]] = IF i = n THEN c ELSE prev[s[i]]
    OBVIOUS
  <2>1. s[i] \in Node /\ s[i] # c /\ (s[i] = s[n] <=> i = n) BY <1>1, <1>2, <1>5
  <2> QED BY <1>5, <1>6, <2>1 DEF Links
<1>11. n \in 1 .. m + 1 BY <1>1, <1>2
<1>12. /\ c \in Node \ used /\ d \in Item /\ length' = length + 1 /\ used' = used \union {c}
       /\ item' = [item EXCEPT ![c] = d]
  BY <1>5
<1>13. head' = IF n = 1 THEN c ELSE head BY <1>2, <1>5
<1>14. tail' = IF n = m + 1 THEN c ELSE tail BY <1>1, <1>2, <1>5
<1>15. /\ next'[c] = IF n = m + 1 THEN None ELSE s[n]
       /\ prev'[c] = IF n = 1 THEN None ELSE s[n - 1]
  BY <1>1, <1>2, <1>8
<1>16. Linked(s, m, n, c, d) BY <1>7, <1>9, <1>10, <1>11, <1>12, <1>13, <1>14, <1>15 DEF Linked
<1> QED BY <1>16

(* queue_pop_head removes the first cell and returns its item.              *)
LEMMA HeadUnlinked ==
  ASSUME NEW s, NEW m, Links, Row(s, m), Chain(s, m), UnlinkHead, m # 0
  PROVE  Unlinked(s, m, 1) /\ got' = item[s[1]]
<1>1. /\ m \in Nat /\ \A i \in 1 .. m : s[i] \in Node /\ s[i] \in used
      /\ \A i, j \in 1 .. m : s[i] = s[j] => i = j BY DEF Row, Chain
<1>2. 1 \in 1 .. m /\ head = s[1] /\ s[1] \in Node BY <1>1 DEF Chain
<1>3. head # None BY <1>2, NodeAssumption
<1>4. /\ head' = next[s[1]]
      /\ tail' = IF next[s[1]] = None THEN None ELSE tail
      /\ next' = [next EXCEPT ![s[1]] = None]
      /\ prev' = [[n \in Node |-> IF n = next[s[1]] THEN None ELSE prev[n]] EXCEPT ![s[1]] = None]
      /\ item' = [item EXCEPT ![s[1]] = None]
      /\ used' = used \ {s[1]} /\ length' = length - 1 /\ got' = item[s[1]]
  BY <1>2, <1>3 DEF UnlinkHead, Free
<1>5. next[s[1]] = IF 1 = m THEN None ELSE s[2] BY <1>2 DEF Chain
<1>6. m # 1 => 2 \in 1 .. m /\ s[2] \in Node /\ s[2] # None BY <1>1, NodeAssumption
<1>7. next' \in [Node -> Node \union {None}] /\ prev' \in [Node -> Node \union {None}]
  BY <1>4 DEF Links
<1>8. tail' = IF 1 = m THEN prev[s[m]] ELSE tail
  <2>1. prev[s[1]] = None BY <1>2 DEF Chain
  <2> QED BY <1>4, <1>5, <1>6, <2>1
<1>9. \A i \in 1 .. m : i # 1 => next'[s[i]] = IF i = 1 - 1 THEN next[s[1]] ELSE next[s[i]]
  <2> SUFFICES ASSUME NEW i \in 1 .. m, i # 1 PROVE next'[s[i]] = IF i = 1 - 1 THEN next[s[1]] ELSE next[s[i]]
    OBVIOUS
  <2>1. s[i] \in Node /\ s[i] # s[1] /\ i # 1 - 1 BY <1>1, <1>2
  <2> QED BY <1>4, <2>1 DEF Links
<1>10. \A i \in 1 .. m : i # 1 => prev'[s[i]] = IF i = 1 + 1 THEN prev[s[1]] ELSE prev[s[i]]
  <2> SUFFICES ASSUME NEW i \in 1 .. m, i # 1 PROVE prev'[s[i]] = IF i = 1 + 1 THEN prev[s[1]] ELSE prev[s[i]]
    OBVIOUS
  <2>1. s[i] \in Node /\ s[i] # s[1] /\ s[i] # None /\ m # 1 BY <1>1, <1>2, NodeAssumption
  <2>2. next[s[1]] = s[2] /\ 2 \in 1 .. m BY <1>5, <1>6, <2>1
  <2>3. s[i] = s[2] <=> i = 2 BY <1>1, <2>2
  <2>4. prev[s[1]] = None BY <1>2 DEF Chain
  <2>5. prev'[s[i]] = IF s[i] = s[2] THEN None ELSE prev[s[i]] BY <1>4, <2>1, <2>2
  <2> QED BY <2>3, <2>4, <2>5
<1> QED BY <1>2, <1>4, <1>7, <1>8, <1>9, <1>10 DEF Unlinked

(* queue_pop_tail removes the last cell and returns its item.               *)
LEMMA TailUnlinked ==
  ASSUME NEW s, NEW m, Links, Row(s, m), Chain(s, m), UnlinkTail, m # 0
  PROVE  Unlinked(s, m, m) /\ got' = item[s[m]]
<1>1. /\ m \in Nat /\ \A i \in 1 .. m : s[i] \in Node /\ s[i] \in used
      /\ \A i, j \in 1 .. m : s[i] = s[j] => i = j BY DEF Row, Chain
<1>2. m \in 1 .. m /\ tail = s[m] /\ s[m] \in Node BY <1>1 DEF Chain
<1>3. tail # None BY <1>2, NodeAssumption
<1>4. /\ tail' = prev[s[m]]
      /\ head' = IF prev[s[m]] = None THEN None ELSE head
      /\ next' = [[n \in Node |-> IF n = prev[s[m]] THEN None ELSE next[n]] EXCEPT ![s[m]] = None]
      /\ prev' = [prev EXCEPT ![s[m]] = None]
      /\ item' = [item EXCEPT ![s[m]] = None]
      /\ used' = used \ {s[m]} /\ length' = length - 1 /\ got' = item[s[m]]
  BY <1>2, <1>3 DEF UnlinkTail, Free
<1>5. prev[s[m]] = IF m = 1 THEN None ELSE s[m - 1] BY <1>2 DEF Chain
<1>6. m # 1 => m - 1 \in 1 .. m /\ s[m - 1] \in Node /\ s[m - 1] # None BY <1>1, NodeAssumption
<1>7. next' \in [Node -> Node \union {None}] /\ prev' \in [Node -> Node \union {None}]
  BY <1>4 DEF Links
<1>8. head' = IF m = 1 THEN next[s[1]] ELSE head
  <2>1. m = 1 => next[s[1]] = None BY <1>2 DEF Chain
  <2> QED BY <1>4, <1>5, <1>6, <2>1
<1>9. \A i \in 1 .. m : i # m => prev'[s[i]] = IF i = m + 1 THEN prev[s[m]] ELSE prev[s[i]]
  <2> SUFFICES ASSUME NEW i \in 1 .. m, i # m PROVE prev'[s[i]] = IF i = m + 1 THEN prev[s[m]] ELSE prev[s[i]]
    OBVIOUS
  <2>1. s[i] \in Node /\ s[i] # s[m] /\ i # m + 1 BY <1>1, <1>2
  <2> QED BY <1>4, <2>1 DEF Links
<1>10. \A i \in 1 .. m : i # m => next'[s[i]] = IF i = m - 1 THEN next[s[m]] ELSE next[s[i]]
  <2> SUFFICES ASSUME NEW i \in 1 .. m, i # m PROVE next'[s[i]] = IF i = m - 1 THEN next[s[m]] ELSE next[s[i]]
    OBVIOUS
  <2>1. s[i] \in Node /\ s[i] # s[m] /\ s[i] # None /\ m # 1 BY <1>1, <1>2, NodeAssumption
  <2>2. prev[s[m]] = s[m - 1] /\ m - 1 \in 1 .. m BY <1>5, <1>6, <2>1
  <2>3. s[i] = s[m - 1] <=> i = m - 1 BY <1>1, <2>2
  <2>4. next[s[m]] = None BY <1>2 DEF Chain
  <2>5. next'[s[i]] = IF s[i] = s[m - 1] THEN None ELSE next[s[i]] BY <1>4, <2>1, <2>2
  <2> QED BY <2>3, <2>4, <2>5
<1> QED BY <1>2, <1>4, <1>7, <1>8, <1>9, <1>10 DEF Unlinked

(* queue_pop_nth of a cell with one on either side.                         *)
UnlinkNth(n) ==
  /\ LET p == get_node_link_nth(n)
     IN  Free(p, [next EXCEPT ![prev[p]] = next[p]], [prev EXCEPT ![next[p]] = prev[p]])
  /\ UNCHANGED <<head, tail>>

(* It removes the n-th cell and returns its item.                           *)
LEMMA NthUnlinked ==
  ASSUME NEW s, NEW m, Links, Row(s, m), Chain(s, m), NEW n \in 2 .. m - 1, UnlinkNth(n)
  PROVE  Unlinked(s, m, n) /\ got' = item[s[n]]
<1>1. /\ m \in Nat /\ \A i \in 1 .. m : s[i] \in Node /\ s[i] \in used
      /\ \A i, j \in 1 .. m : s[i] = s[j] => i = j BY DEF Row, Chain
<1>2. /\ n \in Int /\ n \in 1 .. m /\ n - 1 \in 1 .. m /\ n + 1 \in 1 .. m
      /\ n # 1 /\ n # m /\ n - 1 # n /\ n + 1 # n BY <1>1
<1>3. get_node_link_nth(n) = s[n] BY <1>2, Nth
<1>4. next[s[n]] = s[n + 1] /\ prev[s[n]] = s[n - 1] BY <1>2 DEF Chain
<1>5. /\ next' = [[next EXCEPT ![s[n - 1]] = s[n + 1]] EXCEPT ![s[n]] = None]
      /\ prev' = [[prev EXCEPT ![s[n + 1]] = s[n - 1]] EXCEPT ![s[n]] = None]
      /\ item' = [item EXCEPT ![s[n]] = None]
      /\ used' = used \ {s[n]} /\ length' = length - 1 /\ got' = item[s[n]]
      /\ head' = head /\ tail' = tail
  BY <1>3, <1>4 DEF UnlinkNth, Free
<1>6. /\ s[n] \in Node /\ s[n - 1] \in Node /\ s[n + 1] \in Node
      /\ s[n - 1] # s[n] /\ s[n + 1] # s[n] BY <1>1, <1>2
<1>7. next' \in [Node -> Node \union {None}] /\ prev' \in [Node -> Node \union {None}]
  BY <1>5, <1>6 DEF Links
<1>9. \A i \in 1 .. m : i # n => next'[s[i]] = IF i = n - 1 THEN next[s[n]] ELSE next[s[i]]
  <2> SUFFICES ASSUME NEW i \in 1 .. m, i # n PROVE next'[s[i]] = IF i = n - 1 THEN next[s[n]] ELSE next[s[i]]
    OBVIOUS
  <2>1. s[i] \in Node /\ s[i] # s[n] /\ (s[i] = s[n - 1] <=> i = n - 1) BY <1>1, <1>2
  <2> QED BY <1>4, <1>5, <1>6, <2>1 DEF Links
<1>10. \A i \in 1 .. m : i # n => prev'[s[i]] = IF i = n + 1 THEN prev[s[n]] ELSE prev[s[i]]
  <2> SUFFICES ASSUME NEW i \in 1 .. m, i # n PROVE prev'[s[i]] = IF i = n + 1 THEN prev[s[n]] ELSE prev[s[i]]
    OBVIOUS
  <2>1. s[i] \in Node /\ s[i] # s[n] /\ (s[i] = s[n + 1] <=> i = n + 1) BY <1>1, <1>2
  <2> QED BY <1>4, <1>5, <1>6, <2>1 DEF Links
<1> QED BY <1>2, <1>5, <1>7, <1>9, <1>10 DEF Unlinked

-----------------------------------------------------------------------------
(* The inductive invariant of the list: some row of cells is its chain.     *)
ListInv == Links /\ \E s, m : Row(s, m) /\ Chain(s, m)

(* A new list is empty, and so is the deque.                                *)
LEMMA ListStart == queue_new => ListInv /\ Queued!Init
<1> SUFFICES ASSUME queue_new PROVE ListInv /\ Queued!Init
  OBVIOUS
<1>1. Links BY DEF queue_new, Links
<1>2. Row(<<>>, 0) BY DEF Row
<1>3. Chain(<<>>, 0) BY DEF queue_new, Chain
<1>4. Listed = <<>>
  <2>1. Listed \in Seq(Value) /\ Len(Listed) = 0 BY <1>1, <1>2, <1>3, ListedSeq
  <2> QED BY <2>1, EmptySeq
<1>5. got = None /\ queue # "crashed" BY DEF queue_new
<1>6. ListInv BY <1>1, <1>2, <1>3 DEF ListInv
<1> QED BY <1>4, <1>5, <1>6 DEF Queued!Init

(* A push and a pop, as what they do to the deque.                          *)
LEMMA Pushed ==
  ASSUME NEW s, NEW m, NEW k, NEW c, NEW d, Links, Row(s, m), Chain(s, m), Linked(s, m, k, c, d),
         got' = None
  PROVE  ListInv' /\ Queued!Call
<1>1. ListInv' BY LinkedChain DEF ListInv, Row
<1>2. /\ Listed \in Seq(Value) /\ Listed' \in Seq(Value) /\ d \in Value /\ Len(Listed) = m
      /\ PutIn(Listed, Listed', k, d) BY LinkedListed
<1>3. m \in Nat /\ k \in 1 .. m + 1 /\ d \in Item BY DEF Row, Linked
<1>4. CASE k = 1
  <2>1. Listed' = <<d>> \o Listed BY <1>2, <1>4, PutInFront
  <2> QED BY <1>1, <1>3, <2>1 DEF Queued!Call, Queued!PushHead
<1>5. CASE k = m + 1
  <2>1. Listed' = Append(Listed, d) BY <1>2, <1>5, PutBehind
  <2> QED BY <1>1, <1>3, <2>1 DEF Queued!Call, Queued!PushTail
<1>6. CASE k # 1 /\ k # m + 1
  <2>1. k \in 2 .. Len(Listed) /\ k \in 1 .. Len(Listed) BY <1>2, <1>3, <1>6
  <2>2. Listed' = SubSeq(Listed, 1, k - 1) \o <<d>> \o SubSeq(Listed, k, Len(Listed))
    BY <1>2, <2>1, PutBetween
  <2>3. Queued!PushNth(d, k) BY <2>1, <2>2 DEF Queued!PushNth, Queued!InsertAt
  <2> QED BY <1>1, <1>3, <2>1, <2>3 DEF Queued!Call
<1> QED BY <1>4, <1>5, <1>6

LEMMA Popped ==
  ASSUME NEW s, NEW m, NEW k, Links, Row(s, m), Chain(s, m), Unlinked(s, m, k), got' = item[s[k]]
  PROVE  ListInv' /\ Queued!Call
<1>1. ListInv' BY UnlinkedChain DEF ListInv, Row
<1>2. /\ Listed \in Seq(Value) /\ Listed' \in Seq(Value) /\ Len(Listed) = m
      /\ k \in 1 .. Len(Listed) /\ Listed[k] = item[s[k]]
      /\ TakenOut(Listed, Listed', k) BY UnlinkedListed
<1>3. Listed' = SubSeq(Listed, 1, k - 1) \o SubSeq(Listed, k + 1, Len(Listed))
  BY <1>2, TakeBetween
<1>4. Queued!Pop(k) BY <1>2, <1>3 DEF Queued!Pop, Queued!RemoveAt
<1> QED BY <1>1, <1>2, <1>4 DEF Queued!Call

(* What does not touch the links leaves what is listed alone.               *)
LEMMA ListKept ==
  ASSUME ListInv, UNCHANGED links
  PROVE  ListInv' /\ UNCHANGED Listed
<1>1. PICK s, m : Links /\ Row(s, m) /\ Chain(s, m) BY DEF ListInv
<1>2. Links' /\ Row(s, m) /\ Chain(s, m)'
  <2>1. Links' BY <1>1 DEF Links, links
  <2>2. Chain(s, m)' BY <1>1 DEF Chain, links
  <2> QED BY <1>1, <2>1, <2>2
<1>3. ListedFrom(s, m) BY <1>1, ListedNow
<1>4. ListedFrom(s, m)' BY <1>2, ListedThen DEF Row
<1>5. /\ Listed \in Seq(Value) /\ Listed' \in Seq(Value) /\ Len(Listed) = m /\ Len(Listed') = m
      /\ \A i \in 1 .. m : Listed[i] = item[s[i]] /\ Listed'[i] = item[s[i]]
  BY <1>3, <1>4 DEF ListedFrom, links, Value
<1>6. Listed' = Listed
  <2>1. Len(Listed') = Len(Listed) /\ \A i \in 1 .. Len(Listed') : Listed'[i] = Listed[i] BY <1>5
  <2> QED BY <1>5, <2>1, SeqEqual
<1>7. ListInv' BY <1>2 DEF ListInv, Row
<1> QED BY <1>6, <1>7

(* Popping at an end, where there may be nothing.                           *)
LEMMA EndPopped ==
  ASSUME ListInv, UnlinkHead \/ UnlinkTail
  PROVE  ListInv' /\ Queued!Call
<1>1. PICK s, m : Links /\ Row(s, m) /\ Chain(s, m) BY DEF ListInv
<1>2. CASE m # 0
  <2>1. CASE UnlinkHead
    <3>1. Unlinked(s, m, 1) /\ got' = item[s[1]] BY <1>1, <1>2, <2>1, HeadUnlinked
    <3> QED BY <1>1, <3>1, Popped
  <2>2. CASE UnlinkTail
    <3>1. Unlinked(s, m, m) /\ got' = item[s[m]] BY <1>1, <1>2, <2>2, TailUnlinked
    <3> QED BY <1>1, <3>1, Popped
  <2> QED BY <2>1, <2>2
<1>3. CASE m = 0
  <2>1. head = None /\ tail = None BY <1>1, <1>3 DEF Chain
  <2>2. got' = None /\ UNCHANGED links BY <2>1 DEF UnlinkHead, UnlinkTail
  <2>3. ListInv' /\ UNCHANGED Listed BY <2>2, ListKept
  <2>4. Listed = <<>>
    <3>1. Listed \in Seq(Value) /\ Len(Listed) = 0 BY <1>1, <1>3, ListedSeq
    <3> QED BY <3>1, EmptySeq
  <2> QED BY <2>2, <2>3, <2>4 DEF Queued!Call, Queued!PopNothing
<1> QED BY <1>2, <1>3

DequeStep == ListInv' /\ (Queued!Call \/ UNCHANGED <<Listed, got>>)

(* Each call is a call of the deque, or leaves it alone.                    *)
LEMMA PushHeadStep ==
  ASSUME ListInv, NEW c, NEW d \in Item, queue_push_head(c, d)
  PROVE  DequeStep
<1>1. PICK s, m : Links /\ Row(s, m) /\ Chain(s, m) BY DEF ListInv
<1>2. LinkHead(d) /\ got' = None BY DEF queue_push_head
<1>3. PICK n : Linked(s, m, 1, n, d) BY <1>1, <1>2, HeadLinked
<1> QED BY <1>1, <1>2, <1>3, Pushed DEF DequeStep

LEMMA PushTailStep ==
  ASSUME ListInv, NEW c, NEW d \in Item, queue_push_tail(c, d)
  PROVE  DequeStep
<1>1. PICK s, m : Links /\ Row(s, m) /\ Chain(s, m) BY DEF ListInv
<1>2. LinkTail(d) /\ got' = None BY DEF queue_push_tail
<1>3. PICK n : Linked(s, m, m + 1, n, d) BY <1>1, <1>2, TailLinked
<1> QED BY <1>1, <1>2, <1>3, Pushed DEF DequeStep

LEMMA PushNthStep ==
  ASSUME ListInv, NEW c, NEW d \in Item, NEW n, queue_push_nth(c, d, n)
  PROVE  DequeStep
<1>1. PICK s, m : Links /\ Row(s, m) /\ Chain(s, m) BY DEF ListInv
<1>2. CASE UNCHANGED <<links, got>> BY <1>2, ListKept DEF DequeStep
<1>3. CASE n \in 2 .. length /\ got' = None /\ \E p \in Node \ used : LinkNth(p, d, n)
  <2>1. PICK p : LinkNth(p, d, n) BY <1>3
  <2>2. n \in 2 .. m BY <1>1, <1>3 DEF Chain
  <2>3. Linked(s, m, n, p, d) BY <1>1, <2>1, <2>2, NthLinked
  <2> QED BY <1>1, <1>3, <2>3, Pushed DEF DequeStep
<1>4. UNCHANGED <<links, got>> \/ (n \in 2 .. length /\ got' = None /\ \E p \in Node \ used : LinkNth(p, d, n))
  BY DEF queue_push_nth, LinkNth
<1> QED BY <1>2, <1>3, <1>4

LEMMA PopHeadStep ==
  ASSUME ListInv, NEW c, queue_pop_head(c)
  PROVE  DequeStep
BY EndPopped DEF queue_pop_head, DequeStep

LEMMA PopTailStep ==
  ASSUME ListInv, NEW c, queue_pop_tail(c)
  PROVE  DequeStep
BY EndPopped DEF queue_pop_tail, DequeStep

LEMMA PopNthStep ==
  ASSUME ListInv, NEW c, NEW n, queue_pop_nth(c, n)
  PROVE  DequeStep
<1>1. PICK s, m : Links /\ Row(s, m) /\ Chain(s, m) BY DEF ListInv
<1>2. CASE UNCHANGED <<links, got>> BY <1>2, ListKept DEF DequeStep
<1>3. CASE n \in 2 .. length - 1 /\ UnlinkNth(n)
  <2>1. n \in 2 .. m - 1 BY <1>1, <1>3 DEF Chain
  <2>2. Unlinked(s, m, n) /\ got' = item[s[n]] BY <1>1, <1>3, <2>1, NthUnlinked
  <2> QED BY <1>1, <2>2, Popped DEF DequeStep
<1>4. UNCHANGED <<links, got>> \/ (n \in 2 .. length - 1 /\ UnlinkNth(n))
  BY DEF queue_pop_nth, UnlinkNth
<1> QED BY <1>2, <1>3, <1>4

LEMMA PeekStep ==
  ASSUME ListInv, NEW c, queue_pre_pop_head(c)
  PROVE  DequeStep
<1>1. PICK s, m : Links /\ Row(s, m) /\ Chain(s, m) BY DEF ListInv
<1>2. UNCHANGED links /\ got' = IF head = None THEN None ELSE item[head] BY DEF queue_pre_pop_head
<1>3. ListInv' /\ UNCHANGED Listed BY <1>2, ListKept
<1>4. /\ m \in Nat /\ Listed \in Seq(Value) /\ Len(Listed) = m
      /\ \A i \in 1 .. m : Listed[i] = item[s[i]] BY <1>1, ListedSeq
<1>5. CASE m = 0
  <2>1. head = None BY <1>1, <1>5 DEF Chain
  <2>2. Listed = <<>> BY <1>4, <1>5, EmptySeq
  <2> QED BY <1>2, <1>3, <2>1, <2>2 DEF DequeStep, Queued!Call, Queued!PopNothing
<1>6. CASE m # 0
  <2>1. 1 \in 1 .. m BY <1>4, <1>6
  <2>2. head = s[1] /\ s[1] \in Node BY <1>1, <1>6, <2>1 DEF Chain, Row
  <2>3. head # None BY <2>2, NodeAssumption
  <2>4. Listed # <<>> BY <1>4, <1>6, EmptySeq
  <2>5. got' = Listed[1] BY <1>2, <1>4, <2>1, <2>2, <2>3
  <2> QED BY <1>3, <2>4, <2>5 DEF DequeStep, Queued!Call, Queued!Peek
<1> QED BY <1>5, <1>6

LEMMA FlushBeginStep ==
  ASSUME ListInv, NEW c, flush_begin(c)
  PROVE  DequeStep
<1>1. UNCHANGED <<links, got>> BY DEF flush_begin
<1> QED BY <1>1, ListKept DEF DequeStep

LEMMA FlushPopStep ==
  ASSUME ListInv, NEW c, flush_pop(c)
  PROVE  DequeStep
BY EndPopped DEF flush_pop, DequeStep

(* So is every step of the list.                                            *)
LEMMA QueueStep ==
  ASSUME ListInv, [QueueNext]_queue_vars
  PROVE  DequeStep
<1>1. CASE UNCHANGED queue_vars
  <2>1. UNCHANGED <<links, got>> BY <1>1 DEF queue_vars
  <2> QED BY <2>1, ListKept DEF DequeStep
<1>2. CASE QueueNext
  BY <1>2, PushHeadStep, PushTailStep, PushNthStep, PopHeadStep, PopTailStep, PopNthStep, PeekStep,
     FlushBeginStep, FlushPopStep DEF QueueNext
<1> QED BY <1>1, <1>2

(* Only popping the last of several nodes by its number stops the program,  *)
(* and then nothing is called any more.                                     *)
LEMMA CrashesOnce ==
  ASSUME [QueueNext]_queue_vars, UNCHANGED (queue = "crashed") => FALSE
  PROVE  PopsLastByNumber
<1>1. PICK c \in Caller, n \in Depth : queue_pop_nth(c, n) /\ n = length /\ n > 1 /\ queue' = "crashed"
  BY DEF QueueNext, queue_push_head, queue_push_tail, queue_push_nth, queue_pop_head, queue_pop_tail,
         queue_pop_nth, queue_pre_pop_head, flush_begin, flush_pop, Idle, Does, queue_vars
<1>2. length \in Depth /\ length > 1 /\ queue' = "crashed" BY <1>1
<1> QED BY <1>2 DEF PopsLastByNumber

(* The doubly linked list of dt_queue.c implements a deque, whichever way its *)
(* walks go, for every number of cells and of callers and every place that is *)
(* asked for: no item is lost, doubled or out of its place, and a call      *)
(* returns the item that the deque returns, except the one that stops the   *)
(* program.                                                                 *)
THEOREM ListIsDeque == QueueSpec => DequeButForLast
<1>1. queue_new => ListInv /\ Queued!Init BY ListStart
<1>2. ListInv /\ [QueueNext]_queue_vars
        => ListInv' /\ [Queued!Next \/ PopsLastByNumber]_<<Listed, got, queue = "crashed">>
  <2> SUFFICES ASSUME ListInv, [QueueNext]_queue_vars
               PROVE  ListInv' /\ [Queued!Next \/ PopsLastByNumber]_<<Listed, got, queue = "crashed">>
    OBVIOUS
  <2>1. DequeStep BY QueueStep
  <2>2. CASE UNCHANGED (queue = "crashed")
    <3>1. UNCHANGED (queue # "crashed") BY <2>2
    <3> QED BY <2>1, <2>2, <3>1 DEF DequeStep, Queued!Next
  <2>3. CASE (UNCHANGED (queue = "crashed")) => FALSE BY <2>1, <2>3, CrashesOnce DEF DequeStep
  <2> QED BY <2>2, <2>3
<1> QED BY <1>1, <1>2, PTL DEF QueueSpec, DequeButForLast

-----------------------------------------------------------------------------

(* The video decoder: how many packets the codec has had and how many pictures *)
(* came out of it; what is held inside is the difference, and picture i was *)
(* pushed i-th.                                                             *)
Packets == IF packet_pending THEN next_packet - 1 ELSE next_packet
Out == IF vdec = "push" THEN Len(pushed) + 1 ELSE Len(pushed)

VdecTypeOK ==
  /\ video \in Videos /\ pts_mode \in BOOLEAN /\ untimed \in Untimed
  /\ next_packet \in 0 .. Len(video) /\ packet_pending \in BOOLEAN
  /\ vdec \in {"top", "send", "receive", "empty", "push"}
  /\ pushed \in Seq([picture : Nat, pts : Int])
  /\ pts_current \in Int
  /\ packet_pending => next_packet >= 1
  /\ vdec = "send" => packet_pending

Held(k, n) ==
  /\ 1 .. n \subseteq Sent(video, k)
  /\ held = Sent(video, k) \ (1 .. n)

Numbered == \A i \in DOMAIN pushed : pushed[i].picture = i

VdecInv ==
  /\ VdecTypeOK /\ Numbered
  /\ Held(Packets, Out)
  /\ vdec = "push" => taken_out = Len(pushed) + 1

(* The codec's contract: with more than Delay pictures inside, the next one *)
(* is among them.                                                           *)
LEMMA NextIsInside ==
  ASSUME VdecTypeOK, NEW k \in 0 .. Len(video), NEW n \in Nat, Held(k, n), Ready
  PROVE  Min(held) = n + 1 /\ n + 1 \in held
<1>1. video \in Videos /\ video \in Seq(SUBSET Nat) /\ Len(video) \in Nat /\ Delay \in Nat
  BY DecoderAssumption, LenProperties DEF VdecTypeOK
<1> DEFINE All == Sent(video, Len(video))
<1>2. PICK last \in 0 .. Cardinality(All) : All = 1 .. last BY <1>1, DelayAssumption
<1>3. Sent(video, k) \subseteq All
  <2>1. 1 .. k \subseteq 1 .. Len(video) BY <1>1
  <2> QED BY <2>1 DEF Sent
<1>4. held # {}
  <2> SUFFICES ASSUME held = {} PROVE FALSE
    OBVIOUS
  <2>1. Cardinality(held) = 0 BY FS_EmptySet
  <2> QED BY <1>1, <2>1 DEF Ready
<1>5. last \in Int /\ \A x \in All : x \in Int /\ 1 <= x /\ x <= last
  <2>1. last \in Int BY <1>2
  <2> QED BY <1>2, <2>1
<1> HIDE DEF All
<1>6. \A x \in held : x \in Int /\ x > n /\ x \in All
  <2> SUFFICES ASSUME NEW x \in held PROVE x \in Int /\ x > n /\ x \in All
    OBVIOUS
  <2>1. x \in All /\ x \notin 1 .. n BY <1>3 DEF Held
  <2> QED BY <1>5, <2>1
<1>7. n + 1 \in held
  <2> SUFFICES ASSUME n + 1 \notin held PROVE FALSE
    OBVIOUS
  <2>1. n + 1 \notin Sent(video, k) BY DEF Held
  <2>2. n + 1 \in All
    <3>1. PICK x \in held : TRUE BY <1>4
    <3>2. x > n /\ x \in Int /\ x <= last BY <1>5, <1>6, <3>1
    <3>3. n + 1 \in 1 .. last BY <1>5, <3>2
    <3> QED BY <1>2, <3>3 DEF All
  <2>3. held = {x \in Sent(video, k) : x > n + 1}
    <3>1. \A x \in held : x \in Sent(video, k) /\ x # n + 1 /\ x > n /\ x \in Int BY <1>6, <2>1 DEF Held
    <3>2. \A x \in held : x > n + 1 BY <3>1
    <3>3. \A x \in Sent(video, k) : x > n + 1 => x \in held
      <4> SUFFICES ASSUME NEW x \in Sent(video, k), x > n + 1 PROVE x \in held
        OBVIOUS
      <4>1. x \in Int BY <1>3, <1>5
      <4>2. x \notin 1 .. n BY <4>1
      <4> QED BY <4>2 DEF Held
    <3> QED BY <3>1, <3>2, <3>3
  <2>4. k \in DOMAIN video
    <3>1. k # 0
      <4>1. Sent(video, 0) = {} BY DEF Sent
      <4> QED BY <1>4, <4>1 DEF Held
    <3>2. k \in 1 .. Len(video) BY <1>1, <3>1
    <3> QED BY <1>1, <3>2, LenProperties
  <2>5. Cardinality(held) <= Delay BY <1>1, <2>1, <2>2, <2>3, <2>4, DelayAssumption DEF All
  <2>6. Cardinality(held) \in Nat
    <3>1. IsFiniteSet(1 .. last) BY <1>5, FS_Interval
    <3>2. held \subseteq 1 .. last BY <1>2, <1>6 DEF All
    <3>3. IsFiniteSet(held) BY <3>1, <3>2, FS_Subset
    <3> QED BY <3>3, FS_CardinalityType
  <2> QED BY <1>1, <2>5, <2>6 DEF Ready
<1>8. \A x \in held : n + 1 <= x BY <1>6
<1>9. \E x \in held : \A y \in held : x <= y BY <1>7, <1>8
<1>10. Min(held) \in held /\ \A y \in held : Min(held) <= y BY <1>9 DEF Min
<1>11. Min(held) = n + 1 BY <1>6, <1>7, <1>8, <1>10
<1> QED BY <1>7, <1>11

(* Nothing has been sent to the codec and nothing came out of it.           *)
LEMMA VdecStart == VdecInit => VdecInv
<1> SUFFICES ASSUME VdecInit PROVE VdecInv
  OBVIOUS
<1>1. video \in Videos /\ video \in Seq(SUBSET Nat) /\ Len(video) \in Nat
  BY DecoderAssumption, LenProperties DEF VdecInit, VdecIdle
<1>2. VdecTypeOK
  <2>1. pushed \in Seq([picture : Nat, pts : Int]) BY EmptySeq DEF VdecInit, VdecIdle
  <2>2. pts_current \in Int BY DEF VdecInit, VdecIdle, NoPts
  <2>3. next_packet \in 0 .. Len(video) BY <1>1 DEF VdecInit, VdecIdle
  <2>4. packet_pending \in BOOLEAN /\ ~packet_pending BY DEF VdecInit, VdecIdle
  <2>5. vdec = "top" /\ pts_mode \in BOOLEAN /\ untimed \in Untimed BY DEF VdecInit, VdecIdle
  <2> QED BY <1>1, <2>1, <2>2, <2>3, <2>4, <2>5 DEF VdecTypeOK
<1>3. Numbered BY DEF VdecInit, VdecIdle, Numbered
<1>4. Packets = 0 /\ Out = 0 BY DEF VdecInit, VdecIdle, Packets, Out
<1>5. Held(0, 0)
  <2>1. Sent(video, 0) = {} BY DEF Sent
  <2> QED BY <2>1 DEF VdecInit, VdecIdle, ffmpeg_vdec_init, Held
<1>6. vdec # "push" BY DEF VdecInit
<1> QED BY <1>2, <1>3, <1>4, <1>5, <1>6 DEF VdecInv

(* Steps that leave the codec and what came out of it alone.                *)
Quiet ==
  /\ UNCHANGED <<video, untimed, pts_mode, held, pushed, pts_current>>
  /\ Packets' = Packets
  /\ vdec # "push" /\ vdec' # "push"

(* They keep the invariant, as long as they keep the types.                 *)
LEMMA QuietStep ==
  ASSUME VdecInv, Quiet, VdecTypeOK'
  PROVE  VdecInv'
<1>1. Numbered' BY DEF VdecInv, Numbered, Quiet
<1>2. Out' = Out BY DEF Out, Quiet
<1>3. Held(Packets, Out)' BY <1>2 DEF VdecInv, Held, Quiet
<1> QED BY <1>1, <1>3 DEF VdecInv, Quiet

(* The types of what the decoder counts.                                    *)
LEMMA VdecTyped ==
  ASSUME VdecTypeOK
  PROVE  /\ video \in Seq(SUBSET Nat) /\ Len(video) \in Nat /\ Delay \in Nat
         /\ next_packet \in Nat /\ Packets \in 0 .. Len(video)
         /\ Len(pushed) \in Nat /\ DOMAIN pushed = 1 .. Len(pushed)
<1>1. video \in Seq(SUBSET Nat) /\ Len(video) \in Nat /\ Delay \in Nat
  BY DecoderAssumption, LenProperties DEF VdecTypeOK
<1>2. Len(pushed) \in Nat /\ DOMAIN pushed = 1 .. Len(pushed) BY LenProperties DEF VdecTypeOK
<1> QED BY <1>1, <1>2 DEF VdecTypeOK, Packets

(* Reading a packet, and finding none, is quiet.                            *)
LEMMA ReadPacket == ASSUME VdecInv, read_packet PROVE VdecInv'
<1>1. VdecTypeOK' BY VdecTyped DEF VdecInv, VdecTypeOK, read_packet, streamVars, timeVars
<1>2. Quiet BY VdecTyped DEF VdecInv, VdecTypeOK, Quiet, Packets, read_packet, streamVars, timeVars
<1> QED BY <1>1, <1>2, QuietStep

LEMMA PendingPacket == ASSUME VdecInv, pending_packet PROVE VdecInv'
<1>1. VdecTypeOK' BY VdecTyped DEF VdecInv, VdecTypeOK, pending_packet, streamVars, timeVars
<1>2. Quiet BY DEF Quiet, Packets, pending_packet, streamVars, timeVars
<1> QED BY <1>1, <1>2, QuietStep

LEMMA ReadNothing == ASSUME VdecInv, read_nothing PROVE VdecInv'
<1>1. VdecTypeOK' BY VdecTyped DEF VdecInv, VdecTypeOK, read_nothing, streamVars, timeVars
<1>2. Quiet BY DEF Quiet, Packets, read_nothing, streamVars, timeVars
<1> QED BY <1>1, <1>2, QuietStep

LEMMA ReceiveFailed == ASSUME VdecInv, receive_failed PROVE VdecInv'
<1>1. VdecTypeOK' BY VdecTyped DEF VdecInv, VdecTypeOK, receive_failed, streamVars, timeVars
<1>2. Quiet BY DEF Quiet, Packets, receive_failed, streamVars, timeVars
<1> QED BY <1>1, <1>2, QuietStep

(* Sending the k-th packet adds its pictures, none of which was sent before. *)
LEMMA SentMore ==
  ASSUME NEW v \in Videos, NEW k \in 1 .. Len(v)
  PROVE  Sent(v, k) = Sent(v, k - 1) \cup v[k] /\ Sent(v, k - 1) \cap v[k] = {}
<1>1. v \in Seq(SUBSET Nat) /\ Len(v) \in Nat /\ DOMAIN v = 1 .. Len(v) BY DecoderAssumption, LenProperties
<1>2. 1 .. k = (1 .. k - 1) \cup {k} BY <1>1
<1>3. Sent(v, k) = Sent(v, k - 1) \cup v[k] BY <1>2 DEF Sent
<1>4. \A i \in 1 .. k - 1 : v[i] \cap v[k] = {}
  <2> SUFFICES ASSUME NEW i \in 1 .. k - 1 PROVE v[i] \cap v[k] = {}
    OBVIOUS
  <2>1. i \in DOMAIN v /\ k \in DOMAIN v /\ i # k BY <1>1
  <2> QED BY <2>1, DelayAssumption
<1>5. Sent(v, k - 1) \cap v[k] = {} BY <1>4 DEF Sent
<1> QED BY <1>3, <1>5

(* A packet that is accepted leaves its pictures in the codec.              *)
LEMMA SendPacket == ASSUME VdecInv, send_packet PROVE VdecInv'
<1>0. VdecTypeOK /\ packet_pending /\ next_packet \in 1 .. Len(video)
  BY VdecTyped DEF VdecInv, VdecTypeOK, send_packet
<1>1. VdecTypeOK'
  BY VdecTyped DEF VdecInv, VdecTypeOK, send_packet, PendingAfter, streamVars, timeVars
<1>2. PICK taken \in BOOLEAN :
        /\ held' = IF taken THEN held \cup video[next_packet] ELSE held
        /\ packet_pending' = ~taken
  BY DEF send_packet, PendingAfter
<1>3. /\ vdec = "send" /\ vdec' = "receive" /\ video' = video /\ next_packet' = next_packet
      /\ pushed' = pushed /\ untimed' = untimed /\ pts_mode' = pts_mode /\ pts_current' = pts_current
  BY DEF send_packet, streamVars, timeVars
<1>4. CASE ~taken
  <2>1. Quiet BY <1>0, <1>2, <1>3, <1>4 DEF Quiet, Packets
  <2> QED BY <1>1, <2>1, QuietStep
<1>5. CASE taken
  <2>1. Packets = next_packet - 1 /\ Packets' = next_packet BY <1>0, <1>2, <1>3, <1>5 DEF Packets
  <2>2. Out' = Out BY <1>3 DEF Out
  <2>3. /\ Sent(video, next_packet) = Sent(video, next_packet - 1) \cup video[next_packet]
        /\ Sent(video, next_packet - 1) \cap video[next_packet] = {}
    BY <1>0, SentMore DEF VdecTypeOK
  <2>4. Held(next_packet - 1, Out) BY <2>1 DEF VdecInv
  <2>5. held' = held \cup video[next_packet] BY <1>2, <1>5
  <2>6. /\ 1 .. Out \subseteq Sent(video, next_packet)
        /\ held' = Sent(video, next_packet) \ (1 .. Out) BY <2>3, <2>4, <2>5 DEF Held
  <2>7. Held(Packets, Out)' BY <1>3, <2>1, <2>2, <2>6 DEF Held
  <2>8. Numbered' BY <1>3 DEF VdecInv, Numbered
  <2> QED BY <1>1, <1>3, <2>7, <2>8 DEF VdecInv
<1> QED BY <1>4, <1>5

(* The picture that is taken out is the next one to be shown.               *)
LEMMA ReceiveFrame == ASSUME VdecInv, receive_frame PROVE VdecInv'
<1>0. VdecTypeOK /\ Held(Packets, Out) BY DEF VdecInv
<1>1. VdecTypeOK' BY VdecTyped DEF VdecInv, VdecTypeOK, receive_frame, streamVars, timeVars
<1>2. /\ vdec = "receive" /\ Packets' = Packets /\ video' = video /\ pushed' = pushed
      /\ untimed' = untimed /\ pts_mode' = pts_mode /\ pts_current' = pts_current
  BY DEF receive_frame, Packets, streamVars, timeVars
<1>3. CASE ~Ready
  <2>1. Quiet BY <1>2, <1>3 DEF Quiet, receive_frame
  <2> QED BY <1>1, <2>1, QuietStep
<1>4. CASE Ready
  <2>0. Packets \in 0 .. Len(video) /\ Len(pushed) \in Nat BY <1>0, VdecTyped
  <2>1. Out = Len(pushed) /\ Out \in Nat BY <1>2, <2>0 DEF Out
  <2>2. Min(held) = Out + 1 /\ Out + 1 \in held BY <1>0, <1>4, <2>0, <2>1, NextIsInside
  <2>3. taken_out' = Len(pushed) + 1 /\ held' = held \ {Out + 1} /\ vdec' = "push"
    BY <1>4, <2>1, <2>2 DEF receive_frame
  <2>4. Out' = Out + 1 BY <1>2, <2>1, <2>3 DEF Out
  <2>5. 1 .. Out + 1 = (1 .. Out) \cup {Out + 1} BY <2>1
  <2>6. /\ 1 .. Out + 1 \subseteq Sent(video, Packets)
        /\ held' = Sent(video, Packets) \ (1 .. Out + 1)
    BY <1>0, <2>2, <2>3, <2>5 DEF Held
  <2>7. Held(Packets, Out)' BY <1>2, <2>4, <2>6 DEF Held
  <2>8. Numbered' BY <1>2 DEF VdecInv, Numbered
  <2> QED BY <1>1, <1>2, <2>3, <2>7, <2>8 DEF VdecInv
<1> QED BY <1>3, <1>4

(* It is pushed under its number, the next one.                             *)
LEMMA PushPicture == ASSUME VdecInv, push_picture PROVE VdecInv'
<1>0. VdecTypeOK /\ Held(Packets, Out) /\ Len(pushed) \in Nat BY VdecTyped DEF VdecInv
<1>1. /\ vdec = "push" /\ vdec' = "top" /\ Packets' = Packets /\ video' = video /\ held' = held
      /\ pushed' = Append(pushed, [picture |-> taken_out, pts |-> Pts])
      /\ taken_out = Len(pushed) + 1
  BY DEF VdecInv, push_picture, Packets, streamVars
<1>2. Pts \in Int
  <2>1. Every \in Nat /\ DurInc \in Nat BY DecoderAssumption
  <2> QED BY <1>0, <1>1, <2>1 DEF Pts, PictureTime, pts_exchange, NoPts, VdecTypeOK
<1>3. [picture |-> taken_out, pts |-> Pts] \in [picture : Nat, pts : Int] BY <1>0, <1>1, <1>2
<1>4. /\ pushed' \in Seq([picture : Nat, pts : Int])
      /\ Len(pushed') = Len(pushed) + 1
      /\ \A i \in 1 .. Len(pushed) : pushed'[i] = pushed[i]
      /\ pushed'[Len(pushed) + 1] = [picture |-> taken_out, pts |-> Pts]
  BY <1>0, <1>1, <1>3, AppendProperties DEF VdecTypeOK
<1>5. VdecTypeOK'
  BY <1>0, <1>2, <1>4 DEF VdecTypeOK, push_picture, streamVars
<1>6. Numbered'
  <2>1. DOMAIN pushed' = 1 .. Len(pushed) + 1 BY <1>4, LenProperties
  <2>2. ASSUME NEW i \in 1 .. Len(pushed) + 1 PROVE pushed'[i].picture = i
    <3>1. CASE i = Len(pushed) + 1 BY <1>1, <1>4, <3>1
    <3>2. CASE i # Len(pushed) + 1
      <4>1. i \in 1 .. Len(pushed) /\ i \in DOMAIN pushed BY <1>0, <3>2, VdecTyped
      <4>2. pushed[i].picture = i BY <4>1 DEF VdecInv, Numbered
      <4> QED BY <1>4, <4>1, <4>2
    <3> QED BY <3>1, <3>2
  <2> QED BY <2>1, <2>2 DEF Numbered
<1>7. Out' = Out BY <1>1, <1>4 DEF Out
<1>8. Held(Packets, Out)' BY <1>0, <1>1, <1>7 DEF Held
<1> QED BY <1>1, <1>5, <1>6, <1>8 DEF VdecInv

(* The invariant is inductive.                                              *)
LEMMA VdecInductive == VdecInv /\ [VdecNext]_vdec_vars => VdecInv'
<1> SUFFICES ASSUME VdecInv, [VdecNext]_vdec_vars PROVE VdecInv'
  OBVIOUS
<1>1. CASE UNCHANGED vdec_vars
  <2>1. VdecTypeOK' BY <1>1 DEF VdecInv, VdecTypeOK, vdec_vars
  <2>2. Numbered' BY <1>1 DEF VdecInv, Numbered, vdec_vars
  <2>3. Held(Packets, Out)' BY <1>1 DEF VdecInv, Held, Packets, Out, vdec_vars
  <2> QED BY <1>1, <2>1, <2>2, <2>3 DEF VdecInv, vdec_vars
<1>2. CASE VdecNext
  BY <1>2, ReadPacket, PendingPacket, ReadNothing, SendPacket, ReceiveFrame, ReceiveFailed, PushPicture
     DEF VdecNext
<1> QED BY <1>1, <1>2

(* Times: the last counted one is the last one's when times are counted, and *)
(* else every picture has the time of its place.                            *)
Timely ==
  /\ untimed = {}
  /\ pts_mode /\ pushed # <<>> => pts_current = pushed[Len(pushed)].pts
  /\ ~pts_mode => \A i \in DOMAIN pushed : pushed[i].pts = i * Every
  /\ \A i \in DOMAIN pushed : i > 1 => pushed[i].pts > pushed[i - 1].pts

(* And so are the times, as long as every packet has one.                   *)
LEMMA TimelyStep == VdecInv /\ Timely /\ [VdecNext]_vdec_vars => Timely'
<1> SUFFICES ASSUME VdecInv, Timely, [VdecNext]_vdec_vars PROVE Timely'
  OBVIOUS
<1>1. CASE UNCHANGED <<untimed, pts_mode, pushed, pts_current>> BY <1>1 DEF Timely
<1>2. CASE push_picture
  <2>0. VdecTypeOK /\ Len(pushed) \in Nat /\ DOMAIN pushed = 1 .. Len(pushed) BY VdecTyped DEF VdecInv
  <2>1. /\ untimed' = {} /\ pts_mode' = pts_mode /\ taken_out = Len(pushed) + 1
        /\ pushed' = Append(pushed, [picture |-> taken_out, pts |-> Pts])
        /\ pts_current' = IF First \/ Counted THEN Pts ELSE pts_current
    BY <1>2 DEF VdecInv, Timely, push_picture, streamVars
  <2>2. PICK time \in Nat : time = (Len(pushed) + 1) * Every
    <3>1. Every \in Nat BY DecoderAssumption
    <3> QED BY <2>0, <3>1
  <2>3. PictureTime = time /\ PictureTime # NoPts
    <3>1. taken_out \notin untimed BY DEF Timely
    <3>2. Len(pushed) + 1 # -1000 /\ time # -1000 BY <2>0, <2>2
    <3> QED BY <2>1, <2>2, <3>1, <3>2 DEF PictureTime, pts_exchange, NoPts
  <2>4. Counted <=> pts_mode /\ pushed # <<>> BY <2>3 DEF Counted, First
  <2>5. Pts \in Int /\ Pts = IF Counted THEN pts_current + DurInc ELSE time
    <3>1. DurInc \in Nat BY DecoderAssumption
    <3> QED BY <2>0, <2>3, <3>1 DEF Pts, VdecTypeOK
  <2>6. [picture |-> taken_out, pts |-> Pts] \in [picture : Nat, pts : Int] BY <2>0, <2>1, <2>5
  <2>7. /\ pushed' \in Seq([picture : Nat, pts : Int])
        /\ Len(pushed') = Len(pushed) + 1
        /\ \A i \in 1 .. Len(pushed) : pushed'[i] = pushed[i]
        /\ pushed'[Len(pushed) + 1] = [picture |-> taken_out, pts |-> Pts]
    BY <2>0, <2>1, <2>6, AppendProperties DEF VdecTypeOK
  <2>8. DOMAIN pushed' = 1 .. Len(pushed) + 1 BY <2>7, LenProperties
  <2>9. pushed'[Len(pushed) + 1].pts = Pts BY <2>7
  <2>10. pts_mode' => pts_current' = pushed'[Len(pushed')].pts
    BY <2>1, <2>4, <2>7, <2>9 DEF First
  <2>11. ~pts_mode => \A i \in DOMAIN pushed' : pushed'[i].pts = i * Every
    <3> SUFFICES ASSUME ~pts_mode, NEW i \in 1 .. Len(pushed) + 1 PROVE pushed'[i].pts = i * Every
      BY <2>8
    <3>1. CASE i = Len(pushed) + 1 BY <2>2, <2>4, <2>5, <2>9, <3>1
    <3>2. CASE i # Len(pushed) + 1
      <4>1. i \in 1 .. Len(pushed) BY <2>0, <3>2
      <4>2. pushed[i].pts = i * Every BY <2>0, <4>1 DEF Timely
      <4> QED BY <2>7, <4>1, <4>2
    <3> QED BY <3>1, <3>2
  <2>12. pushed # <<>> => Pts > pushed[Len(pushed)].pts
    <3> SUFFICES ASSUME pushed # <<>> PROVE Pts > pushed[Len(pushed)].pts
      OBVIOUS
    <3>1. Len(pushed) \in 1 .. Len(pushed) BY <2>0, EmptySeq DEF VdecTypeOK
    <3>2. pushed[Len(pushed)].pts \in Int
      <4>1. pushed[Len(pushed)] \in [picture : Nat, pts : Int] BY <2>0, <3>1, ElementOfSeq DEF VdecTypeOK
      <4> QED BY <4>1
    <3>3. CASE pts_mode
      <4>1. pts_current = pushed[Len(pushed)].pts BY <3>3 DEF Timely
      <4>2. DurInc \in Nat /\ DurInc > 0 BY DecoderAssumption
      <4> QED BY <2>4, <2>5, <3>2, <3>3, <4>1, <4>2
    <3>4. CASE ~pts_mode
      <4>1. pushed[Len(pushed)].pts = Len(pushed) * Every BY <2>0, <3>1, <3>4 DEF Timely
      <4>2. Every \in Nat /\ Every > 0 BY DecoderAssumption
      <4>3. (Len(pushed) + 1) * Every = Len(pushed) * Every + Every BY <2>0, <4>2
      <4> QED BY <2>2, <2>4, <2>5, <3>2, <3>4, <4>1, <4>2, <4>3
    <3> QED BY <3>3, <3>4
  <2>13. \A i \in DOMAIN pushed' : i > 1 => pushed'[i].pts > pushed'[i - 1].pts
    <3> SUFFICES ASSUME NEW i \in 1 .. Len(pushed) + 1, i > 1 PROVE pushed'[i].pts > pushed'[i - 1].pts
      BY <2>8
    <3>0. i - 1 \in 1 .. Len(pushed) BY <2>0
    <3>1. CASE i = Len(pushed) + 1
      <4>1. i - 1 = Len(pushed) /\ pushed # <<>> BY <2>0, <3>1
      <4>2. pushed'[i - 1] = pushed[Len(pushed)] BY <2>7, <3>0, <4>1
      <4> QED BY <2>9, <2>12, <3>1, <4>1, <4>2
    <3>2. CASE i # Len(pushed) + 1
      <4>1. i \in 1 .. Len(pushed) BY <2>0, <3>2
      <4>2. pushed[i].pts > pushed[i - 1].pts BY <2>0, <4>1 DEF Timely
      <4>3. pushed'[i] = pushed[i] /\ pushed'[i - 1] = pushed[i - 1] BY <2>7, <3>0, <4>1
      <4> QED BY <4>2, <4>3
    <3> QED BY <3>1, <3>2
  <2> QED BY <2>1, <2>10, <2>11, <2>13 DEF Timely
<1>3. UNCHANGED <<untimed, pts_mode, pushed, pts_current>> \/ push_picture
  BY DEF VdecNext, vdec_vars, read_packet, pending_packet, read_nothing, send_packet, receive_frame,
         receive_failed, streamVars, timeVars
<1> QED BY <1>1, <1>2, <1>3

(* dtvideo_decoder.c and the codec behind it: for every stream whose packets *)
(* all have a time and whose pictures the codec's delay puts in order, the  *)
(* i-th picture that is pushed is the i-th that is shown, and its time is   *)
(* later than the one before.                                               *)
THEOREM VideoInOrder == (\A u \in Untimed : u = {}) => (VdecSpec => []PicturesInOrder)
<1> SUFFICES ASSUME \A u \in Untimed : u = {} PROVE VdecSpec => []PicturesInOrder
  OBVIOUS
<1>1. VdecInit => VdecInv BY VdecStart
<1>2. VdecInit => Timely BY DEF VdecInit, VdecIdle, Timely
<1>3. VdecInv /\ [VdecNext]_vdec_vars => VdecInv' BY VdecInductive
<1>4. VdecInv /\ Timely /\ [VdecNext]_vdec_vars => Timely' BY TimelyStep
<1>5. VdecInv /\ Timely => PicturesInOrder BY DEF VdecInv, Numbered, Timely, PicturesInOrder
<1> QED BY <1>1, <1>2, <1>3, <1>4, <1>5, PTL DEF VdecSpec

-----------------------------------------------------------------------------
(* Running sums exist, as the recursion says.                               *)
Summing(g, n, from, numbers) == g = [k \in 0 .. n |-> IF k = 0 THEN from ELSE g[k - 1] + numbers[k]]

(* ... for every number of terms.                                           *)
LEMMA SummingExists ==
  ASSUME NEW from, NEW numbers
  PROVE  \A n \in Nat : \E g : Summing(g, n, from, numbers)
<1> DEFINE S == {n \in Nat : \E g : Summing(g, n, from, numbers)}
<1>1. 0 \in S
  <2> DEFINE g == [k \in 0 .. 0 |-> from]
  <2>1. Summing(g, 0, from, numbers) BY DEF Summing
  <2> HIDE DEF g
  <2> QED BY <2>1
<1>2. ASSUME NEW n \in Nat, n \in S PROVE n + 1 \in S
  <2>1. PICK g : Summing(g, n, from, numbers) BY <1>2
  <2> DEFINE h == [k \in 0 .. n + 1 |-> IF k = n + 1 THEN g[n] + numbers[n + 1] ELSE g[k]]
  <2>2. ASSUME NEW k \in 0 .. n + 1 PROVE h[k] = IF k = 0 THEN from ELSE h[k - 1] + numbers[k]
    <3>1. CASE k = 0 BY <3>1, <2>1 DEF Summing
    <3>2. CASE k = n + 1 BY <3>2
    <3>3. CASE k # 0 /\ k # n + 1
      <4>1. k \in 0 .. n /\ k - 1 \in 0 .. n BY <3>3
      <4>2. g[k] = g[k - 1] + numbers[k] BY <3>3, <4>1, <2>1 DEF Summing
      <4> QED BY <3>3, <4>1, <4>2
    <3> QED BY <3>1, <3>2, <3>3
  <2>3. h = [k \in 0 .. n + 1 |-> h[k]] OBVIOUS
  <2> HIDE DEF h
  <2>4. Summing(h, n + 1, from, numbers) BY <2>2, <2>3 DEF Summing
  <2> QED BY <2>4
<1> HIDE DEF S
<1>3. Nat \subseteq S BY <1>1, <1>2, Induct
<1> QED BY <1>3 DEF S

(* The sums of AudioDecoder are those the recursion says.                   *)
LEMMA SumsAre ==
  ASSUME NEW from \in Nat, NEW numbers \in Seq(Nat)
  PROVE  /\ Sums(from, numbers)[0] = from
         /\ \A k \in 1 .. Len(numbers) : Sums(from, numbers)[k] = Sums(from, numbers)[k - 1] + numbers[k]
         /\ \A k \in 0 .. Len(numbers) : Sums(from, numbers)[k] \in Nat
<1>0. Len(numbers) \in Nat BY LenProperties
<1> DEFINE F == CHOOSE g : g = [k \in 0 .. Len(numbers) |-> IF k = 0 THEN from ELSE g[k - 1] + numbers[k]]
<1>1. F = [k \in 0 .. Len(numbers) |-> IF k = 0 THEN from ELSE F[k - 1] + numbers[k]]
  <2>1. \E g : Summing(g, Len(numbers), from, numbers) BY <1>0, SummingExists
  <2> QED BY <2>1 DEF Summing
<1>2. Sums(from, numbers) = F BY DEF Sums
<1> HIDE DEF F
<1>3. F[0] = from BY <1>0, <1>1
<1>4. ASSUME NEW k \in 1 .. Len(numbers) PROVE F[k] = F[k - 1] + numbers[k]
  <2>1. k \in 0 .. Len(numbers) /\ k # 0 BY <1>0
  <2> QED BY <1>1, <2>1
<1> DEFINE S == {k \in Nat : k <= Len(numbers) => F[k] \in Nat}
<1>5. 0 \in S BY <1>3
<1>6. ASSUME NEW k \in Nat, k \in S PROVE k + 1 \in S
  <2> SUFFICES ASSUME k + 1 <= Len(numbers) PROVE F[k + 1] \in Nat
    OBVIOUS
  <2>1. k + 1 \in 1 .. Len(numbers) /\ (k + 1) - 1 = k /\ k <= Len(numbers) BY <1>0
  <2>2. F[k + 1] = F[k] + numbers[k + 1] BY <1>4, <2>1
  <2>3. numbers[k + 1] \in Nat BY <2>1, ElementOfSeq
  <2>4. F[k] \in Nat BY <1>6, <2>1
  <2> QED BY <2>2, <2>3, <2>4
<1> HIDE DEF S
<1>7. Nat \subseteq S BY <1>5, <1>6, Induct
<1>8. ASSUME NEW k \in 0 .. Len(numbers) PROVE F[k] \in Nat
  <2>1. k \in Nat /\ k <= Len(numbers) BY <1>0
  <2> QED BY <1>7, <2>1 DEF S
<1> QED BY <1>2, <1>3, <1>4, <1>8

(* Of finitely many numbers one is the greatest.                            *)
LEMMA GreatestOf ==
  ASSUME NEW n \in Nat \ {0}, NEW f \in [1 .. n -> Int]
  PROVE  \E x \in 1 .. n : \A y \in 1 .. n : f[x] >= f[y]
<1> DEFINE S == {k \in Nat : k + 1 <= n => \E x \in 1 .. k + 1 : \A y \in 1 .. k + 1 : f[x] >= f[y]}
<1>1. 0 \in S
  <2>1. 1 \in 1 .. 0 + 1 /\ \A y \in 1 .. 0 + 1 : y = 1 OBVIOUS
  <2>2. f[1] \in Int OBVIOUS
  <2>3. \A y \in 1 .. 0 + 1 : f[1] >= f[y] BY <2>1, <2>2
  <2> QED BY <2>1, <2>3
<1>2. ASSUME NEW k \in Nat, k \in S PROVE k + 1 \in S
  <2> SUFFICES ASSUME (k + 1) + 1 <= n
               PROVE  \E x \in 1 .. (k + 1) + 1 : \A y \in 1 .. (k + 1) + 1 : f[x] >= f[y]
    OBVIOUS
  <2>1. PICK x \in 1 .. k + 1 : \A y \in 1 .. k + 1 : f[x] >= f[y] BY <1>2
  <2>2. x \in 1 .. n /\ k + 2 \in 1 .. n /\ f[x] \in Int /\ f[k + 2] \in Int OBVIOUS
  <2>3. \A y \in 1 .. (k + 1) + 1 : y \in 1 .. k + 1 \/ y = k + 2 OBVIOUS
  <2>4. \A y \in 1 .. k + 1 : f[y] \in Int OBVIOUS
  <2>5. CASE f[x] >= f[k + 2]
    <3>1. \A y \in 1 .. (k + 1) + 1 : f[x] >= f[y] BY <2>1, <2>3, <2>5
    <3>2. x \in 1 .. (k + 1) + 1 OBVIOUS
    <3> QED BY <3>1, <3>2
  <2>6. CASE ~(f[x] >= f[k + 2])
    <3>1. ASSUME NEW y \in 1 .. (k + 1) + 1 PROVE f[k + 2] >= f[y]
      <4>1. CASE y = k + 2 BY <2>2, <4>1
      <4>2. CASE y \in 1 .. k + 1
        <5>1. f[x] >= f[y] /\ f[y] \in Int BY <2>1, <2>4, <4>2
        <5> QED BY <2>2, <2>6, <5>1
      <4> QED BY <2>3, <4>1, <4>2
    <3>2. k + 2 \in 1 .. (k + 1) + 1 OBVIOUS
    <3> QED BY <3>1, <3>2
  <2> QED BY <2>5, <2>6
<1> HIDE DEF S
<1>3. Nat \subseteq S BY <1>1, <1>2, Induct
<1>4. n - 1 \in Nat /\ (n - 1) + 1 = n OBVIOUS
<1>5. n - 1 \in S BY <1>3, <1>4
<1> QED BY <1>4, <1>5 DEF S

-----------------------------------------------------------------------------
(* The audio decoder: the samples of packet i, the first one's place and their *)
(* places, as functions of the stream alone.                                *)
Samples(a, i) == Length(a.packets[i])
Start(a, i) == Sums(a.first, [k \in DOMAIN a.packets |-> Length(a.packets[k])])[i - 1]
Whole(a, i) == [j \in 1 .. Samples(a, i) |-> Start(a, i) + j - 1]

(* A packet has as many samples as its frames have together.                *)
LEMMA LengthIs ==
  ASSUME NEW packet \in Seq(Nat)
  PROVE  /\ Length(packet) \in Nat
         /\ Len(packet) = 1 => Length(packet) = packet[1]
<1>0. Len(packet) \in Nat /\ 0 \in Nat BY LenProperties
<1>1. /\ Sums(0, packet)[0] = 0
      /\ \A k \in 1 .. Len(packet) : Sums(0, packet)[k] = Sums(0, packet)[k - 1] + packet[k]
      /\ \A k \in 0 .. Len(packet) : Sums(0, packet)[k] \in Nat
  BY <1>0, SumsAre
<1>2. Length(packet) \in Nat BY <1>0, <1>1 DEF Length
<1>3. ASSUME Len(packet) = 1 PROVE Length(packet) = packet[1]
  <2>1. Sums(0, packet)[1] = Sums(0, packet)[1 - 1] + packet[1] BY <1>1, <1>3
  <2>0. 1 \in 1 .. Len(packet) BY <1>0, <1>3
  <2>2. packet[1] \in Nat BY <2>0, ElementOfSeq
  <2>3. Sums(0, packet)[1] = packet[1] BY <2>1, <2>2, <1>1
  <2> QED BY <2>3, <1>3 DEF Length
<1> QED BY <1>2, <1>3

(* A packet begins where the one before it ends.                            *)
LEMMA AudioPackets ==
  ASSUME audio \in Audios, NEW i \in 1 .. Len(audio.packets)
  PROVE  /\ audio.packets[i] \in Seq(Nat \ {0}) /\ audio.packets[i] # <<>>
         /\ Samples(audio, i) \in Nat /\ Before(i) = Start(audio, i) /\ Start(audio, i) \in Nat
         /\ i > 1 => Start(audio, i) = Start(audio, i - 1) + Samples(audio, i - 1)
         /\ Start(audio, 1) = audio.first /\ audio.first \in Nat
<1>1. audio.first \in Nat /\ audio.packets \in Seq(Seq(Nat \ {0}) \ {<<>>})
  BY AudioAssumption DEF AudioAssumption
<1>2. Len(audio.packets) \in Nat /\ DOMAIN audio.packets = 1 .. Len(audio.packets)
  BY <1>1, LenProperties
<1>3. \A k \in 1 .. Len(audio.packets) : audio.packets[k] \in Seq(Nat \ {0}) \ {<<>>}
  BY <1>1, ElementOfSeq
<1>4. ASSUME NEW k \in 1 .. Len(audio.packets) PROVE Length(audio.packets[k]) \in Nat
  <2>1. audio.packets[k] \in Seq(Nat) BY <1>3
  <2> QED BY <2>1, LengthIs
<1> DEFINE lens == [k \in DOMAIN audio.packets |-> Length(audio.packets[k])]
<1>5. lens \in Seq(Nat) /\ Len(lens) = Len(audio.packets)
  <2>1. lens \in [1 .. Len(audio.packets) -> Nat] BY <1>2, <1>4
  <2> HIDE DEF lens
  <2> QED BY <2>1, <1>2
<1>6. \A k \in 1 .. Len(audio.packets) : lens[k] = Samples(audio, k) BY <1>2 DEF Samples
<1>7. \A k : Start(audio, k) = Sums(audio.first, lens)[k - 1] BY DEF Start
<1>12. Before(i) = Start(audio, i) BY DEF Before, Start
<1> HIDE DEF lens
<1>13. Start(audio, 1) = audio.first
  <2>1. Start(audio, 1) = Sums(audio.first, lens)[1 - 1] BY <1>7
  <2>2. Sums(audio.first, lens)[0] = audio.first BY <1>1, <1>5, SumsAre
  <2> QED BY <2>1, <2>2
<1>8. /\ \A k \in 1 .. Len(lens) : Sums(audio.first, lens)[k] = Sums(audio.first, lens)[k - 1] + lens[k]
      /\ \A k \in 0 .. Len(lens) : Sums(audio.first, lens)[k] \in Nat
  BY <1>1, <1>5, SumsAre
<1>9. Start(audio, i) \in Nat
  <2>1. i - 1 \in 0 .. Len(lens) BY <1>2, <1>5
  <2> QED BY <2>1, <1>7, <1>8
<1>10. ASSUME i > 1 PROVE Start(audio, i) = Start(audio, i - 1) + Samples(audio, i - 1)
  <2>1. i - 1 \in 1 .. Len(lens) BY <1>2, <1>5, <1>10
  <2>2. Sums(audio.first, lens)[i - 1] = Sums(audio.first, lens)[(i - 1) - 1] + lens[i - 1] BY <2>1, <1>8
  <2>3. lens[i - 1] = Samples(audio, i - 1) BY <2>1, <1>5, <1>6
  <2> QED BY <2>2, <2>3, <1>7
<1>11. Samples(audio, i) \in Nat BY <1>4 DEF Samples
<1> QED BY <1>1, <1>3, <1>9, <1>10, <1>11, <1>12, <1>13

(* A packet of one frame is all of its samples.                             *)
LEMMA FramesAre ==
  ASSUME audio \in Audios, NEW i \in 1 .. Len(audio.packets)
  PROVE  /\ Frames(i) \in Seq(Seq(Nat)) /\ Len(Frames(i)) \in Nat \ {0}
         /\ Len(Frames(i)) = 1 => Frames(i)[1] = Whole(audio, i)
<1> DEFINE packet == audio.packets[i]
<1> DEFINE At(k) == Before(i) + Sums(0, packet)[k - 1]
<1>1. packet \in Seq(Nat \ {0}) /\ packet # <<>> /\ Before(i) = Start(audio, i) /\ Start(audio, i) \in Nat /\ Samples(audio, i) = Length(packet)
  BY AudioPackets DEF Samples
<1>2. Frames(i) = [k \in DOMAIN packet |-> [j \in 1 .. packet[k] |-> At(k) + j - 1]] BY DEF Frames
<1> HIDE DEF packet
<1>3. packet \in Seq(Nat) /\ Len(packet) \in Nat \ {0} /\ DOMAIN packet = 1 .. Len(packet)
  BY <1>1, LenProperties, EmptySeq
<1>4. /\ Sums(0, packet)[0] = 0
      /\ \A k \in 0 .. Len(packet) : Sums(0, packet)[k] \in Nat
  BY <1>3, SumsAre
<1>5. ASSUME NEW k \in 1 .. Len(packet) PROVE [j \in 1 .. packet[k] |-> At(k) + j - 1] \in Seq(Nat)
  <2>1. packet[k] \in Nat BY <1>3, ElementOfSeq
  <2>2. k - 1 \in 0 .. Len(packet) BY <1>3
  <2>3. At(k) \in Nat BY <1>1, <1>4, <2>2
  <2> HIDE DEF At
  <2>4. [j \in 1 .. packet[k] |-> At(k) + j - 1] \in [1 .. packet[k] -> Nat] BY <2>1, <2>3
  <2> QED BY <2>1, <2>4, RowIsSeq
<1>6. At(1) = Start(audio, i) BY <1>1, <1>4
<1> HIDE DEF At
<1>7. Frames(i) \in [1 .. Len(packet) -> Seq(Nat)] BY <1>2, <1>3, <1>5
<1>8. Frames(i) \in Seq(Seq(Nat)) /\ Len(Frames(i)) = Len(packet) BY <1>3, <1>7
<1>9. ASSUME Len(packet) = 1 PROVE Frames(i)[1] = Whole(audio, i)
  <2>1. Samples(audio, i) = packet[1] BY <1>1, <1>3, <1>9, LengthIs
  <2>2. Frames(i)[1] = [j \in 1 .. packet[1] |-> At(1) + j - 1] BY <1>2, <1>3, <1>9
  <2> QED BY <2>1, <2>2, <1>6 DEF Whole
<1> QED BY <1>3, <1>8, <1>9

(* No packet is longer than the longest one.                                *)
LEMMA LongestIs ==
  ASSUME audio \in Audios, NEW i \in 1 .. Len(audio.packets)
  PROVE  Longest \in Nat /\ Samples(audio, i) <= Longest
<1> DEFINE n == Len(audio.packets)
<1>1. n \in Nat /\ DOMAIN audio.packets = 1 .. n
  <2>1. audio.packets \in Seq(Seq(Nat \ {0}) \ {<<>>}) BY AudioAssumption DEF AudioAssumption
  <2> QED BY <2>1, LenProperties
<1>2. \A k \in 1 .. n : Samples(audio, k) \in Nat BY AudioPackets
<1> HIDE DEF n
<1> DEFINE f == [k \in 1 .. n |-> Samples(audio, k)]
<1>3. n \in Nat \ {0} /\ i \in 1 .. n BY <1>1 DEF n
<1>4. f \in [1 .. n -> Int] BY <1>2
<1>5. \A k \in 1 .. n : f[k] = Samples(audio, k) OBVIOUS
<1> HIDE DEF f
<1>6. PICK x \in 1 .. n : \A y \in 1 .. n : f[x] >= f[y] BY <1>3, <1>4, GreatestOf
<1> DEFINE S == {Length(audio.packets[k]) : k \in DOMAIN audio.packets}
<1>7. S = {Samples(audio, k) : k \in 1 .. n} BY <1>1 DEF Samples
<1>8. Longest = Max(S) BY DEF Longest
<1> HIDE DEF S
<1>9. \E m \in S : \A y \in S : m >= y BY <1>5, <1>6, <1>7
<1>10. Longest \in S /\ \A y \in S : Longest >= y BY <1>8, <1>9 DEF Max
<1>11. Longest \in Nat BY <1>2, <1>7, <1>10
<1>12. Samples(audio, i) \in S /\ Samples(audio, i) \in Nat BY <1>2, <1>3, <1>7
<1> QED BY <1>10, <1>11, <1>12

-----------------------------------------------------------------------------
(* The samples of q are those just before e, in order; or, with gaps, none is *)
(* later than that.                                                         *)
RowBefore(s, q, e) ==
  \A j \in 1 .. Len(q) : IF s = "whole" THEN q[j] = e - Len(q) + j - 1 ELSE q[j] <= e - Len(q) + j - 1

(* More samples after the last one ...                                      *)
LEMMA RowGrows ==
  ASSUME NEW s, NEW q \in Seq(Nat), NEW w \in Seq(Nat), NEW e \in Int, RowBefore(s, q, e),
         \A j \in 1 .. Len(w) : w[j] = e + j - 1
  PROVE  RowBefore(s, q \o w, e + Len(w))
<1>0. Len(q) \in Nat /\ Len(w) \in Nat BY LenProperties
<1>1. q \o w \in Seq(Nat) /\ Len(q \o w) = Len(q) + Len(w) BY ConcatProperties
<1> SUFFICES ASSUME NEW j \in 1 .. Len(q \o w)
             PROVE  IF s = "whole" THEN (q \o w)[j] = e + Len(w) - Len(q \o w) + j - 1
                    ELSE (q \o w)[j] <= e + Len(w) - Len(q \o w) + j - 1
  BY DEF RowBefore
<1>2. e + Len(w) - Len(q \o w) + j - 1 = e - Len(q) + j - 1 /\ j \in Int BY <1>0, <1>1
<1>3. CASE j <= Len(q)
  <2>1. j \in 1 .. Len(q) BY <1>0, <1>1, <1>3
  <2>2. (q \o w)[j] = q[j] BY <2>1, <1>1, ConcatProperties
  <2>3. IF s = "whole" THEN q[j] = e - Len(q) + j - 1 ELSE q[j] <= e - Len(q) + j - 1 BY <2>1 DEF RowBefore
  <2> QED BY <2>2, <2>3, <1>2
<1>4. CASE ~(j <= Len(q))
  <2>1. j - Len(q) \in 1 .. Len(w) BY <1>0, <1>1, <1>4
  <2>2. (q \o w)[j] = w[j - Len(q)] BY <2>1, <1>0, <1>1, <1>4, ConcatProperties
  <2>3. w[j - Len(q)] = e + (j - Len(q)) - 1 BY <2>1
  <2>4. (q \o w)[j] = e - Len(q) + j - 1 BY <2>2, <2>3, <1>0, <1>2
  <2>5. e - Len(q) + j - 1 \in Int BY <1>0, <1>2
  <2> QED BY <2>4, <2>5, <1>2
<1> QED BY <1>3, <1>4

(* ... and one less at the front leave it so.                               *)
LEMMA RowTail ==
  ASSUME NEW s, NEW q \in Seq(Nat), NEW e \in Int, RowBefore(s, q, e), q # <<>>
  PROVE  RowBefore(s, Tail(q), e)
<1>0. Len(q) \in Nat \ {0} BY LenProperties, EmptySeq
<1>1. Tail(q) \in Seq(Nat) /\ Len(Tail(q)) = Len(q) - 1 BY HeadTailProperties
<1> SUFFICES ASSUME NEW j \in 1 .. Len(Tail(q))
             PROVE  IF s = "whole" THEN Tail(q)[j] = e - Len(Tail(q)) + j - 1
                    ELSE Tail(q)[j] <= e - Len(Tail(q)) + j - 1
  BY DEF RowBefore
<1>2. j + 1 \in 1 .. Len(q) /\ j \in Int BY <1>0, <1>1
<1>3. Tail(q)[j] = q[j + 1] BY <1>2, HeadTailProperties
<1>4. IF s = "whole" THEN q[j + 1] = e - Len(q) + (j + 1) - 1 ELSE q[j + 1] <= e - Len(q) + (j + 1) - 1
  BY <1>2 DEF RowBefore
<1>5. e - Len(Tail(q)) + j - 1 = e - Len(q) + (j + 1) - 1 BY <1>0, <1>1, <1>2
<1> QED BY <1>3, <1>4, <1>5

(* Sequences can be joined in any order ...                                 *)
LEMMA Associative ==
  ASSUME NEW q \in Seq(Nat), NEW w \in Seq(Nat), NEW z \in Seq(Nat)
  PROVE  (q \o w) \o z = q \o (w \o z)
<1> DEFINE a == (q \o w) \o z
<1> DEFINE b == q \o (w \o z)
<1>0. Len(q) \in Nat /\ Len(w) \in Nat /\ Len(z) \in Nat BY LenProperties
<1>1. /\ q \o w \in Seq(Nat) /\ Len(q \o w) = Len(q) + Len(w)
      /\ w \o z \in Seq(Nat) /\ Len(w \o z) = Len(w) + Len(z)
  BY ConcatProperties
<1>2. /\ a \in Seq(Nat) /\ Len(a) = Len(q) + Len(w) + Len(z)
      /\ b \in Seq(Nat) /\ Len(b) = Len(q) + (Len(w) + Len(z))
  BY <1>0, <1>1, ConcatProperties
<1>3. ASSUME NEW j \in 1 .. Len(a) PROVE a[j] = b[j]
  <2>1. j \in 1 .. Len(q \o w) + Len(z) /\ j \in 1 .. Len(q) + Len(w \o z) BY <1>0, <1>1, <1>2
  <2>2. a[j] = IF j <= Len(q \o w) THEN (q \o w)[j] ELSE z[j - Len(q \o w)] BY <2>1, <1>1, ConcatProperties
  <2>3. b[j] = IF j <= Len(q) THEN q[j] ELSE (w \o z)[j - Len(q)] BY <2>1, <1>1, ConcatProperties
  <2> HIDE DEF a, b
  <2>4. CASE j <= Len(q)
    <3>1. j <= Len(q \o w) /\ j \in 1 .. Len(q) + Len(w) BY <2>4, <2>1, <1>0, <1>1
    <3>2. (q \o w)[j] = q[j] BY <3>1, <2>4, ConcatProperties
    <3> QED BY <3>1, <3>2, <2>2, <2>3, <2>4
  <2>5. CASE ~(j <= Len(q)) /\ j <= Len(q \o w)
    <3>1. j \in 1 .. Len(q) + Len(w) /\ j - Len(q) \in 1 .. Len(w) + Len(z) /\ j - Len(q) <= Len(w)
      BY <2>5, <2>1, <1>0, <1>1
    <3>2. (q \o w)[j] = w[j - Len(q)] BY <3>1, <2>5, ConcatProperties
    <3>3. (w \o z)[j - Len(q)] = w[j - Len(q)] BY <3>1, ConcatProperties
    <3> QED BY <3>2, <3>3, <2>2, <2>3, <2>5
  <2>6. CASE ~(j <= Len(q)) /\ ~(j <= Len(q \o w))
    <3>1. /\ j - Len(q) \in 1 .. Len(w) + Len(z) /\ ~(j - Len(q) <= Len(w))
          /\ (j - Len(q)) - Len(w) = j - Len(q \o w)
      BY <2>6, <2>1, <1>0, <1>1
    <3>2. (w \o z)[j - Len(q)] = z[(j - Len(q)) - Len(w)] BY <3>1, ConcatProperties
    <3> QED BY <3>1, <3>2, <2>2, <2>3, <2>6
  <2> QED BY <2>4, <2>5, <2>6
<1>4. Len(a) = Len(b) BY <1>0, <1>2
<1> HIDE DEF a, b
<1>5. a = b BY <1>2, <1>3, <1>4, SeqEqual
<1> QED BY <1>5 DEF a, b

(* ... and the first sample is taken from the first of two that has one.    *)
LEMMA TailOfConcat ==
  ASSUME NEW q \in Seq(Nat), NEW w \in Seq(Nat), q # <<>>
  PROVE  Tail(q) \o w = Tail(q \o w) /\ q \o w # <<>> /\ (q \o w)[1] = q[1]
<1>1. Len(q) \in Nat \ {0} /\ Len(w) \in Nat BY LenProperties, EmptySeq
<1>2. q \o w \in Seq(Nat) /\ Len(q \o w) = Len(q) + Len(w) BY ConcatProperties
<1>3. Len(q \o w) # 0 BY <1>1, <1>2
<1>4. q \o w # <<>> BY <1>2, <1>3, EmptySeq
<1>5. Tail(q) \in Seq(Nat) /\ Len(Tail(q)) = Len(q) - 1 BY HeadTailProperties
<1>6. Tail(q \o w) \in Seq(Nat) /\ Len(Tail(q \o w)) = Len(q) + Len(w) - 1 BY <1>2, <1>4, HeadTailProperties
<1>7. Tail(q) \o w \in Seq(Nat) /\ Len(Tail(q) \o w) = Len(q) - 1 + Len(w) BY <1>5, ConcatProperties
<1>8. ASSUME NEW j \in 1 .. Len(Tail(q) \o w) PROVE (Tail(q) \o w)[j] = Tail(q \o w)[j]
  <2>1. j + 1 \in 1 .. Len(q \o w) /\ j \in 1 .. Len(q) + Len(w) - 1 BY <1>1, <1>2, <1>7
  <2>2. Tail(q \o w)[j] = (q \o w)[j + 1] BY <2>1, <1>2, <1>4, <1>6, HeadTailProperties
  <2>3. CASE j <= Len(q) - 1
    <3>1. j \in 1 .. Len(Tail(q)) /\ j + 1 \in 1 .. Len(q) BY <2>3, <2>1, <1>1, <1>5
    <3>2. (Tail(q) \o w)[j] = Tail(q)[j] BY <3>1, <1>5, <1>7, ConcatProperties
    <3>3. Tail(q)[j] = q[j + 1] BY <3>1, HeadTailProperties
    <3>4. (q \o w)[j + 1] = q[j + 1] BY <3>1, <2>1, ConcatProperties
    <3> QED BY <3>2, <3>3, <3>4, <2>2
  <2>4. CASE ~(j <= Len(q) - 1)
    <3>1. ~(j <= Len(Tail(q))) /\ ~(j + 1 <= Len(q)) BY <2>4, <2>1, <1>1, <1>5
    <3>2. (Tail(q) \o w)[j] = w[j - Len(Tail(q))] BY <3>1, <1>5, <1>7, ConcatProperties
    <3>3. (q \o w)[j + 1] = w[(j + 1) - Len(q)] BY <3>1, <2>1, ConcatProperties
    <3>4. j - Len(Tail(q)) = (j + 1) - Len(q) BY <2>1, <1>1, <1>5
    <3> QED BY <3>2, <3>3, <3>4, <2>2
  <2> QED BY <2>3, <2>4
<1>9. Len(Tail(q) \o w) = Len(Tail(q \o w)) BY <1>1, <1>6, <1>7
<1>10. Tail(q) \o w = Tail(q \o w) BY <1>6, <1>7, <1>8, <1>9, SeqEqual
<1>11. (q \o w)[1] = q[1]
  <2>1. 1 \in 1 .. Len(q) /\ 1 \in 1 .. Len(q \o w) BY <1>1, <1>2
  <2> QED BY <2>1, ConcatProperties
<1> QED BY <1>4, <1>10, <1>11

(* Samples that are left out move the end on, and make gaps.                *)
LEMMA RowLater ==
  ASSUME NEW s, NEW t, NEW q \in Seq(Nat), NEW e \in Int, NEW f \in Int, RowBefore(s, q, e), e <= f,
         t = "whole" => s = "whole" /\ e = f
  PROVE  RowBefore(t, q, f)
<1>0. Len(q) \in Nat BY LenProperties
<1> SUFFICES ASSUME NEW j \in 1 .. Len(q)
             PROVE  IF t = "whole" THEN q[j] = f - Len(q) + j - 1 ELSE q[j] <= f - Len(q) + j - 1
  BY DEF RowBefore
<1>1. IF s = "whole" THEN q[j] = e - Len(q) + j - 1 ELSE q[j] <= e - Len(q) + j - 1 BY DEF RowBefore
<1>2. q[j] \in Nat /\ j \in Int BY ElementOfSeq
<1>3. CASE t = "whole" BY <1>1, <1>3
<1>4. CASE t # "whole"
  <2>1. q[j] <= e - Len(q) + j - 1
    <3>1. CASE s = "whole"
      <4>1. q[j] = e - Len(q) + j - 1 BY <1>1, <3>1
      <4> QED BY <4>1, <1>0, <1>2
    <3>2. CASE s # "whole" BY <1>1, <3>2
    <3> QED BY <3>1, <3>2
  <2>2. q[j] <= f - Len(q) + j - 1 BY <2>1, <1>0, <1>2
  <2> QED BY <2>2, <1>4
<1> QED BY <1>3, <1>4

-----------------------------------------------------------------------------
(* The inductive invariant: what the loop has done with the current packet, *)
(* and the sample that stands after the last one of the ring.               *)
Times == [first : Int, current : Int, last_valid : Int, buffer_size : Nat, cache_size : Nat]

\* What the output has taken out of the ring.
Given == device \o unit

AdecTypes ==
  /\ audio \in Audios /\ untimed_packets = {} /\ packets_read \in 0 .. Len(audio.packets)
  /\ adec \in {"read", "repack", "decode", "count", "refill", "put"}
  /\ undecoded \in Seq(Seq(Nat)) /\ rest \in Seq(Seq(Nat)) /\ inlen \in Int
  /\ decoded \in Seq(Nat) /\ ring \in Seq(Nat) /\ unit \in Seq(Nat) /\ device \in Seq(Nat)
  /\ Len(unit) <= UnitSize /\ times \in Times /\ sound \in {"whole", "gaps"}

Unread ==
  /\ adec = "read" /\ decoded = <<>> /\ ring = <<>> /\ unit = <<>> /\ device = <<>>
  /\ times.first = -1 /\ times.buffer_size = 0 /\ times.cache_size = 0

Filled(i) == times.buffer_size <= Samples(audio, i) /\ (sound = "whole" => times.buffer_size = Samples(audio, i))

Reading == decoded = <<>> /\ times.cache_size = 0 /\ Filled(packets_read)

Repacking == packets_read > 1 /\ decoded = <<>> /\ times.cache_size = 0 /\ Filled(packets_read - 1)

Decoding ==
  /\ decoded = <<>> /\ times.cache_size = 0 /\ times.buffer_size = 0
  /\ undecoded # <<>> /\ inlen = Len(undecoded)
  /\ Len(undecoded) = 1 => undecoded[1] = Whole(audio, packets_read)

Loaded(d, b) ==
  /\ decoded = d /\ times.cache_size = Samples(audio, packets_read) /\ times.buffer_size = b /\ inlen = 0

InPacket ==
  /\ times.first \in Nat /\ times.current = Start(audio, packets_read)
  /\ adec = "read" => Reading
  /\ adec = "repack" => Repacking
  /\ adec = "decode" => Decoding
  /\ adec = "count" => Loaded(Whole(audio, packets_read), 0)
  /\ adec = "refill" => Loaded(Whole(audio, packets_read), Samples(audio, packets_read))
  /\ adec = "put" => Loaded(<<>>, Samples(audio, packets_read))

NextIn ==
  times.current + (IF adec = "repack" THEN 0 ELSE times.buffer_size) - (IF adec = "refill" THEN Len(decoded) ELSE 0)

Timed ==
  /\ AdecTypes
  /\ packets_read = 0 => Unread
  /\ packets_read # 0 => InPacket
  /\ RowBefore(sound, Given \o ring, NextIn)

TimedUnlessRepeated == sound # "repeated" => Timed

(* What each assignment to the times leaves alone: the first time, ...      *)
LEMMA FirstTimes ==
  ASSUME NEW t \in Times, NEW x \in Nat
  PROVE  LET u == [t EXCEPT !.first = x, !.current = x, !.last_valid = x]
         IN /\ u \in Times /\ u.first = x /\ u.current = x
            /\ u.buffer_size = t.buffer_size /\ u.cache_size = t.cache_size
<1> DEFINE a == [t EXCEPT !.first = x]
<1> DEFINE b == [a EXCEPT !.current = x]
<1> DEFINE c == [b EXCEPT !.last_valid = x]
<1>1. a \in Times /\ a.buffer_size = t.buffer_size /\ a.cache_size = t.cache_size /\ a.first = x BY DEF Times
<1> HIDE DEF a
<1>2. b \in Times /\ b.buffer_size = a.buffer_size /\ b.cache_size = a.cache_size /\ b.first = a.first /\ b.current = x
  BY <1>1 DEF Times
<1> HIDE DEF b
<1>3. /\ c \in Times /\ c.buffer_size = b.buffer_size /\ c.cache_size = b.cache_size
      /\ c.first = b.first /\ c.current = b.current
  BY <1>2 DEF Times
<1> HIDE DEF c
<1>4. [t EXCEPT !.first = x, !.current = x, !.last_valid = x] = c BY DEF a, b, c
<1> QED BY <1>1, <1>2, <1>3, <1>4

(* ... a later one, ...                                                     *)
LEMMA LaterTimes ==
  ASSUME NEW t \in Times, NEW x \in Nat
  PROVE  LET u == [t EXCEPT !.last_valid = t.current, !.current = x]
         IN /\ u \in Times /\ u.first = t.first /\ u.current = x
            /\ u.buffer_size = t.buffer_size /\ u.cache_size = t.cache_size
<1> DEFINE a == [t EXCEPT !.last_valid = t.current]
<1> DEFINE b == [a EXCEPT !.current = x]
<1>1. a \in Times /\ a.buffer_size = t.buffer_size /\ a.cache_size = t.cache_size /\ a.first = t.first
  BY DEF Times
<1> HIDE DEF a
<1>2. b \in Times /\ b.buffer_size = a.buffer_size /\ b.cache_size = a.cache_size /\ b.first = a.first /\ b.current = x
  BY <1>1 DEF Times
<1> HIDE DEF b
<1>3. [t EXCEPT !.last_valid = t.current, !.current = x] = b BY DEF a, b
<1> QED BY <1>1, <1>2, <1>3

(* ... the size of what was decoded ...                                     *)
LEMMA BufferTimes ==
  ASSUME NEW t \in Times, NEW x \in Nat
  PROVE  LET u == [t EXCEPT !.buffer_size = x]
         IN /\ u \in Times /\ u.first = t.first /\ u.current = t.current
            /\ u.buffer_size = x /\ u.cache_size = t.cache_size
BY DEF Times

(* ... and the part of it that the ring has not taken.                      *)
LEMMA CacheTimes ==
  ASSUME NEW t \in Times, NEW x \in Nat
  PROVE  LET u == [t EXCEPT !.cache_size = x]
         IN /\ u \in Times /\ u.first = t.first /\ u.current = t.current
            /\ u.buffer_size = t.buffer_size /\ u.cache_size = x
BY DEF Times

(* Two facts of arithmetic, that one packet is the first one.               *)
LEMMA OnlyOne ==
  ASSUME NEW m \in Nat, NEW n \in Nat \ {0}, m + n = 1
  PROVE  m = 0 /\ n = 1
OBVIOUS

LEMMA JustOne ==
  ASSUME NEW m \in Nat, m # 0, ~(m > 1)
  PROVE  m = 1
OBVIOUS

(* The current packet, and where its samples begin.                         *)
LEMMA Current ==
  ASSUME AdecTypes, packets_read # 0
  PROVE  /\ packets_read \in 1 .. Len(audio.packets)
         /\ Samples(audio, packets_read) \in Nat /\ Start(audio, packets_read) \in Nat
         /\ Whole(audio, packets_read) \in Seq(Nat)
         /\ Len(Whole(audio, packets_read)) = Samples(audio, packets_read)
         /\ \A j \in 1 .. Samples(audio, packets_read) :
              Whole(audio, packets_read)[j] = Start(audio, packets_read) + j - 1
<1> DEFINE i == packets_read
<1>1. i \in 1 .. Len(audio.packets) BY DEF AdecTypes
<1>2. Samples(audio, i) \in Nat /\ Start(audio, i) \in Nat BY <1>1, AudioPackets DEF AdecTypes
<1>3. Whole(audio, i) = [j \in 1 .. Samples(audio, i) |-> Start(audio, i) + j - 1] BY DEF Whole
<1> HIDE DEF i
<1>4. Whole(audio, i) \in [1 .. Samples(audio, i) -> Nat] BY <1>2, <1>3
<1>5. Whole(audio, i) \in Seq(Nat) /\ Len(Whole(audio, i)) = Samples(audio, i) BY <1>2, <1>4, RowIsSeq
<1>6. \A j \in 1 .. Samples(audio, i) : Whole(audio, i)[j] = Start(audio, i) + j - 1 BY <1>3
<1> QED BY <1>1, <1>2, <1>5, <1>6 DEF i

(* The place of the next sample is a number.                                *)
LEMMA InInt ==
  ASSUME AdecTypes
  PROVE  NextIn \in Int /\ Given \o ring \in Seq(Nat)
<1>1. times.current \in Int /\ times.buffer_size \in Nat BY DEF AdecTypes, Times
<1>2. Len(decoded) \in Nat BY LenProperties DEF AdecTypes
<1>3. Given \o ring \in Seq(Nat) BY ConcatProperties DEF AdecTypes, Given
<1> QED BY <1>1, <1>2, <1>3 DEF NextIn

(* The first packet: its time is the time of the stream.                    *)
LEMMA FirstFrame ==
  ASSUME Timed, read_first_frame, sound' # "repeated"
  PROVE  Timed'
<1> USE DEF read_first_frame
<1> DEFINE i == packets_read + 1
<1>1. packets_read = 0
  <2> SUFFICES ASSUME packets_read # 0 PROVE FALSE OBVIOUS
  <2>1. times.first \in Nat BY DEF Timed, InPacket
  <2> QED BY <2>1 DEF Invalid, NoTime
<1>2. i \in 1 .. Len(audio.packets) /\ audio \in Audios /\ i = 1
  <2>1. Len(audio.packets) \in Nat
    <3>1. audio \in Audios BY DEF Timed, AdecTypes
    <3>2. audio.packets \in Seq(Seq(Nat \ {0}) \ {<<>>}) BY <3>1, AudioAssumption DEF AudioAssumption
    <3> QED BY <3>2, LenProperties
  <2> QED BY <1>1, <2>1 DEF Timed, AdecTypes
<1> HIDE DEF i
<1>3. Before(i) = Start(audio, i) /\ Start(audio, i) \in Nat BY <1>2, AudioPackets
<1>4. audio_pts_exchange(i) = Start(audio, i) BY <1>3 DEF audio_pts_exchange, Timed, AdecTypes
<1>5. times' = [times EXCEPT !.first = Start(audio, i), !.current = Start(audio, i), !.last_valid = Start(audio, i)]
  <2>1. ~Invalid(Start(audio, i)) BY <1>3 DEF Invalid, NoTime
  <2>2. times' = IF Invalid(audio_pts_exchange(i)) THEN [times EXCEPT !.first = 0, !.current = 0]
                 ELSE [times EXCEPT !.first = audio_pts_exchange(i), !.current = audio_pts_exchange(i),
                                    !.last_valid = audio_pts_exchange(i)]
    BY DEF i
  <2> QED BY <2>1, <2>2, <1>4
<1>6. times \in Times /\ Unread BY <1>1 DEF Timed, AdecTypes
<1>7. /\ times' \in Times /\ times'.first = Start(audio, i) /\ times'.current = Start(audio, i)
      /\ times'.buffer_size = 0 /\ times'.cache_size = 0
  <2>1. times.buffer_size = 0 /\ times.cache_size = 0 BY <1>6 DEF Unread
  <2>2. \A x \in Nat :
          LET u == [times EXCEPT !.first = x, !.current = x, !.last_valid = x]
          IN /\ u \in Times /\ u.first = x /\ u.current = x
             /\ u.buffer_size = times.buffer_size /\ u.cache_size = times.cache_size
    BY <1>6, FirstTimes
  <2> QED BY <1>3, <1>5, <2>1, <2>2
<1>8. undecoded' = Frames(i) /\ inlen' = Len(Frames(i)) BY DEF i
<1>9. /\ Frames(i) \in Seq(Seq(Nat)) /\ Len(Frames(i)) \in Nat \ {0}
      /\ Len(Frames(i)) = 1 => Frames(i)[1] = Whole(audio, i)
  BY <1>2, FramesAre
<1>10. /\ packets_read' = i /\ audio' = audio /\ adec' = "decode"
       /\ decoded' = <<>> /\ ring' = <<>> /\ unit' = unit /\ unit' = <<>> /\ device' = <<>>
  BY <1>6 DEF i, Unread
<1>11. AdecTypes'
  BY <1>2, <1>7, <1>8, <1>9, <1>10 DEF Timed, AdecTypes
<1>12. Decoding'
  <2>1. Frames(i) # <<>> BY <1>9, EmptySeq
  <2> QED BY <1>7, <1>8, <1>9, <1>10, <2>1 DEF Decoding
<1>13. InPacket' BY <1>3, <1>7, <1>10, <1>12 DEF InPacket
<1>14. RowBefore(sound, Given \o ring, NextIn)'
  <2>1. (Given \o ring)' = <<>> /\ Len(<<>>) = 0 BY <1>10 DEF Given
  <2> QED BY <2>1 DEF RowBefore
<1> QED BY <1>2, <1>10, <1>11, <1>13, <1>14 DEF Timed

(* A later packet: what was decoded of the one before was all put away.     *)
LEMMA LaterFrame ==
  ASSUME Timed, audio_read_frame, sound' # "repeated"
  PROVE  Timed'
<1> DEFINE i == packets_read
<1> DEFINE k == i + 1
<1>1. AdecTypes /\ InPacket /\ i # 0
  <2>1. ~Invalid(times.first) BY DEF audio_read_frame
  <2>2. packets_read # 0 BY <2>1 DEF Timed, Unread, Invalid
  <2> QED BY <2>2 DEF Timed
<1>2. /\ adec = "read" /\ i < Len(audio.packets) /\ packets_read' = k /\ adec' = "repack"
      /\ times' = [times EXCEPT !.last_valid = times.current, !.current = audio_pts_exchange(k)]
      /\ UNCHANGED <<audio, untimed_packets, undecoded, inlen, rest, decoded, ring, unit, device, sound>>
  BY DEF audio_read_frame
<1>3. i \in 1 .. Len(audio.packets) /\ Samples(audio, i) \in Nat /\ Start(audio, i) \in Nat BY <1>1, Current
<1>4. Len(audio.packets) \in Nat
  <2>1. audio.packets \in Seq(Seq(Nat \ {0}) \ {<<>>}) BY <1>1, AudioAssumption DEF AudioAssumption, AdecTypes
  <2> QED BY <2>1, LenProperties
<1> HIDE DEF i
<1>5. k \in 1 .. Len(audio.packets) /\ k > 1 /\ k - 1 = i BY <1>2, <1>3, <1>4
<1> HIDE DEF k
<1>6. /\ Before(k) = Start(audio, k) /\ Start(audio, k) \in Nat
      /\ Start(audio, k) = Start(audio, i) + Samples(audio, i)
  <2>1. Start(audio, k) = Start(audio, k - 1) + Samples(audio, k - 1) BY <1>1, <1>5, AudioPackets DEF AdecTypes
  <2>2. Before(k) = Start(audio, k) /\ Start(audio, k) \in Nat BY <1>1, <1>5, AudioPackets DEF AdecTypes
  <2> QED BY <2>1, <2>2, <1>5
<1>7. audio_pts_exchange(k) = Start(audio, k) BY <1>1, <1>6 DEF audio_pts_exchange, AdecTypes
<1>8. /\ times' \in Times /\ times'.first = times.first /\ times'.current = Start(audio, k)
      /\ times'.buffer_size = times.buffer_size /\ times'.cache_size = times.cache_size
  <2>1. times \in Times BY <1>1 DEF AdecTypes
  <2> QED BY <2>1, <1>2, <1>6, <1>7, LaterTimes
<1>9. /\ times.first \in Nat /\ times.current = Start(audio, i)
      /\ decoded = <<>> /\ times.cache_size = 0
      /\ times.buffer_size <= Samples(audio, i) /\ (sound = "whole" => times.buffer_size = Samples(audio, i))
  BY <1>1, <1>2 DEF InPacket, Reading, Filled, i
<1>10. AdecTypes' BY <1>1, <1>2, <1>4, <1>5, <1>8 DEF AdecTypes
<1>11. InPacket'
  <2>1. Repacking' BY <1>2, <1>5, <1>8, <1>9 DEF Repacking, Filled
  <2> QED BY <2>1, <1>2, <1>8, <1>9 DEF InPacket
<1>12. RowBefore(sound, Given \o ring, NextIn)'
  <2>1. NextIn = Start(audio, i) + times.buffer_size BY <1>2, <1>3, <1>8, <1>9, <1>1 DEF NextIn, AdecTypes, Times
  <2>2. NextIn' = Start(audio, k) BY <1>2, <1>6, <1>8 DEF NextIn
  <2>3. NextIn \in Int /\ Given \o ring \in Seq(Nat) BY <1>1, InInt
  <2>4. times.buffer_size \in Nat BY <1>1 DEF AdecTypes, Times
  <2>5. NextIn <= NextIn' /\ (sound = "whole" => NextIn = NextIn') /\ NextIn' \in Int
    BY <2>1, <2>2, <2>4, <1>3, <1>6, <1>9
  <2>6. RowBefore(sound, Given \o ring, NextIn) BY DEF Timed
  <2>7. RowBefore(sound, Given \o ring, NextIn') BY <2>3, <2>5, <2>6, RowLater
  <2> QED BY <2>7, <1>2 DEF Given
<1>13. packets_read' # 0 BY <1>2, <1>5
<1> QED BY <1>10, <1>11, <1>12, <1>13 DEF Timed

\* A packet that joins the rest of the one before it has its own time all the same.
LEMMA Repack ==
  ASSUME Timed, repack_frame, sound' # "repeated"
  PROVE  Timed'
<1> DEFINE i == packets_read
<1>1. AdecTypes /\ InPacket /\ i # 0
  <2>1. adec = "repack" BY DEF repack_frame
  <2> QED BY <2>1 DEF Timed, Unread
<1>2. /\ adec = "repack" /\ adec' = "decode" /\ times' = [times EXCEPT !.buffer_size = 0]
      /\ undecoded' = rest \o Frames(i) /\ inlen' = Len(undecoded') /\ rest' = <<>>
      /\ UNCHANGED <<audio, untimed_packets, packets_read, decoded, ring, unit, device, sound>>
  BY DEF repack_frame, Repacked
<1>3. i \in 1 .. Len(audio.packets) /\ Start(audio, i) \in Nat BY <1>1, Current
<1>4. /\ Frames(i) \in Seq(Seq(Nat)) /\ Len(Frames(i)) \in Nat \ {0}
      /\ Len(Frames(i)) = 1 => Frames(i)[1] = Whole(audio, i)
  BY <1>1, <1>3, FramesAre DEF AdecTypes
<1>5. /\ times.first \in Nat /\ times.current = Start(audio, i) /\ decoded = <<>> /\ times.cache_size = 0
  BY <1>1, <1>2 DEF InPacket, Repacking, i
<1>6. packets_read' = i /\ packets_read' # 0 BY <1>1, <1>2
<1> HIDE DEF i
<1>7. /\ undecoded' \in Seq(Seq(Nat)) /\ undecoded' # <<>> /\ Len(undecoded') \in Int
      /\ Len(undecoded') = 1 => undecoded'[1] = Whole(audio, i)
  <2>1. rest \in Seq(Seq(Nat)) /\ Len(rest) \in Nat BY <1>1, LenProperties DEF AdecTypes
  <2>2. rest \o Frames(i) \in Seq(Seq(Nat)) /\ Len(rest \o Frames(i)) = Len(rest) + Len(Frames(i))
    BY <2>1, <1>4, ConcatProperties
  <2>3. ASSUME Len(undecoded') = 1 PROVE undecoded'[1] = Whole(audio, i)
    <3>0. Len(rest \o Frames(i)) = 1 BY <2>3, <1>2
    <3>1. Len(rest) + Len(Frames(i)) = 1 BY <2>2, <3>0
    <3>2. Len(rest) = 0 /\ Len(Frames(i)) = 1 BY <2>1, <3>1, <1>4, OnlyOne
    <3>3. rest = <<>> BY <3>2, <2>1, EmptySeq
    <3>4. rest \o Frames(i) = Frames(i) BY <3>3, <1>4, ConcatEmptySeq
    <3> QED BY <3>2, <3>4, <1>2, <1>4
  <2>4. undecoded' # <<>>
    <3>1. Len(undecoded') # 0 BY <2>1, <2>2, <1>2, <1>4
    <3> QED BY <3>1, <2>2, <1>2, EmptySeq
  <2> QED BY <2>1, <2>2, <2>3, <2>4, <1>2, <1>4
<1>8. /\ times' \in Times /\ times'.first = times.first /\ times'.current = times.current
      /\ times'.buffer_size = 0 /\ times'.cache_size = times.cache_size
  <2>1. times \in Times BY <1>1 DEF AdecTypes
  <2> QED BY <2>1, <1>2, BufferTimes
<1>9. AdecTypes' BY <1>1, <1>2, <1>7, <1>8 DEF AdecTypes
<1>10. InPacket'
  <2>1. Decoding' BY <1>2, <1>5, <1>6, <1>7, <1>8 DEF Decoding
  <2> QED BY <2>1, <1>2, <1>5, <1>6, <1>8 DEF InPacket
<1>11. RowBefore(sound, Given \o ring, NextIn)'
  <2>1. NextIn = NextIn' BY <1>2, <1>3, <1>5, <1>8 DEF NextIn
  <2>2. RowBefore(sound, Given \o ring, NextIn) BY DEF Timed
  <2> QED BY <2>1, <2>2, <1>2 DEF Given
<1> QED BY <1>6, <1>9, <1>10, <1>11 DEF Timed

\* In every other action the packet is one of the stream's and stays the current one.
LEMMA InLoop ==
  ASSUME Timed, adec \in {"repack", "decode", "count", "refill", "put"}
  PROVE  AdecTypes /\ InPacket /\ packets_read # 0 /\ times \in Times
BY DEF Timed, Unread, AdecTypes

(* A frame is decoded from the current packet.                              *)
LEMMA Decode ==
  ASSUME Timed, ffmpeg_adec_decode, sound' # "repeated"
  PROVE  Timed'
<1> DEFINE i == packets_read
<1>1. /\ adec = "decode" /\ adec' = "count" /\ decoded' = undecoded[1] /\ inlen' = inlen - 1
      /\ times' = [times EXCEPT !.cache_size = Len(undecoded[1])]
      /\ sound' = IF Len(undecoded) > 1 THEN "repeated" ELSE sound
      /\ UNCHANGED <<audio, untimed_packets, packets_read, undecoded, rest, ring, unit, device>>
  BY DEF ffmpeg_adec_decode
<1>2. AdecTypes /\ InPacket /\ i # 0 /\ times \in Times BY <1>1, InLoop
<1>3. Decoding /\ times.first \in Nat /\ times.current = Start(audio, i) BY <1>1, <1>2 DEF InPacket
<1>4. /\ Start(audio, i) \in Nat /\ Samples(audio, i) \in Nat /\ Whole(audio, i) \in Seq(Nat)
      /\ Len(Whole(audio, i)) = Samples(audio, i)
  BY <1>2, Current
<1>5. Len(undecoded) = 1 /\ sound' = sound
  <2>1. Len(undecoded) \in Nat /\ Len(undecoded) # 0
    BY <1>2, <1>3, LenProperties, EmptySeq DEF AdecTypes, Decoding
  <2>2. ~(Len(undecoded) > 1) BY <1>1
  <2>3. sound' = sound BY <2>2, <1>1
  <2>4. Len(undecoded) = 1 BY <2>1, <2>2, JustOne
  <2> QED BY <2>3, <2>4
<1>6. undecoded[1] = Whole(audio, i) BY <1>3, <1>5 DEF Decoding
<1>7. inlen' = 0 BY <1>1, <1>3, <1>5 DEF Decoding
<1>8. /\ times' \in Times /\ times'.first = times.first /\ times'.current = times.current
      /\ times'.buffer_size = times.buffer_size /\ times'.cache_size = Samples(audio, i)
  BY <1>1, <1>2, <1>4, <1>6, CacheTimes
<1>9. AdecTypes' BY <1>1, <1>2, <1>4, <1>5, <1>6, <1>7, <1>8 DEF AdecTypes
<1>10. InPacket'
  <2>1. Loaded(Whole(audio, i), 0)' BY <1>1, <1>3, <1>6, <1>7, <1>8 DEF Loaded, Decoding
  <2> QED BY <2>1, <1>1, <1>3, <1>8 DEF InPacket
<1>11. RowBefore(sound, Given \o ring, NextIn)'
  <2>1. NextIn = NextIn' BY <1>1, <1>8 DEF NextIn
  <2>2. RowBefore(sound, Given \o ring, NextIn) BY DEF Timed
  <2> QED BY <2>1, <2>2, <1>1, <1>5 DEF Given
<1> QED BY <1>1, <1>2, <1>9, <1>10, <1>11 DEF Timed

(* Its samples are counted.                                                 *)
LEMMA Count ==
  ASSUME Timed, count_decoded, sound' # "repeated"
  PROVE  Timed'
<1> DEFINE i == packets_read
<1>1. /\ adec = "count" /\ adec' = "refill"
      /\ times' = [times EXCEPT !.buffer_size = @ + Len(decoded)]
      /\ UNCHANGED <<audio, untimed_packets, packets_read, undecoded, inlen, rest, decoded, ring, unit, device, sound>>
  BY DEF count_decoded
<1>2. AdecTypes /\ InPacket /\ i # 0 /\ times \in Times BY <1>1, InLoop
<1>3. Loaded(Whole(audio, i), 0) /\ times.first \in Nat /\ times.current = Start(audio, i)
  BY <1>1, <1>2 DEF InPacket
<1>4. /\ Start(audio, i) \in Nat /\ Samples(audio, i) \in Nat /\ Len(Whole(audio, i)) = Samples(audio, i)
  BY <1>2, Current
<1>5. decoded = Whole(audio, i) /\ Len(decoded) = Samples(audio, i) /\ times.buffer_size = 0 BY <1>3, <1>4 DEF Loaded
<1>6. times' = [times EXCEPT !.buffer_size = Samples(audio, i)]
  <2>1. times.buffer_size + Len(decoded) = Samples(audio, i) BY <1>4, <1>5
  <2> QED BY <2>1, <1>1
<1>7. /\ times' \in Times /\ times'.first = times.first /\ times'.current = times.current
      /\ times'.buffer_size = Samples(audio, i) /\ times'.cache_size = times.cache_size
  BY <1>2, <1>4, <1>6, BufferTimes
<1>8. AdecTypes' BY <1>1, <1>2, <1>7 DEF AdecTypes
<1>9. InPacket'
  <2>1. Loaded(Whole(audio, i), Samples(audio, i))' BY <1>1, <1>3, <1>7 DEF Loaded
  <2> QED BY <2>1, <1>1, <1>3, <1>7 DEF InPacket
<1>10. RowBefore(sound, Given \o ring, NextIn)'
  <2>1. NextIn = Start(audio, i) BY <1>1, <1>3, <1>4, <1>5 DEF NextIn
  <2>2. NextIn' = Start(audio, i) BY <1>1, <1>3, <1>4, <1>5, <1>7 DEF NextIn
  <2>3. RowBefore(sound, Given \o ring, NextIn) BY DEF Timed
  <2> QED BY <2>1, <2>2, <2>3, <1>1 DEF Given
<1> QED BY <1>1, <1>2, <1>8, <1>9, <1>10 DEF Timed

\* What the two ways to get nothing out of a packet have in common.
LEMMA GotNothing ==
  ASSUME Timed, adec = "decode", adec' = "read", sound' = Worse("gaps"), sound' # "repeated",
         UNCHANGED <<audio, untimed_packets, packets_read, undecoded, inlen, decoded, times, ring, unit, device>>,
         rest' \in Seq(Seq(Nat))
  PROVE  Timed'
<1> DEFINE i == packets_read
<1>1. AdecTypes /\ InPacket /\ i # 0 /\ times \in Times BY InLoop
<1>2. Decoding /\ times.first \in Nat /\ times.current = Start(audio, i) BY <1>1 DEF InPacket
<1>3. Start(audio, i) \in Nat /\ Samples(audio, i) \in Nat BY <1>1, Current
<1>4. sound' = "gaps" BY DEF Worse
<1>5. AdecTypes' BY <1>1, <1>4 DEF AdecTypes
<1>6. InPacket'
  <2>1. Reading' BY <1>2, <1>3, <1>4 DEF Reading, Filled, Decoding
  <2> QED BY <2>1, <1>2 DEF InPacket
<1>7. RowBefore(sound, Given \o ring, NextIn)'
  <2>1. NextIn' = NextIn BY DEF NextIn
  <2>2. NextIn \in Int /\ Given \o ring \in Seq(Nat) BY <1>1, InInt
  <2>3. RowBefore(sound, Given \o ring, NextIn) BY DEF Timed
  <2>4. RowBefore("gaps", Given \o ring, NextIn)
    <3>1. NextIn <= NextIn /\ "gaps" # "whole" BY <2>2
    <3> QED BY <2>2, <2>3, <3>1, RowLater
  <2> QED BY <2>1, <2>4, <1>4 DEF Given
<1> QED BY <1>1, <1>5, <1>6, <1>7 DEF Timed

(* A frame that is not decoded leaves a gap ...                             *)
LEMMA DecodeNothing ==
  ASSUME Timed, decode_nothing, sound' # "repeated"
  PROVE  Timed'
<1>1. rest' \in Seq(Seq(Nat)) BY DEF decode_nothing, Timed, AdecTypes
<1>2. /\ adec = "decode" /\ adec' = "read" /\ sound' = Worse("gaps")
      /\ UNCHANGED <<audio, untimed_packets, packets_read, undecoded, inlen, decoded, times, ring, unit, device>>
  BY DEF decode_nothing
<1> QED BY <1>1, <1>2, GotNothing

(* ... and so does a packet that is not complete.                           *)
LEMMA NeedMore ==
  ASSUME Timed, need_more_data, sound' # "repeated"
  PROVE  Timed'
<1>1. rest' \in Seq(Seq(Nat))
  <2>1. adec = "decode" /\ rest' = SubSeq(undecoded, 1, inlen) BY DEF need_more_data
  <2>2. AdecTypes /\ InPacket BY <2>1, InLoop
  <2>3. Decoding BY <2>1, <2>2 DEF InPacket
  <2>4. inlen = Len(undecoded) /\ undecoded \in Seq(Seq(Nat)) BY <2>2, <2>3 DEF Decoding, AdecTypes
  <2>5. SubSeq(undecoded, 1, inlen) = undecoded BY <2>4, SubSeqFull
  <2> QED BY <2>1, <2>4, <2>5
<1>2. /\ adec = "decode" /\ adec' = "read" /\ sound' = Worse("gaps")
      /\ UNCHANGED <<audio, untimed_packets, packets_read, undecoded, inlen, decoded, times, ring, unit, device>>
  BY DEF need_more_data
<1> QED BY <1>1, <1>2, GotNothing

(* What was decoded goes into the ring as far as there is room.             *)
LEMMA Refill ==
  ASSUME Timed, refill_buffer, sound' # "repeated"
  PROVE  Timed'
<1> DEFINE i == packets_read
<1>1. /\ adec = "refill" /\ adec' = "put" /\ ring' = ring \o decoded /\ decoded' = <<>>
      /\ UNCHANGED <<audio, untimed_packets, packets_read, undecoded, inlen, rest, times, unit, device, sound>>
  BY DEF refill_buffer
<1>2. AdecTypes /\ InPacket /\ i # 0 /\ times \in Times BY <1>1, InLoop
<1>3. Loaded(Whole(audio, i), Samples(audio, i)) /\ times.first \in Nat /\ times.current = Start(audio, i)
  BY <1>1, <1>2 DEF InPacket
<1>4. /\ Start(audio, i) \in Nat /\ Samples(audio, i) \in Nat /\ Whole(audio, i) \in Seq(Nat)
      /\ Len(Whole(audio, i)) = Samples(audio, i)
      /\ \A j \in 1 .. Samples(audio, i) : Whole(audio, i)[j] = Start(audio, i) + j - 1
  BY <1>2, Current
<1>5. ring \in Seq(Nat) /\ Given \in Seq(Nat) /\ decoded = Whole(audio, i)
  BY <1>2, <1>3, ConcatProperties DEF AdecTypes, Loaded, Given
<1>6. ring' \in Seq(Nat) BY <1>1, <1>4, <1>5, ConcatProperties
<1>7. AdecTypes'
  <2>1. <<>> \in Seq(Nat) BY EmptySeq
  <2> QED BY <2>1, <1>1, <1>2, <1>6 DEF AdecTypes
<1>8. InPacket'
  <2>1. Loaded(<<>>, Samples(audio, i))' BY <1>1, <1>3 DEF Loaded
  <2> QED BY <2>1, <1>1, <1>3 DEF InPacket
<1>9. RowBefore(sound, Given \o ring, NextIn)'
  <2>1. NextIn = Start(audio, i) BY <1>1, <1>3, <1>4, <1>5 DEF NextIn, Loaded
  <2>2. NextIn' = Start(audio, i) + Len(Whole(audio, i)) BY <1>1, <1>3, <1>4 DEF NextIn, Loaded
  <2>3. RowBefore(sound, Given \o ring, Start(audio, i)) BY <2>1 DEF Timed
  <2>4. Given \o ring \in Seq(Nat) BY <1>5, ConcatProperties
  <2>5. RowBefore(sound, (Given \o ring) \o Whole(audio, i), Start(audio, i) + Len(Whole(audio, i)))
    <3>1. /\ Whole(audio, i) \in Seq(Nat) /\ Start(audio, i) \in Int
          /\ \A j \in 1 .. Len(Whole(audio, i)) : Whole(audio, i)[j] = Start(audio, i) + j - 1
      BY <1>4
    <3> HIDE DEF i
    <3> QED BY <2>3, <2>4, <3>1, RowGrows
  <2>6. Given' \o ring' = (Given \o ring) \o Whole(audio, i)
    <3>1. Given' = Given BY <1>1 DEF Given
    <3> QED BY <3>1, <1>1, <1>4, <1>5, Associative
  <2> QED BY <2>2, <2>5, <2>6, <1>1
<1> QED BY <1>1, <1>2, <1>7, <1>8, <1>9 DEF Timed

(* The loop goes on to the next frame of the packet, or to the next packet. *)
LEMMA Loop ==
  ASSUME Timed, decode_loop, sound' # "repeated"
  PROVE  Timed'
<1> DEFINE i == packets_read
<1>1. /\ adec = "put" /\ adec' = IF inlen > 0 THEN "decode" ELSE "read"
      /\ times' = [times EXCEPT !.cache_size = 0]
      /\ UNCHANGED <<audio, untimed_packets, packets_read, undecoded, inlen, rest, decoded, ring, unit, device, sound>>
  BY DEF decode_loop
<1>2. AdecTypes /\ InPacket /\ i # 0 /\ times \in Times BY <1>1, InLoop
<1>3. Loaded(<<>>, Samples(audio, i)) /\ times.first \in Nat /\ times.current = Start(audio, i)
  BY <1>1, <1>2 DEF InPacket
<1>4. Samples(audio, i) \in Nat BY <1>2, Current
<1>5. adec' = "read" /\ decoded = <<>> /\ times.buffer_size = Samples(audio, i) BY <1>1, <1>3 DEF Loaded
<1>6. /\ times' \in Times /\ times'.first = times.first /\ times'.current = times.current
      /\ times'.buffer_size = times.buffer_size /\ times'.cache_size = 0
  BY <1>1, <1>2, CacheTimes
<1>7. AdecTypes' BY <1>1, <1>2, <1>5, <1>6 DEF AdecTypes
<1>8. InPacket'
  <2>1. Reading' BY <1>1, <1>4, <1>5, <1>6 DEF Reading, Filled
  <2> QED BY <2>1, <1>1, <1>3, <1>5, <1>6 DEF InPacket
<1>9. RowBefore(sound, Given \o ring, NextIn)'
  <2>1. NextIn = NextIn' BY <1>1, <1>5, <1>6 DEF NextIn
  <2>2. RowBefore(sound, Given \o ring, NextIn) BY DEF Timed
  <2> QED BY <2>1, <2>2, <1>1 DEF Given
<1> QED BY <1>1, <1>2, <1>7, <1>8, <1>9 DEF Timed

(* A row that is cut in two.                                                *)
LEMMA CutInTwo ==
  ASSUME NEW q \in Seq(Nat), NEW n \in 1 .. Len(q)
  PROVE  /\ SubSeq(q, 1, n) \in Seq(Nat) /\ SubSeq(q, n + 1, Len(q)) \in Seq(Nat)
         /\ SubSeq(q, 1, n) \o SubSeq(q, n + 1, Len(q)) = q
         /\ Len(SubSeq(q, 1, n)) = n /\ Len(SubSeq(q, n + 1, Len(q))) = Len(q) - n
<1>1. Len(q) \in Nat BY LenProperties
<1>2. n \in Nat /\ n \in 0 .. Len(q) /\ n + 1 \in 1 .. Len(q) + 1 /\ 1 \in 1 .. Len(q) + 1 /\ Len(q) \in 0 .. Len(q)
  BY <1>1
<1>3. SubSeq(q, 1, n) \in Seq(Nat) /\ SubSeq(q, n + 1, Len(q)) \in Seq(Nat) BY <1>2, SubSeqProperties
<1>4. SubSeq(q, 1, n) \o SubSeq(q, n + 1, Len(q)) = SubSeq(q, 1, Len(q)) BY <1>1, <1>2, ConcatAdjacentSubSeq
<1>5. SubSeq(q, 1, Len(q)) = q BY SubSeqFull
<1>6. Len(SubSeq(q, 1, n)) = IF 1 <= n THEN n - 1 + 1 ELSE 0 BY <1>2, SubSeqProperties
<1>7. Len(SubSeq(q, n + 1, Len(q))) = IF n + 1 <= Len(q) THEN Len(q) - (n + 1) + 1 ELSE 0
  BY <1>2, SubSeqProperties
<1>8. Len(SubSeq(q, 1, n)) = n BY <1>2, <1>6
<1>9. Len(SubSeq(q, n + 1, Len(q))) = Len(q) - n BY <1>1, <1>2, <1>7
<1> QED BY <1>3, <1>4, <1>5, <1>8, <1>9

(* The output takes samples from the ring, ...                              *)
LEMMA OutputRead ==
  ASSUME Timed, audio_output_read, sound' # "repeated"
  PROVE  Timed'
<1> DEFINE n == IF Len(ring) < UnitSize THEN Len(ring) ELSE UnitSize
<1>1. unit = <<>> /\ ring # <<>> /\ unit' = SubSeq(ring, 1, n) /\ ring' = SubSeq(ring, n + 1, Len(ring))
  BY DEF audio_output_read
<1>2. UNCHANGED <<audio, untimed_packets, packets_read, adec, undecoded, inlen, rest, decoded, times, device, sound>>
  BY DEF audio_output_read, loop_vars
<1>3. AdecTypes /\ ring \in Seq(Nat) /\ device \in Seq(Nat) /\ Len(ring) \in Nat \ {0}
  BY <1>1, LenProperties, EmptySeq DEF Timed, AdecTypes
<1>4. UnitSize \in Nat \ {0} BY AudioAssumption DEF AudioAssumption
<1>5. packets_read # 0 /\ InPacket BY <1>1 DEF Timed, Unread
<1>6. n \in 1 .. Len(ring) /\ n <= UnitSize BY <1>3, <1>4
<1> HIDE DEF n
<1>7. /\ SubSeq(ring, 1, n) \in Seq(Nat) /\ SubSeq(ring, n + 1, Len(ring)) \in Seq(Nat)
      /\ SubSeq(ring, 1, n) \o SubSeq(ring, n + 1, Len(ring)) = ring /\ Len(SubSeq(ring, 1, n)) = n
  BY <1>3, <1>6, CutInTwo
<1>8. unit' \in Seq(Nat) /\ Len(unit') <= UnitSize /\ ring' \in Seq(Nat) BY <1>1, <1>6, <1>7
<1>9. Given' \o ring' = Given \o ring
  <2>1. (device \o unit') \o ring' = device \o (unit' \o ring') BY <1>3, <1>8, Associative
  <2>2. device \o unit = device BY <1>1, <1>3, ConcatEmptySeq
  <2> QED BY <2>1, <2>2, <1>1, <1>2, <1>7 DEF Given
<1>10. AdecTypes' BY <1>2, <1>3, <1>8 DEF AdecTypes
<1>11. InPacket' BY <1>2, <1>5 DEF InPacket, Reading, Repacking, Filled, Decoding, Loaded
<1>12. RowBefore(sound, Given \o ring, NextIn)'
  <2>1. NextIn = NextIn' BY <1>2 DEF NextIn
  <2>2. RowBefore(sound, Given \o ring, NextIn) BY DEF Timed
  <2> QED BY <2>1, <2>2, <1>2, <1>9
<1> QED BY <1>2, <1>5, <1>10, <1>11, <1>12 DEF Timed

(* ... writes them to its device ...                                        *)
LEMMA OutputWrite ==
  ASSUME Timed, audio_output_write, sound' # "repeated"
  PROVE  Timed'
<1>1. PICK n \in 1 .. Len(unit) : device' = device \o SubSeq(unit, 1, n) /\ unit' = SubSeq(unit, n + 1, Len(unit))
  BY DEF audio_output_write
<1>2. UNCHANGED <<audio, untimed_packets, packets_read, adec, undecoded, inlen, rest, decoded, times, ring, sound>>
  BY DEF audio_output_write, loop_vars
<1>3. AdecTypes /\ unit \in Seq(Nat) /\ device \in Seq(Nat) /\ Len(unit) \in Nat /\ Len(unit) <= UnitSize
  BY LenProperties DEF Timed, AdecTypes
<1>4. UnitSize \in Nat BY AudioAssumption DEF AudioAssumption
<1>5. packets_read # 0 /\ InPacket
  <2>1. unit # <<>> BY <1>1, <1>3, EmptySeq
  <2> QED BY <2>1 DEF Timed, Unread
<1>6. /\ SubSeq(unit, 1, n) \in Seq(Nat) /\ SubSeq(unit, n + 1, Len(unit)) \in Seq(Nat)
      /\ SubSeq(unit, 1, n) \o SubSeq(unit, n + 1, Len(unit)) = unit
      /\ Len(SubSeq(unit, n + 1, Len(unit))) = Len(unit) - n
  BY <1>1, <1>3, CutInTwo
<1>7. unit' \in Seq(Nat) /\ Len(unit') <= UnitSize /\ device' \in Seq(Nat)
  BY <1>1, <1>3, <1>4, <1>6, ConcatProperties
<1>8. Given' = Given
  <2>1. (device \o SubSeq(unit, 1, n)) \o SubSeq(unit, n + 1, Len(unit))
          = device \o (SubSeq(unit, 1, n) \o SubSeq(unit, n + 1, Len(unit)))
    BY <1>3, <1>6, Associative
  <2> QED BY <2>1, <1>1, <1>6 DEF Given
<1>9. AdecTypes' BY <1>2, <1>3, <1>7 DEF AdecTypes
<1>10. InPacket' BY <1>2, <1>5 DEF InPacket, Reading, Repacking, Filled, Decoding, Loaded
<1>11. RowBefore(sound, Given \o ring, NextIn)'
  <2>1. NextIn = NextIn' BY <1>2 DEF NextIn
  <2>2. RowBefore(sound, Given \o ring, NextIn) BY DEF Timed
  <2> QED BY <2>1, <2>2, <1>2, <1>8
<1> QED BY <1>2, <1>5, <1>9, <1>10, <1>11 DEF Timed

(* ... which plays one.                                                     *)
LEMMA Play ==
  ASSUME Timed, play_sample, sound' # "repeated"
  PROVE  Timed'
<1>1. /\ device # <<>> /\ device' = Tail(device)
      /\ UNCHANGED <<audio, untimed_packets, packets_read, adec, undecoded, inlen, rest, decoded, times, ring, unit, sound>>
  BY DEF play_sample, loop_vars
<1>2. AdecTypes /\ ring \in Seq(Nat) /\ unit \in Seq(Nat) /\ device \in Seq(Nat) /\ Given \in Seq(Nat)
  BY ConcatProperties DEF Timed, AdecTypes, Given
<1>3. packets_read # 0 /\ InPacket BY <1>1 DEF Timed, Unread
<1>4. device' \in Seq(Nat) BY <1>1, <1>2, HeadTailProperties
<1>5. AdecTypes' BY <1>1, <1>2, <1>4 DEF AdecTypes
<1>6. InPacket' BY <1>1, <1>3 DEF InPacket, Reading, Repacking, Filled, Decoding, Loaded
<1>7. RowBefore(sound, Given \o ring, NextIn)'
  <2>1. Given' \o ring' = Tail(Given \o ring) /\ Given \o ring # <<>>
    <3>1. Tail(device) \o unit = Tail(Given) /\ Given # <<>> BY <1>1, <1>2, TailOfConcat DEF Given
    <3>2. Given' = Tail(Given) BY <3>1, <1>1 DEF Given
    <3> QED BY <3>1, <3>2, <1>1, <1>2, TailOfConcat
  <2>2. NextIn = NextIn' BY <1>1 DEF NextIn
  <2>3. NextIn \in Int /\ Given \o ring \in Seq(Nat) BY <1>2, InInt
  <2>4. RowBefore(sound, Given \o ring, NextIn) BY DEF Timed
  <2>5. RowBefore(sound, Tail(Given \o ring), NextIn) BY <2>1, <2>3, <2>4, RowTail
  <2> QED BY <2>1, <2>2, <2>5, <1>1
<1> QED BY <1>1, <1>3, <1>5, <1>6, <1>7 DEF Timed

(* At first nothing was read, and every packet will have its time.          *)
LEMMA TimedAtFirst ==
  ASSUME \A u \in UntimedPackets : u = {}, audio_decoder_init
  PROVE  Timed
<1>1. /\ audio \in Audios /\ untimed_packets = {} /\ packets_read = 0 /\ adec = "read"
      /\ undecoded = <<>> /\ inlen = 0 /\ rest = <<>> /\ decoded = <<>>
      /\ times = [first |-> -1, current |-> -1, last_valid |-> 0, buffer_size |-> 0, cache_size |-> 0]
      /\ ring = <<>> /\ unit = <<>> /\ device = <<>> /\ sound = "whole"
  BY DEF audio_decoder_init, ffmpeg_adec_init
<1>2. Len(audio.packets) \in Nat
  <2>1. audio.packets \in Seq(Seq(Nat \ {0}) \ {<<>>}) BY <1>1, AudioAssumption DEF AudioAssumption
  <2> QED BY <2>1, LenProperties
<1>3. times \in Times /\ times.first = -1 /\ times.buffer_size = 0 /\ times.cache_size = 0 BY <1>1 DEF Times
<1>4. <<>> \in Seq(Nat) /\ <<>> \in Seq(Seq(Nat)) BY EmptySeq
<1>5. AdecTypes
  <2>1. Len(<<>>) <= UnitSize BY AudioAssumption DEF AudioAssumption
  <2> QED BY <2>1, <1>1, <1>2, <1>3, <1>4 DEF AdecTypes
<1>6. Unread BY <1>1, <1>3 DEF Unread
<1>7. RowBefore(sound, Given \o ring, NextIn)
  <2>1. Given \o ring = <<>> /\ Len(<<>>) = 0 BY <1>1 DEF Given
  <2> QED BY <2>1 DEF RowBefore
<1> QED BY <1>1, <1>5, <1>6, <1>7 DEF Timed

(* Each step keeps the invariant, unless a packet is heard twice.           *)
LEMMA TimedStep ==
  ASSUME TimedUnlessRepeated, [AdecNext]_adec_vars
  PROVE  TimedUnlessRepeated'
<1> SUFFICES ASSUME sound' # "repeated" PROVE Timed'
  BY DEF TimedUnlessRepeated
<1>1. CASE UNCHANGED adec_vars
  <2>1. /\ UNCHANGED <<audio, untimed_packets, packets_read, adec, undecoded, inlen, rest, decoded>>
        /\ UNCHANGED <<times, ring, unit, device, sound>>
    BY <1>1 DEF adec_vars, loop_vars
  <2>2. Timed BY <2>1 DEF TimedUnlessRepeated
  <2> QED BY <2>1, <2>2 DEF Timed, AdecTypes, Unread, InPacket, Reading, Repacking, Filled, Decoding, Loaded, NextIn, Given
<1>2. CASE read_first_frame
  <2>1. sound' = sound BY <1>2 DEF read_first_frame
  <2> QED BY <2>1, <1>2, FirstFrame DEF TimedUnlessRepeated
<1>3. CASE audio_read_frame
  <2>1. sound' = sound BY <1>3 DEF audio_read_frame
  <2> QED BY <2>1, <1>3, LaterFrame DEF TimedUnlessRepeated
<1>4. CASE repack_frame
  <2>1. sound' = sound BY <1>4 DEF repack_frame
  <2> QED BY <2>1, <1>4, Repack DEF TimedUnlessRepeated
<1>5. CASE ffmpeg_adec_decode
  <2>1. sound # "repeated" BY <1>5 DEF ffmpeg_adec_decode
  <2> QED BY <2>1, <1>5, Decode DEF TimedUnlessRepeated
<1>6. CASE count_decoded
  <2>1. sound' = sound BY <1>6 DEF count_decoded
  <2> QED BY <2>1, <1>6, Count DEF TimedUnlessRepeated
<1>7. CASE decode_nothing
  <2>1. sound # "repeated" BY <1>7 DEF decode_nothing, Worse
  <2> QED BY <2>1, <1>7, DecodeNothing DEF TimedUnlessRepeated
<1>8. CASE need_more_data
  <2>1. sound # "repeated" BY <1>8 DEF need_more_data, Worse
  <2> QED BY <2>1, <1>8, NeedMore DEF TimedUnlessRepeated
<1>9. CASE refill_buffer
  <2>1. sound' = sound BY <1>9 DEF refill_buffer
  <2> QED BY <2>1, <1>9, Refill DEF TimedUnlessRepeated
<1>10. CASE decode_loop
  <2>1. sound' = sound BY <1>10 DEF decode_loop
  <2> QED BY <2>1, <1>10, Loop DEF TimedUnlessRepeated
<1>11. CASE audio_output_read
  <2>1. sound' = sound BY <1>11 DEF audio_output_read, loop_vars
  <2> QED BY <2>1, <1>11, OutputRead DEF TimedUnlessRepeated
<1>12. CASE audio_output_write
  <2>1. sound' = sound BY <1>12 DEF audio_output_write, loop_vars
  <2> QED BY <2>1, <1>12, OutputWrite DEF TimedUnlessRepeated
<1>13. CASE play_sample
  <2>1. sound' = sound BY <1>13 DEF play_sample, loop_vars
  <2> QED BY <2>1, <1>13, Play DEF TimedUnlessRepeated
<1> QED BY <1>1, <1>2, <1>3, <1>4, <1>5, <1>6, <1>7, <1>8, <1>9, <1>10, <1>11, <1>12, <1>13 DEF AdecNext

-----------------------------------------------------------------------------
(* What is told of it.                                                      *)
LEMMA MaxOfTwo ==
  ASSUME NEW x \in Int
  PROVE  Max({0, x}) = IF x > 0 THEN x ELSE 0
<1>1. \E m \in {0, x} : \A y \in {0, x} : m >= y
  <2>1. CASE x > 0 BY <2>1
  <2>2. CASE ~(x > 0) BY <2>2
  <2> QED BY <2>1, <2>2
<1>2. Max({0, x}) \in {0, x} /\ \A y \in {0, x} : Max({0, x}) >= y BY <1>1 DEF Max
<1> QED BY <1>2

Told(v) == IF v > 0 THEN v ELSE 0

(* The time that is told counts back from the end of what was decoded.      *)
LEMMA ToldTime ==
  ASSUME Timed, packets_read # 0
  PROVE  audio_get_current_pts
           = Told(times.current + times.buffer_size - times.cache_size - Len(ring) - Len(device))
<1>1. AdecTypes /\ InPacket BY DEF Timed
<1>2. times.first \in Nat /\ times.current \in Nat BY <1>1, Current DEF InPacket
<1>3. times.buffer_size \in Nat /\ times.cache_size \in Nat BY <1>1 DEF AdecTypes, Times
<1>4. Len(ring) \in Nat /\ Len(device) \in Nat BY <1>1, LenProperties DEF AdecTypes
<1> DEFINE x == times.current + SinceCurrent
<1>5. x = times.current + times.buffer_size - times.cache_size - Len(ring) /\ x \in Int
  BY <1>2, <1>3, <1>4 DEF SinceCurrent
<1>6. audio_decoder_get_pts = Max({0, x})
  <2>1. times.first # -1 BY <1>2
  <2>2. ~Invalid(times.current) BY <1>2 DEF Invalid, NoTime
  <2> QED BY <2>1, <2>2 DEF audio_decoder_get_pts
<1> HIDE DEF x
<1>7. audio_decoder_get_pts = IF x > 0 THEN x ELSE 0 BY <1>5, <1>6, MaxOfTwo
<1>8. audio_get_current_pts
        = IF audio_decoder_get_pts = -1 THEN -1
          ELSE IF Len(device) < audio_decoder_get_pts THEN audio_decoder_get_pts - Len(device) ELSE 0
  BY DEF audio_get_current_pts
<1> DEFINE d == audio_decoder_get_pts
<1>9. d \in Nat /\ d = IF x > 0 THEN x ELSE 0 BY <1>5, <1>7
<1>10. audio_get_current_pts = IF Len(device) < d THEN d - Len(device) ELSE 0
  <2>1. d # -1 BY <1>9
  <2> QED BY <2>1, <1>8
<1> HIDE DEF d
<1>11. audio_get_current_pts = Told(x - Len(device)) BY <1>4, <1>5, <1>9, <1>10 DEF Told
<1>12. x - Len(device) = times.current + times.buffer_size - times.cache_size - Len(ring) - Len(device)
  BY <1>2, <1>3, <1>4, <1>5
<1> QED BY <1>11, <1>12

(* The next sample to be heard, counted back from the same end.             *)
LEMMA HeardNext ==
  ASSUME Timed, ToHear # <<>>
  PROVE  /\ packets_read # 0 /\ Head(ToHear) \in Nat
         /\ sound = "whole" => Head(ToHear) = NextIn - Len(ring) - Len(device) - Len(unit)
         /\ Head(ToHear) <= NextIn - Len(ring) - Len(device) - Len(unit)
<1> DEFINE q == Given \o ring
<1>1. /\ AdecTypes /\ ring \in Seq(Nat) /\ unit \in Seq(Nat) /\ device \in Seq(Nat) /\ decoded \in Seq(Nat)
      /\ Given \in Seq(Nat) /\ Len(Given) = Len(device) + Len(unit)
  BY ConcatProperties DEF Timed, AdecTypes, Given
<1>2. /\ q \in Seq(Nat) /\ Len(q) = Len(device) + Len(unit) + Len(ring) /\ ToHear = q \o decoded
      /\ Len(ring) \in Nat /\ Len(unit) \in Nat /\ Len(device) \in Nat /\ NextIn \in Int
  BY <1>1, ConcatProperties, LenProperties, InInt DEF ToHear, Given
<1>3. packets_read # 0 /\ InPacket
  <2>1. CASE Unread
    <3>1. ToHear = <<>> BY <2>1 DEF ToHear, Unread
    <3> QED BY <3>1
  <2> QED BY <2>1 DEF Timed
<1>4. RowBefore(sound, q, NextIn) BY DEF Timed
<1> HIDE DEF q
<1>5. ToHear \in Seq(Nat) BY <1>1, <1>2, ConcatProperties
<1>6. Head(ToHear) = ToHear[1] /\ Head(ToHear) \in Nat BY <1>5, HeadTailProperties
<1>7. CASE q # <<>>
  <2>1. Head(ToHear) = q[1] BY <1>1, <1>2, <1>6, <1>7, TailOfConcat
  <2>2. Len(q) \in Nat \ {0} BY <1>2, <1>7, LenProperties, EmptySeq
  <2>3. 1 \in 1 .. Len(q) BY <2>2
  <2>4. IF sound = "whole" THEN q[1] = NextIn - Len(q) + 1 - 1 ELSE q[1] <= NextIn - Len(q) + 1 - 1
    BY <1>4, <2>3 DEF RowBefore
  <2>5. NextIn - Len(q) + 1 - 1 = NextIn - Len(ring) - Len(device) - Len(unit) BY <1>2
  <2>6. NextIn - Len(ring) - Len(device) - Len(unit) \in Int BY <1>2
  <2> QED BY <2>1, <2>4, <2>5, <2>6, <1>3, <1>6
<1>8. CASE q = <<>>
  <2>1. ToHear = decoded BY <1>1, <1>2, <1>8, ConcatEmptySeq
  <2>2. Len(ring) = 0 /\ Len(device) = 0 /\ Len(unit) = 0
    <3>1. Len(q) = 0 BY <1>8
    <3>2. \A x, y, z \in Nat : x + y + z = 0 => x = 0 /\ y = 0 /\ z = 0 OBVIOUS
    <3>3. Len(device) + Len(unit) + Len(ring) = 0 BY <3>1, <1>2
    <3> QED BY <3>2, <3>3, <1>2
  <2>3. Loaded(Whole(audio, packets_read), 0) \/ Loaded(Whole(audio, packets_read), Samples(audio, packets_read))
    <3>1. adec = "count" \/ adec = "refill"
      BY <1>1, <1>3, <2>1 DEF InPacket, AdecTypes, Reading, Repacking, Decoding, Loaded
    <3> QED BY <3>1, <1>3 DEF InPacket
  <2>4. decoded = Whole(audio, packets_read) BY <2>3 DEF Loaded
  <2>5. /\ Start(audio, packets_read) \in Nat /\ Samples(audio, packets_read) \in Nat
        /\ Len(decoded) = Samples(audio, packets_read)
        /\ \A j \in 1 .. Samples(audio, packets_read) : decoded[j] = Start(audio, packets_read) + j - 1
    BY <1>1, <1>3, <2>4, Current
  <2>6. Samples(audio, packets_read) # 0 BY <1>1, <2>1, <2>5, EmptySeq
  <2>7. 1 \in 1 .. Samples(audio, packets_read) BY <2>5, <2>6
  <2>8. decoded[1] = Start(audio, packets_read) + 1 - 1 BY <2>5, <2>7
  <2>9. Head(ToHear) = Start(audio, packets_read) BY <1>6, <2>1, <2>5, <2>8
  <2>10. NextIn = Start(audio, packets_read)
    <3>1. times.current = Start(audio, packets_read) BY <1>3 DEF InPacket
    <3>2. CASE adec = "count"
      <4>1. times.buffer_size = 0 BY <1>3, <3>2 DEF InPacket, Loaded
      <4> QED BY <3>1, <3>2, <4>1, <2>5 DEF NextIn
    <3>3. CASE adec = "refill"
      <4>1. times.buffer_size = Samples(audio, packets_read) BY <1>3, <3>3 DEF InPacket, Loaded
      <4> QED BY <3>1, <3>3, <4>1, <2>5 DEF NextIn
    <3>4. adec = "count" \/ adec = "refill"
      BY <1>1, <1>3, <2>1 DEF InPacket, AdecTypes, Reading, Repacking, Decoding, Loaded
    <3> QED BY <3>2, <3>3, <3>4
  <2>11. NextIn - Len(ring) - Len(device) - Len(unit) = Start(audio, packets_read) BY <2>2, <2>5, <2>10
  <2>12. Head(ToHear) = NextIn - Len(ring) - Len(device) - Len(unit) BY <2>9, <2>11
  <2>13. Head(ToHear) <= NextIn - Len(ring) - Len(device) - Len(unit) BY <2>5, <2>9, <2>11
  <2> QED BY <2>12, <2>13, <1>3, <1>6
<1> QED BY <1>7, <1>8

\* While the packet is repacked, the two ends differ by less than a packet ...
LEMMA PartAdded ==
  ASSUME Timed, packets_read # 0, adec = "repack"
  PROVE  /\ times.buffer_size \in 0 .. Longest /\ Longest \in Nat
         /\ NextIn = times.current /\ times.cache_size = 0
<1> DEFINE i == packets_read
<1>1. AdecTypes /\ InPacket /\ Repacking BY DEF Timed, InPacket
<1>2. i \in 1 .. Len(audio.packets) /\ i > 1 /\ times.current \in Nat BY <1>1, Current DEF Repacking, InPacket
<1>3. audio.packets \in Seq(Seq(Nat \ {0}) \ {<<>>}) BY <1>1, AudioAssumption DEF AudioAssumption, AdecTypes
<1>4. Len(audio.packets) \in Nat BY <1>3, LenProperties
<1>5. i - 1 \in 1 .. Len(audio.packets) BY <1>2, <1>4
<1>6. Longest \in Nat /\ Samples(audio, i - 1) <= Longest BY <1>1, <1>5, LongestIs DEF AdecTypes
<1>7. Samples(audio, i - 1) \in Nat BY <1>1, <1>5, AudioPackets DEF AdecTypes
<1>8. times.buffer_size \in Nat /\ times.buffer_size <= Samples(audio, i - 1)
  BY <1>1 DEF Repacking, Filled, AdecTypes, Times
<1>9. decoded = <<>> /\ times.cache_size = 0 BY <1>1 DEF Repacking
<1>10. NextIn = times.current BY <1>2 DEF NextIn
<1> QED BY <1>6, <1>7, <1>8, <1>9, <1>10

(* ... and while its samples are counted and put away as well.              *)
LEMMA PartMissing ==
  ASSUME Timed, packets_read # 0, adec = "count" \/ adec = "put"
  PROVE  /\ times.cache_size \in 0 .. Longest /\ Longest \in Nat
         /\ NextIn = times.current + times.buffer_size
<1> DEFINE i == packets_read
<1>1. AdecTypes /\ InPacket BY DEF Timed
<1>2. i \in 1 .. Len(audio.packets) /\ Samples(audio, i) \in Nat BY <1>1, Current
<1>3. Longest \in Nat /\ Samples(audio, i) <= Longest BY <1>1, <1>2, LongestIs DEF AdecTypes
<1>4. times.cache_size = Samples(audio, i) BY <1>1 DEF InPacket, Loaded
<1>5. NextIn = times.current + times.buffer_size
  <2>1. times.current \in Int /\ times.buffer_size \in Nat BY <1>1 DEF AdecTypes, Times
  <2>2. adec # "repack" /\ adec # "refill" OBVIOUS
  <2> QED BY <2>1, <2>2 DEF NextIn
<1> QED BY <1>2, <1>3, <1>4, <1>5

(* Everywhere else they are the same.                                       *)
LEMMA NothingPending ==
  ASSUME Timed, packets_read # 0, adec \in {"read", "decode", "refill"}
  PROVE  NextIn = times.current + times.buffer_size - times.cache_size
<1>1. AdecTypes /\ InPacket BY DEF Timed
<1>2. times.current \in Int /\ times.buffer_size \in Nat BY <1>1 DEF AdecTypes, Times
<1>3. CASE adec = "read"
  <2>1. times.cache_size = 0 BY <1>1, <1>3 DEF InPacket, Reading
  <2> QED BY <2>1, <1>2, <1>3 DEF NextIn
<1>4. CASE adec = "decode"
  <2>1. times.cache_size = 0 BY <1>1, <1>4 DEF InPacket, Decoding
  <2> QED BY <2>1, <1>2, <1>4 DEF NextIn
<1>5. CASE adec = "refill"
  <2>1. /\ decoded = Whole(audio, packets_read)
        /\ times.buffer_size = Samples(audio, packets_read) /\ times.cache_size = Samples(audio, packets_read)
    BY <1>1, <1>5 DEF InPacket, Loaded
  <2>2. Len(decoded) = Samples(audio, packets_read) /\ Samples(audio, packets_read) \in Nat BY <1>1, <2>1, Current
  <2> QED BY <2>1, <2>2, <1>2, <1>5 DEF NextIn
<1> QED BY <1>3, <1>4, <1>5

\* So the time that is told is at most one packet from the one that is heard.
LEMMA TimedSound ==
  ASSUME TimedUnlessRepeated
  PROVE  SoundTimed
<1> DEFINE Between == adec \in {"repack", "count", "put"}
<1> DEFINE h == Head(ToHear)
<1> DEFINE u == Len(unit)
<1> DEFINE e == NextIn - Len(ring) - Len(device) - u
<1> DEFINE v == times.current + times.buffer_size - times.cache_size - Len(ring) - Len(device)
<1> DEFINE Off == audio_get_current_pts - h - u
<1> SUFFICES ASSUME ToHear # <<>>, sound # "repeated"
             PROVE  /\ u <= UnitSize
                    /\ IF sound = "whole"
                       THEN IF Between THEN Off \in -Longest .. Longest ELSE Off = 0
                       ELSE Between \/ Off >= 0
  BY DEF SoundTimed
<1>1. Timed /\ AdecTypes BY DEF TimedUnlessRepeated, Timed
<1>2. packets_read # 0 /\ h \in Nat /\ (sound = "whole" => h = e) /\ h <= e BY <1>1, HeardNext
<1>3. /\ times.current \in Int /\ times.buffer_size \in Nat /\ times.cache_size \in Nat /\ NextIn \in Int
      /\ Len(ring) \in Nat /\ Len(device) \in Nat /\ u \in Nat /\ u <= UnitSize
  BY <1>1, InInt, LenProperties DEF AdecTypes, Times
<1>4. v \in Int /\ e \in Int BY <1>3
<1>5. audio_get_current_pts = Told(v) BY <1>1, <1>2, ToldTime
<1> HIDE DEF h, u
<1>6. CASE adec \in {"read", "decode", "refill"}
  <2>1. NextIn = times.current + times.buffer_size - times.cache_size BY <1>1, <1>2, <1>6, NothingPending
  <2>2. v = e + u BY <2>1, <1>3
  <2> HIDE DEF v, e
  <2>3. Told(v) >= h + u /\ (h = e => Told(v) = h + u) /\ Told(v) \in Int BY <2>2, <1>2, <1>3, <1>4 DEF Told
  <2>4. Off >= 0 /\ (sound = "whole" => Off = 0)
    <3>1. Told(v) - h - u >= 0 /\ (Told(v) = h + u => Told(v) - h - u = 0) BY <2>3, <1>2, <1>3
    <3> QED BY <3>1, <2>3, <1>2, <1>5
  <2>5. ~Between BY <1>6
  <2> QED BY <2>4, <2>5, <1>3
<1>7. CASE adec = "repack"
  <2>1. /\ times.buffer_size \in 0 .. Longest /\ Longest \in Nat
        /\ NextIn = times.current /\ times.cache_size = 0
    BY <1>1, <1>2, <1>7, PartAdded
  <2>2. v = e + u + times.buffer_size BY <2>1, <1>3
  <2> HIDE DEF v, e
  <2>3. ASSUME sound = "whole" PROVE Told(v) - h - u \in -Longest .. Longest
    <3>1. h = e BY <1>2, <2>3
    <3>2. Told(v) = h + u + times.buffer_size BY <3>1, <2>2, <1>2, <1>3 DEF Told
    <3> QED BY <3>2, <2>1, <1>2, <1>3
  <2>4. Between BY <1>7
  <2> QED BY <2>3, <2>4, <1>3, <1>5
<1>8. CASE adec = "count" \/ adec = "put"
  <2>1. /\ times.cache_size \in 0 .. Longest /\ Longest \in Nat
        /\ NextIn = times.current + times.buffer_size
    BY <1>1, <1>2, <1>8, PartMissing
  <2>2. v = e + u - times.cache_size
    <3>1. \A a, b, c, r, d, k \in Int : a + b - c - r - d = (a + b) - r - d - k + k - c OBVIOUS
    <3>2. v = (times.current + times.buffer_size) - Len(ring) - Len(device) - u + u - times.cache_size
      BY <3>1, <1>3
    <3> QED BY <3>2, <2>1
  <2> HIDE DEF v, e
  <2>3. ASSUME sound = "whole" PROVE Told(v) - h - u \in -Longest .. Longest
    <3>1. h = e BY <1>2, <2>3
    <3>2. v = h + u - times.cache_size BY <3>1, <2>2
    <3>3. Told(v) - h - u \in - times.cache_size .. 0 BY <3>2, <1>2, <1>3 DEF Told
    <3> QED BY <3>3, <2>1, <1>2, <1>3
  <2>4. Between BY <1>8
  <2> QED BY <2>3, <2>4, <1>3, <1>5
<1> QED BY <1>1, <1>6, <1>7, <1>8 DEF AdecTypes

(* audio_get_current_pts: for every stream whose packets all have a time, as *)
(* long as no part of it was decoded twice, the time that is told is that of *)
(* the next sample to be heard and the samples the output holds back, which *)
(* are at most a unit; it is at most a packet off that while the decoder is *)
(* between two updates of its counters, and once samples were lost it may be *)
(* too late, never too early.                                               *)
THEOREM SoundOnTime == (\A u \in UntimedPackets : u = {}) => (AdecSpec => []SoundTimed)
<1> SUFFICES ASSUME \A u \in UntimedPackets : u = {} PROVE AdecSpec => []SoundTimed
  OBVIOUS
<1>1. audio_decoder_init => TimedUnlessRepeated BY TimedAtFirst DEF TimedUnlessRepeated
<1>2. TimedUnlessRepeated /\ [AdecNext]_adec_vars => TimedUnlessRepeated' BY TimedStep
<1>3. TimedUnlessRepeated => SoundTimed BY TimedSound
<1> QED BY <1>1, <1>2, <1>3, PTL DEF AdecSpec
=============================================================================
