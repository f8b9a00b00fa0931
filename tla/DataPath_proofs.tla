--------------------------- MODULE DataPath_proofs ---------------------------
(* Proofs about the two buffers between a source and the decoders, and about *)
(* the clock that what comes out of them is shown by: the packet queues of  *)
(* PacketFlow, for every file and every set of limits; the ring of          *)
(* StreamCache, for every size of the ring and of the source; and HostClock, *)
(* for all thresholds and every jump of the time stamps.                    *)
EXTENDS PacketFlow, StreamCache, HostClock, TLAPS

-----------------------------------------------------------------------------
(* The packet queues                                                        *)

(* The numbers of the packets in the two queues of a stream follow each     *)
(* other and the last one shown, and nothing else has been read.            *)
Numbered ==
  \A m \in Stream :
    /\ pos[m] = shown[m] + Len(decoded[m]) + Len(queue[m]) + (IF held = m THEN 1 ELSE 0)
    /\ \A k \in 1 .. Len(decoded[m]) : decoded[m][k] = shown[m] + k
    /\ \A k \in 1 .. Len(queue[m]) : queue[m][k] = shown[m] + Len(decoded[m]) + k

FlowInv == TypeOK /\ Numbered

(* Appending and removing, in terms of positions.                           *)
LEMMA AppendAt ==
  ASSUME NEW s \in Seq(Nat), NEW e \in Nat
  PROVE  /\ Append(s, e) \in Seq(Nat)
         /\ Len(Append(s, e)) = Len(s) + 1
         /\ \A k \in 1 .. Len(s) + 1 : Append(s, e)[k] = IF k = Len(s) + 1 THEN e ELSE s[k]
  OBVIOUS

LEMMA TailAt ==
  ASSUME NEW s \in Seq(Nat), s # <<>>
  PROVE  /\ Tail(s) \in Seq(Nat)
         /\ Head(s) \in Nat
         /\ Head(s) = s[1]
         /\ Len(s) \in Nat /\ Len(s) >= 1
         /\ Len(Tail(s)) = Len(s) - 1
         /\ \A k \in 1 .. Len(s) - 1 : Tail(s)[k] = s[k + 1]
  OBVIOUS

(* One packet further.                                                      *)
LEMMA OneFurther ==
  ASSUME NEW a \in Int, NEW b \in Int, NEW c \in Int, NEW h \in Int
  PROVE  /\ a + b + (c + 1) = a + (b + 1) + c
         /\ a + (b + 1) + (c - 1) + h = a + b + c + h
  OBVIOUS

LEMMA Streams == Stream \subseteq Media /\ NoPacket \notin Media /\ MaxSeeks \in Nat
  BY PacketFlowAssumption

LEMMA EmptyAt == <<>> \in Seq(Nat) /\ Len(<<>>) = 0
  OBVIOUS

LEMMA InitFlow == Init => FlowInv
<1> SUFFICES ASSUME Init PROVE FlowInv
  OBVIOUS
<1>1. pos \in [Media -> Nat] /\ shown \in [Stream -> Nat] /\ held \in Media \cup {NoPacket}
  BY DEF Init
<1>2. queue \in [Stream -> Seq(Nat)] /\ decoded \in [Stream -> Seq(Nat)]
  BY DEF Init
<1>3. pstatus \in {"RUNNING", "BUFFERING"} /\ seeks \in 0 .. MaxSeeks
  BY Streams DEF Init
<1>4. eof_flag \in BOOLEAN
  BY DEF Init
<1>5. ASSUME NEW m \in Stream
      PROVE  /\ pos[m] = 0 /\ shown[m] = 0 /\ held # m
             /\ decoded[m] = <<>> /\ queue[m] = <<>>
  BY Streams DEF Init
<1>6. Numbered
  BY <1>5, EmptyAt DEF Numbered
<1>7. QED
  BY <1>1, <1>2, <1>3, <1>4, <1>6 DEF FlowInv, TypeOK

(* player_io_thread reads the next packet of stream n.                      *)
LEMMA ReadFlow ==
  ASSUME FlowInv, NEW n \in Media, player_read_frame(n)
  PROVE  FlowInv'
<1>1. TypeOK'
  BY DEF FlowInv, TypeOK, player_read_frame
<1>2. ASSUME NEW m \in Stream
      PROVE  /\ pos'[m] = shown'[m] + Len(decoded'[m]) + Len(queue'[m])
                          + (IF held' = m THEN 1 ELSE 0)
             /\ \A k \in 1 .. Len(decoded'[m]) : decoded'[m][k] = shown'[m] + k
             /\ \A k \in 1 .. Len(queue'[m]) :
                   queue'[m][k] = shown'[m] + Len(decoded'[m]) + k
  <2>1. /\ held = NoPacket /\ held' = n /\ pos' = [pos EXCEPT ![n] = @ + 1]
        /\ queue' = queue /\ decoded' = decoded /\ shown' = shown
    BY DEF player_read_frame
  <2>2. /\ pos[m] = shown[m] + Len(decoded[m]) + Len(queue[m]) + 0
        /\ \A k \in 1 .. Len(decoded[m]) : decoded[m][k] = shown[m] + k
        /\ \A k \in 1 .. Len(queue[m]) : queue[m][k] = shown[m] + Len(decoded[m]) + k
    BY <2>1, Streams DEF FlowInv, Numbered
  <2>3. pos'[m] = pos[m] + (IF held' = m THEN 1 ELSE 0)
    BY <2>1, Streams DEF FlowInv, TypeOK
  <2>4. shown[m] \in Nat /\ Len(decoded[m]) \in Nat /\ Len(queue[m]) \in Nat
    BY DEF FlowInv, TypeOK
  <2>5. pos'[m] = shown'[m] + Len(decoded'[m]) + Len(queue'[m]) + (IF held' = m THEN 1 ELSE 0)
    BY <2>1, <2>2, <2>3, <2>4
  <2>6. QED
    BY <2>1, <2>2, <2>5
<1>3. QED
  BY <1>1, <1>2 DEF FlowInv, Numbered

(* It gives the packet it holds to its queue, or lets it go.                *)
LEMMA WriteFlow ==
  ASSUME FlowInv, write_frame
  PROVE  FlowInv'
<1>1. CASE held \in Stream
  <2>1. /\ pos[held] \in Nat
        /\ queue[held] \in Seq(Nat)
        /\ queue' = [queue EXCEPT ![held] = Append(@, pos[held])]
    BY <1>1, Streams DEF FlowInv, TypeOK, write_frame
  <2>2. TypeOK'
    BY <2>1, <1>1, AppendAt DEF FlowInv, TypeOK, write_frame
  <2>3. ASSUME NEW m \in Stream
        PROVE  /\ pos'[m] = shown'[m] + Len(decoded'[m]) + Len(queue'[m])
                            + (IF held' = m THEN 1 ELSE 0)
               /\ \A k \in 1 .. Len(decoded'[m]) : decoded'[m][k] = shown'[m] + k
               /\ \A k \in 1 .. Len(queue'[m]) :
                     queue'[m][k] = shown'[m] + Len(decoded'[m]) + k
    <3>1. pos' = pos /\ decoded' = decoded /\ shown' = shown /\ held' = NoPacket /\ m # NoPacket
      BY Streams DEF write_frame
    <3>2. CASE m # held
      BY <3>1, <3>2, <2>1 DEF FlowInv, TypeOK, Numbered
    <3>3. CASE m = held
      <4>1. queue'[m] = Append(queue[m], pos[m])
        BY <3>3, <2>1, <1>1 DEF FlowInv, TypeOK
      <4>2. /\ Len(queue'[m]) = Len(queue[m]) + 1
            /\ \A k \in 1 .. Len(queue[m]) + 1 :
                 queue'[m][k] = IF k = Len(queue[m]) + 1 THEN pos[m] ELSE queue[m][k]
        BY <4>1, <3>3, <2>1, AppendAt
      <4>3. /\ pos[m] = shown[m] + Len(decoded[m]) + Len(queue[m]) + 1
            /\ \A k \in 1 .. Len(decoded[m]) : decoded[m][k] = shown[m] + k
            /\ \A k \in 1 .. Len(queue[m]) : queue[m][k] = shown[m] + Len(decoded[m]) + k
        BY <3>3 DEF FlowInv, Numbered
      <4>4. Len(queue[m]) \in Nat /\ Len(decoded[m]) \in Nat /\ shown[m] \in Nat
        BY DEF FlowInv, TypeOK
      <4>5. Len(queue[m]) + 1 \in Nat
        BY <4>4
      <4>6. ASSUME NEW k \in 1 .. Len(queue'[m])
            PROVE  queue'[m][k] = shown'[m] + Len(decoded'[m]) + k
        <5>1. k \in 1 .. Len(queue[m]) + 1 /\ k \in Int
          BY <4>2, <4>5
        <5>2. CASE k = Len(queue[m]) + 1
          <6>1. queue'[m][k] = pos[m]
            BY <5>1, <5>2, <4>2
          <6>2. pos[m] = shown[m] + Len(decoded[m]) + k
            BY <5>1, <5>2, <4>3, <4>4
          <6>3. QED
            BY <6>1, <6>2, <3>1
        <5>3. CASE k # Len(queue[m]) + 1
          <6>1. k \in 1 .. Len(queue[m])
            BY <5>1, <5>3, <4>4
          <6>2. QED
            BY <6>1, <5>1, <5>3, <3>1, <4>2, <4>3
        <5>4. QED
          BY <5>2, <5>3
      <4>7. pos'[m] = shown'[m] + Len(decoded'[m]) + Len(queue'[m])
                      + (IF held' = m THEN 1 ELSE 0)
        <5>1. Len(queue'[m]) = Len(queue[m]) + 1 /\ held' # m
          BY <3>1, <4>2
        <5>2. pos[m] = shown[m] + Len(decoded[m]) + (Len(queue[m]) + 1) + 0
          BY <4>3, <4>4
        <5>3. QED
          BY <5>1, <5>2, <3>1
      <4>8. \A k \in 1 .. Len(decoded'[m]) : decoded'[m][k] = shown'[m] + k
        BY <3>1, <4>3
      <4>9. QED
        BY <4>6, <4>7, <4>8
    <3>4. QED
      BY <3>2, <3>3
  <2>4. QED
    BY <2>2, <2>3 DEF FlowInv, Numbered
<1>2. CASE held \notin Stream
  BY <1>2, Streams DEF FlowInv, TypeOK, Numbered, write_frame
<1>3. QED
  BY <1>1, <1>2

(* A decoder takes the first packet of its queue.                           *)
LEMMA DecodeFlow ==
  ASSUME FlowInv, NEW n \in Stream, port_read_frame(n)
  PROVE  FlowInv'
<1> DEFINE q == queue[n]
           d == decoded[n]
<1>1. q \in Seq(Nat) /\ q # <<>> /\ d \in Seq(Nat)
  BY DEF FlowInv, TypeOK, port_read_frame
<1>2. queue' = [queue EXCEPT ![n] = Tail(q)] /\ decoded' = [decoded EXCEPT ![n] = Append(d, Head(q))]
  BY DEF port_read_frame
<1>3. TypeOK'
  BY <1>1, <1>2, TailAt, AppendAt DEF FlowInv, TypeOK, port_read_frame
<1>4. ASSUME NEW m \in Stream
      PROVE  /\ pos'[m] = shown'[m] + Len(decoded'[m]) + Len(queue'[m])
                          + (IF held' = m THEN 1 ELSE 0)
             /\ \A k \in 1 .. Len(decoded'[m]) : decoded'[m][k] = shown'[m] + k
             /\ \A k \in 1 .. Len(queue'[m]) :
                   queue'[m][k] = shown'[m] + Len(decoded'[m]) + k
  <2>1. pos' = pos /\ held' = held /\ shown' = shown
    BY DEF port_read_frame
  <2>2. CASE m # n
    BY <2>1, <2>2, <1>2 DEF FlowInv, TypeOK, Numbered
  <2>3. CASE m = n
    <3>1. queue'[m] = Tail(q) /\ decoded'[m] = Append(d, Head(q))
      BY <2>3, <1>2 DEF FlowInv, TypeOK
    <3>2. /\ Len(q) \in Nat /\ Len(q) >= 1 /\ Head(q) = q[1] /\ Head(q) \in Nat
          /\ Len(queue'[m]) = Len(q) - 1
          /\ \A k \in 1 .. Len(q) - 1 : queue'[m][k] = q[k + 1]
      BY <3>1, <1>1, TailAt
    <3>3. /\ Len(decoded'[m]) = Len(d) + 1
          /\ \A k \in 1 .. Len(d) + 1 :
               decoded'[m][k] = IF k = Len(d) + 1 THEN q[1] ELSE d[k]
      BY <3>1, <3>2, <1>1, AppendAt
    <3>4. /\ pos[m] = shown[m] + Len(d) + Len(q) + (IF held = m THEN 1 ELSE 0)
          /\ \A k \in 1 .. Len(d) : d[k] = shown[m] + k
          /\ \A k \in 1 .. Len(q) : q[k] = shown[m] + Len(d) + k
      BY <2>3 DEF FlowInv, Numbered
    <3>5. Len(d) \in Nat /\ shown[m] \in Nat /\ pos[m] \in Nat
      BY <2>3, <1>1, Streams DEF FlowInv, TypeOK
    <3> HIDE DEF q, d
    <3>6. q[1] = shown[m] + Len(d) + 1
      BY <3>2, <3>4
    <3>7. ASSUME NEW k \in 1 .. Len(decoded'[m])
          PROVE  decoded'[m][k] = shown'[m] + k
      <4>1. k \in 1 .. Len(d) + 1 /\ k \in Int /\ Len(d) \in Int
        BY <3>3, <3>5
      <4>2. CASE k = Len(d) + 1
        <5>1. decoded'[m][k] = q[1]
          BY <4>1, <4>2, <3>3
        <5>2. QED
          BY <5>1, <4>1, <4>2, <2>1, <3>5, <3>6
      <4>3. CASE k # Len(d) + 1
        <5>1. k \in 1 .. Len(d)
          BY <4>1, <4>3
        <5>2. QED
          BY <5>1, <4>1, <4>3, <2>1, <3>3, <3>4
      <4>4. QED
        BY <4>2, <4>3
    <3>8. ASSUME NEW k \in 1 .. Len(queue'[m])
          PROVE  queue'[m][k] = shown'[m] + Len(decoded'[m]) + k
      <4>1. k \in 1 .. Len(q) - 1 /\ k + 1 \in 1 .. Len(q)
        BY <3>2
      <4>2. queue'[m][k] = shown[m] + Len(d) + (k + 1)
        BY <4>1, <3>2, <3>4
      <4>3. Len(decoded'[m]) = Len(d) + 1
        BY <3>3
      <4>4. shown[m] \in Int /\ Len(d) \in Int /\ k \in Int
        BY <3>2, <3>5
      <4>5. shown[m] + Len(d) + (k + 1) = shown[m] + (Len(d) + 1) + k
        BY <4>4, OneFurther
      <4>6. QED
        BY <4>2, <4>3, <4>5, <2>1
    <3>9. pos'[m] = shown'[m] + Len(decoded'[m]) + Len(queue'[m])
                    + (IF held' = m THEN 1 ELSE 0)
      <4>1. Len(decoded'[m]) = Len(d) + 1 /\ Len(queue'[m]) = Len(q) - 1
        BY <3>2, <3>3
      <4>2. pos[m] = shown[m] + Len(d) + Len(q) + (IF held = m THEN 1 ELSE 0)
        BY <3>4
      <4>3. Len(d) \in Int /\ Len(q) \in Int /\ shown[m] \in Int /\ pos[m] \in Int
        BY <3>2, <3>5
      <4>4. (IF held = m THEN 1 ELSE 0) \in Int
        OBVIOUS
      <4>5. shown[m] + (Len(d) + 1) + (Len(q) - 1) + (IF held = m THEN 1 ELSE 0)
              = shown[m] + Len(d) + Len(q) + (IF held = m THEN 1 ELSE 0)
        BY <4>3, <4>4, OneFurther
      <4>6. pos[m] = shown[m] + (Len(d) + 1) + (Len(q) - 1) + (IF held = m THEN 1 ELSE 0)
        BY <4>2, <4>5
      <4>7. QED
        BY <4>1, <4>6, <2>1
    <3>10. QED
      BY <3>7, <3>8, <3>9
  <2>4. QED
    BY <2>2, <2>3
<1>5. QED
  BY <1>3, <1>4 DEF FlowInv, Numbered

(* The output shows the first decoded packet.                               *)
LEMMA RenderFlow ==
  ASSUME FlowInv, NEW n \in Stream, render(n)
  PROVE  FlowInv'
<1> DEFINE d == decoded[n]
<1>1. d \in Seq(Nat) /\ d # <<>>
  BY DEF FlowInv, TypeOK, render
<1>2. decoded' = [decoded EXCEPT ![n] = Tail(d)] /\ shown' = [shown EXCEPT ![n] = Head(d)]
  BY DEF render
<1>3. TypeOK'
  BY <1>1, <1>2, TailAt DEF FlowInv, TypeOK, render
<1>4. ASSUME NEW m \in Stream
      PROVE  /\ pos'[m] = shown'[m] + Len(decoded'[m]) + Len(queue'[m])
                          + (IF held' = m THEN 1 ELSE 0)
             /\ \A k \in 1 .. Len(decoded'[m]) : decoded'[m][k] = shown'[m] + k
             /\ \A k \in 1 .. Len(queue'[m]) :
                   queue'[m][k] = shown'[m] + Len(decoded'[m]) + k
  <2>1. pos' = pos /\ held' = held /\ queue' = queue
    BY DEF render
  <2>2. CASE m # n
    BY <2>1, <2>2, <1>2 DEF FlowInv, TypeOK, Numbered
  <2>3. CASE m = n
    <3>1. decoded'[m] = Tail(d) /\ shown'[m] = Head(d)
      BY <2>3, <1>2 DEF FlowInv, TypeOK
    <3>2. /\ Len(d) \in Nat /\ Len(d) >= 1 /\ Head(d) = d[1]
          /\ Len(decoded'[m]) = Len(d) - 1
          /\ \A k \in 1 .. Len(d) - 1 : decoded'[m][k] = d[k + 1]
      BY <3>1, <1>1, TailAt
    <3>3. /\ pos[m] = shown[m] + Len(d) + Len(queue[m]) + (IF held = m THEN 1 ELSE 0)
          /\ \A k \in 1 .. Len(d) : d[k] = shown[m] + k
          /\ \A k \in 1 .. Len(queue[m]) : queue[m][k] = shown[m] + Len(d) + k
      BY <2>3 DEF FlowInv, Numbered
    <3>4. Len(queue[m]) \in Nat /\ shown[m] \in Nat /\ pos[m] \in Nat
      BY Streams DEF FlowInv, TypeOK
    <3> HIDE DEF d
    <3>5. shown'[m] = shown[m] + 1
      BY <3>1, <3>2, <3>3
    <3>6. ASSUME NEW k \in 1 .. Len(decoded'[m])
          PROVE  decoded'[m][k] = shown'[m] + k
      <4>1. k \in 1 .. Len(d) - 1 /\ k + 1 \in 1 .. Len(d)
        BY <3>2
      <4>2. decoded'[m][k] = shown[m] + (k + 1)
        BY <4>1, <3>2, <3>3
      <4>3. k \in Int /\ shown[m] \in Int
        BY <3>4
      <4>4. QED
        BY <4>2, <4>3, <3>5
    <3>7. \A k \in 1 .. Len(queue'[m]) : queue'[m][k] = shown'[m] + Len(decoded'[m]) + k
      BY <2>1, <3>2, <3>3, <3>4, <3>5
    <3>8. pos'[m] = shown'[m] + Len(decoded'[m]) + Len(queue'[m])
                    + (IF held' = m THEN 1 ELSE 0)
      BY <2>1, <3>2, <3>3, <3>4, <3>5
    <3>9. QED
      BY <3>6, <3>7, <3>8
  <2>4. QED
    BY <2>2, <2>3
<1>5. QED
  BY <1>3, <1>4 DEF FlowInv, Numbered

(* EOF, the buffering check and a seek to the start.                        *)
LEMMA OtherFlow ==
  ASSUME FlowInv, read_eof \/ player_buffering_check \/ seek \/ UNCHANGED vars
  PROVE  FlowInv'
<1>1. CASE read_eof
  BY <1>1 DEF FlowInv, TypeOK, Numbered, read_eof
<1>2. CASE player_buffering_check
  BY <1>2 DEF FlowInv, TypeOK, Numbered, player_buffering_check
<1>3. CASE seek
  <2>1. /\ pos' = [m \in Media |-> 0]
        /\ held' = NoPacket
        /\ queue' = [m \in Stream |-> <<>>]
        /\ decoded' = [m \in Stream |-> <<>>]
        /\ shown' = [m \in Stream |-> 0]
    BY <1>3 DEF seek
  <2>2. TypeOK'
    BY <1>3, <2>1, Streams DEF FlowInv, TypeOK, seek
  <2>3. Numbered'
    BY <2>1, Streams DEF Numbered
  <2>4. QED
    BY <2>2, <2>3 DEF FlowInv
<1>4. CASE UNCHANGED vars
  BY <1>4 DEF FlowInv, TypeOK, Numbered, vars
<1>5. QED
  BY <1>1, <1>2, <1>3, <1>4

LEMMA FlowAlways == Spec => []FlowInv
<1>1. FlowInv /\ [Next]_vars => FlowInv'
  BY ReadFlow, WriteFlow, DecodeFlow, RenderFlow, OtherFlow DEF Next, io_thread
<1>2. QED
  BY InitFlow, <1>1, PTL DEF Spec

(* Types, for every file, every set of limits and any number of seeks.      *)
THEOREM FlowTypes == Spec => []TypeOK
<1>1. FlowInv => TypeOK
  BY DEF FlowInv
<1>2. QED
  BY FlowAlways, <1>1, PTL

(* What a concatenation holds.                                              *)
LEMMA ConcatAt ==
  ASSUME NEW s \in Seq(Nat), NEW t \in Seq(Nat)
  PROVE  /\ s \o t \in Seq(Nat)
         /\ Len(s \o t) = Len(s) + Len(t)
         /\ \A k \in 1 .. Len(s) + Len(t) :
              (s \o t)[k] = IF k <= Len(s) THEN s[k] ELSE t[k - Len(s)]
OBVIOUS

(* A sequence that counts on from a is the function that does.              *)
LEMMA CountsOn ==
  ASSUME NEW s \in Seq(Nat), NEW a \in Nat, NEW n \in Nat,
         Len(s) = n, \A k \in 1 .. n : s[k] = a + k
  PROVE  s = [k \in 1 .. n |-> a + k]
<1>1. DOMAIN s = 1 .. n
  OBVIOUS
<1>2. s = [k \in DOMAIN s |-> s[k]]
  OBVIOUS
<1>3. QED
  BY <1>1, <1>2

(* The queues as numbered above make the sequence InOrder asks for.         *)
LEMMA NumberedInOrder == FlowInv => InOrder
<1> SUFFICES ASSUME FlowInv, NEW m \in Stream
             PROVE  UnderWay(m) = [k \in 1 .. pos[m] - shown[m] |-> shown[m] + k]
  BY DEF InOrder
<1> DEFINE d == decoded[m]
           q == queue[m]
           h == IF held = m THEN <<pos[m]>> ELSE <<>>
           a == shown[m]
           p == pos[m]
<1>1. d \in Seq(Nat) /\ q \in Seq(Nat) /\ h \in Seq(Nat) /\ a \in Nat /\ p \in Nat
  BY Streams DEF FlowInv, TypeOK
<1>2. /\ p = a + Len(d) + Len(q) + Len(h)
      /\ \A k \in 1 .. Len(h) : h[k] = p
      /\ Len(h) \in {0, 1}
  BY DEF FlowInv, Numbered
<1>3. /\ \A k \in 1 .. Len(d) : d[k] = a + k
      /\ \A k \in 1 .. Len(q) : q[k] = a + Len(d) + k
  BY DEF FlowInv, Numbered
<1>4. UnderWay(m) = (d \o q) \o h
  BY DEF UnderWay
<1> HIDE DEF d, q, h, a, p
<1> DEFINE dq == d \o q
<1>5. /\ dq \in Seq(Nat)
      /\ Len(dq) = Len(d) + Len(q)
      /\ \A k \in 1 .. Len(d) + Len(q) : dq[k] = IF k <= Len(d) THEN d[k] ELSE q[k - Len(d)]
  BY <1>1
<1>6. Len(d) \in Nat /\ Len(q) \in Nat /\ Len(h) \in Nat
  BY <1>1
<1>7. ASSUME NEW k \in 1 .. Len(d) + Len(q)
      PROVE  dq[k] = a + k
  <2>1. CASE k <= Len(d)
    <3>1. k \in 1 .. Len(d)
      BY <2>1, <1>6
    <3>2. QED
      BY <3>1, <2>1, <1>3, <1>5
  <2>2. CASE ~(k <= Len(d))
    <3>1. k - Len(d) \in 1 .. Len(q)
      BY <2>2, <1>6
    <3>2. dq[k] = a + Len(d) + (k - Len(d))
      BY <3>1, <2>2, <1>3, <1>5
    <3>3. QED
      BY <3>2, <1>1, <1>6
  <2>3. QED
    BY <2>1, <2>2
<1> HIDE DEF dq
<1>8. /\ Len(dq \o h) = Len(d) + Len(q) + Len(h)
      /\ dq \o h \in Seq(Nat)
      /\ \A k \in 1 .. Len(dq) + Len(h) :
           (dq \o h)[k] = IF k <= Len(dq) THEN dq[k] ELSE h[k - Len(dq)]
  <2>1. dq \in Seq(Nat) /\ h \in Seq(Nat)
    BY <1>1, <1>5
  <2>2. QED
    BY <2>1, <1>5, ConcatAt
<1>9. ASSUME NEW k \in 1 .. Len(d) + Len(q) + Len(h)
      PROVE  (dq \o h)[k] = a + k
  <2>1. CASE k <= Len(d) + Len(q)
    <3>1. k \in 1 .. Len(d) + Len(q)
      BY <2>1, <1>6
    <3>2. QED
      BY <3>1, <2>1, <1>5, <1>7, <1>8
  <2>2. CASE ~(k <= Len(d) + Len(q))
    <3>1. k = Len(d) + Len(q) + 1 /\ Len(h) = 1
      BY <2>2, <1>2, <1>6
    <3>2. (dq \o h)[k] = h[k - Len(dq)] /\ k - Len(dq) = 1
      BY <3>1, <2>2, <1>5, <1>6, <1>8
    <3>3. h[1] = p
      BY <3>1, <1>2
    <3>4. p = a + k
      BY <3>1, <1>1, <1>2, <1>6
    <3>5. QED
      BY <3>2, <3>3, <3>4
  <2>3. QED
    BY <2>1, <2>2
<1>10. p - a = Len(d) + Len(q) + Len(h)
  BY <1>1, <1>2, <1>6
<1>11. dq \o h = [k \in 1 .. p - a |-> a + k]
  <2>1. p - a \in Nat /\ Len(dq \o h) = p - a
    BY <1>8, <1>10, <1>6
  <2>2. \A k \in 1 .. p - a : (dq \o h)[k] = a + k
    BY <1>9, <1>10
  <2> HIDE DEF p
  <2>3. QED
    BY <2>1, <2>2, <1>1, <1>8, CountsOn
<1>12. QED
  BY <1>4, <1>11 DEF dq, a, p

(* No packet is lost, repeated or overtaken, for every file, every set of   *)
(* limits and any number of seeks.                                          *)
THEOREM FlowInOrder == Spec => []InOrder
  BY FlowAlways, NumberedInOrder, PTL

(* A limit is compared before a packet is added, and removing one helps.    *)
LEMMA OneMoreBytes ==
  ASSUME NEW n \in Nat, NEW b \in Nat, NEW limit \in Nat
  PROVE  /\ n * b < limit => (n + 1) * b < limit + b
         /\ n >= 1 => (n - 1) * b <= n * b
<1>1. (n + 1) * b = n * b + b /\ (n - 1) * b = n * b - b
  OBVIOUS
<1>2. n * b \in Nat
  OBVIOUS
<1>3. QED
  BY <1>1, <1>2

LEMMA Limits ==
  \A m \in Stream \cap AV :
    Size[m] \in Nat /\ Size[m] >= 1 /\ MaxSize[m] \in Nat /\ MaxSize[m] >= 1
  BY PacketFlowAssumption

LEMMA BoundedStep ==
  ASSUME FlowInv, QueueBounded, [Next]_vars
  PROVE  QueueBounded'
<1> SUFFICES ASSUME NEW m \in Stream \cap AV
             PROVE  Len(queue'[m]) * Size[m] < MaxSize[m] + Size[m]
  BY DEF QueueBounded, Bytes
<1>1. Size[m] \in Nat /\ Size[m] >= 1 /\ MaxSize[m] \in Nat /\ MaxSize[m] >= 1
  BY Limits
<1>2. queue[m] \in Seq(Nat) /\ Len(queue[m]) \in Nat
  BY DEF FlowInv, TypeOK
<1>3. Len(queue[m]) * Size[m] < MaxSize[m] + Size[m]
  BY DEF QueueBounded, Bytes
<1>4. CASE queue'[m] = queue[m]
  BY <1>3, <1>4
<1>5. CASE write_frame /\ held = m
  <2>1. /\ queue' = [queue EXCEPT ![m] = Append(@, pos[m])]
        /\ Len(queue[m]) * Size[m] < MaxSize[m]
    BY <1>5 DEF write_frame, Accepts, Bytes
  <2>2. pos[m] \in Nat
    BY Streams DEF FlowInv, TypeOK
  <2>3. Len(queue'[m]) = Len(queue[m]) + 1
    BY <2>1, <2>2, <1>2, AppendAt DEF FlowInv, TypeOK
  <2>4. QED
    BY <2>1, <2>3, <1>1, <1>2, OneMoreBytes
<1>6. CASE port_read_frame(m)
  <2>1. queue[m] # <<>> /\ queue'[m] = Tail(queue[m])
    BY <1>6 DEF port_read_frame, FlowInv, TypeOK
  <2>2. Len(queue'[m]) = Len(queue[m]) - 1 /\ Len(queue[m]) >= 1
    BY <2>1, <1>2, TailAt
  <2>3. (Len(queue[m]) - 1) * Size[m] <= Len(queue[m]) * Size[m]
    BY <2>2, <1>1, <1>2, OneMoreBytes
  <2>4. (Len(queue[m]) - 1) * Size[m] \in Int /\ Len(queue[m]) * Size[m] \in Int
    BY <1>1, <1>2
  <2>5. QED
    BY <2>2, <2>3, <2>4, <1>1, <1>3
<1>7. CASE seek
  <2>1. Len(queue'[m]) = 0
    BY <1>7, EmptyAt DEF seek
  <2>2. QED
    BY <2>1, <1>1
<1>8. queue'[m] = queue[m] \/ (write_frame /\ held = m) \/ port_read_frame(m) \/ seek
  <2>1. ASSUME NEW n \in Stream, port_read_frame(n), n # m
        PROVE  queue'[m] = queue[m]
    BY <2>1 DEF port_read_frame, FlowInv, TypeOK
  <2>2. ASSUME write_frame, held # m
        PROVE  queue'[m] = queue[m]
    BY <2>2 DEF write_frame, FlowInv, TypeOK
  <2>3. ASSUME NEW n \in Media, player_read_frame(n)
        PROVE  queue'[m] = queue[m]
    BY <2>3 DEF player_read_frame
  <2>4. ASSUME NEW n \in Stream, render(n)
        PROVE  queue'[m] = queue[m]
    BY <2>4 DEF render
  <2>5. read_eof \/ player_buffering_check \/ UNCHANGED vars => queue'[m] = queue[m]
    BY DEF read_eof, player_buffering_check, vars
  <2>6. QED
    BY <2>1, <2>2, <2>3, <2>4, <2>5 DEF Next, io_thread
<1>9. QED
  BY <1>4, <1>5, <1>6, <1>7, <1>8

LEMMA InitBounded == Init => QueueBounded
<1> SUFFICES ASSUME Init, NEW m \in Stream \cap AV
             PROVE  Len(queue[m]) * Size[m] < MaxSize[m] + Size[m]
  BY DEF QueueBounded, Bytes
<1>1. Len(queue[m]) = 0
  BY EmptyAt DEF Init
<1>2. QED
  BY <1>1, Limits

(* No queue outgrows its limit by a packet, for every limit and file.       *)
THEOREM FlowBounded == Spec => []QueueBounded
<1>1. FlowInv /\ QueueBounded /\ [Next]_vars => QueueBounded'
  BY BoundedStep
<1>2. QED
  BY FlowAlways, InitBounded, <1>1, PTL DEF Spec

-----------------------------------------------------------------------------
(* Remainders                                                               *)

(* Division by a positive number.                                           *)
LEMMA Quotient ==
  ASSUME NEW c \in Int, c > 0, NEW a \in Int
  PROVE  \E q \in Int : \E r \in 0 .. c - 1 : r = a % c /\ a = c * q + r
  <1>1. a \div c \in Int
    OBVIOUS
  <1>2. a % c \in 0 .. c - 1
    OBVIOUS
  <1>3. a = c * (a \div c) + (a % c)
    OBVIOUS
  <1> QED BY <1>1, <1>2, <1>3

(* A multiple of c between -c and c is 0.                                   *)
LEMMA Multiple ==
  ASSUME NEW c \in Int, c > 0, NEW k \in Int, -c < c * k, c * k < c
  PROVE  k = 0
  <1>1. ASSUME k >= 1 PROVE FALSE
    <2>1. c * k = c * (k - 1) + c
      OBVIOUS
    <2>2. c * (k - 1) >= 0
      BY <1>1
    <2> QED BY <2>1, <2>2
  <1>2. ASSUME k <= -1 PROVE FALSE
    <2>1. c * k = c * (k + 1) - c
      OBVIOUS
    <2>2. c * (k + 1) <= 0
      <3>1. c * (-(k + 1)) >= 0
        BY <1>2
      <3>2. c * (-(k + 1)) = -(c * (k + 1))
        OBVIOUS
      <3> QED BY <3>1, <3>2
    <2> QED BY <2>1, <2>2
  <1> QED BY <1>1, <1>2

(* Numbers have one remainder just when they differ by a multiple of c.     *)
LEMMA SamePlace ==
  ASSUME NEW c \in Int, c > 0, NEW a \in Int, NEW b \in Int, NEW m \in Int, a = b + c * m
  PROVE  a % c = b % c
  <1>0. c \in Int /\ c > 0
    OBVIOUS
  <1>1. PICK qa \in Int, ra \in 0 .. c - 1 : ra = a % c /\ a = c * qa + ra
    BY <1>0, Quotient
  <1>2. PICK qb \in Int, rb \in 0 .. c - 1 : rb = b % c /\ b = c * qb + rb
    BY <1>0, Quotient
  <1>3. PICK k \in Int : k = qa - qb - m
    OBVIOUS
  <1>4. c * k = c * qa - c * qb - c * m
    BY <1>3
  <1>5. c * qa \in Int /\ c * qb \in Int /\ c * m \in Int /\ c * k \in Int
    OBVIOUS
  <1>6. c * k = rb - ra
    BY <1>1, <1>2, <1>4, <1>5
  <1>7. k = 0
    <2>1. -c < c * k /\ c * k < c
      BY <1>6
    <2> QED BY <2>1, Multiple
  <1>8. c * k = 0
    BY <1>7
  <1> QED BY <1>1, <1>2, <1>6, <1>8

LEMMA Multiples ==
  ASSUME NEW c \in Int, c > 0, NEW a \in Int, NEW b \in Int, a % c = b % c
  PROVE  \E m \in Int : a = b + c * m
  <1>1. PICK qa \in Int, ra \in 0 .. c - 1 : ra = a % c /\ a = c * qa + ra
    BY Quotient
  <1>2. PICK qb \in Int, rb \in 0 .. c - 1 : rb = b % c /\ b = c * qb + rb
    BY Quotient
  <1>3. PICK m \in Int : m = qa - qb
    OBVIOUS
  <1>4. c * m = c * qa - c * qb /\ c * qa \in Int /\ c * qb \in Int /\ c * m \in Int
    BY <1>3
  <1> QED BY <1>1, <1>2, <1>4

(* How far a multiple of c is from 0.                                       *)
LEMMA Sign ==
  ASSUME NEW c \in Int, c > 0, NEW m \in Int
  PROVE  /\ c * m \in Int
         /\ m >= 1 => c * m >= c
         /\ m <= -1 => c * m <= -c
         /\ m = 0 => c * m = 0
  <1>1. ASSUME m >= 1 PROVE c * m >= c
    <2>1. c * m = c * (m - 1) + c
      OBVIOUS
    <2>2. c * (m - 1) >= 0
      BY <1>1
    <2> QED BY <2>1, <2>2
  <1>2. ASSUME m <= -1 PROVE c * m <= -c
    <2>1. PICK k \in Int : k = -m
      OBVIOUS
    <2>2. k - 1 >= 0 /\ m = -k
      BY <1>2, <2>1
    <2>3. c * (k - 1) >= 0
      BY <2>2
    <2>4. c * (k - 1) = c * k - c /\ c * k \in Int
      OBVIOUS
    <2>5. c * m = -(c * k)
      BY <2>2
    <2> QED BY <2>3, <2>4, <2>5
  <1> QED BY <1>1, <1>2

-----------------------------------------------------------------------------
(* The places of the ring                                                   *)

(* The place in the ring of a pointer or of a distance.                     *)
Place(a) == a % CacheSize
Same(a, b) == Place(a) = Place(b)

LEMMA CacheSizes ==
  /\ CacheSize \in Int /\ CacheSize > 0
  /\ Length \in Int /\ Length >= 0 /\ FixPre \in Int /\ FixPre >= 0
  /\ IntMax \in Int /\ IntMax > 0
  /\ ReadPerTime \in Int /\ ReadPerTime > 0 /\ ReadPerTime + FixPre <= CacheSize
  BY StreamCacheAssumption

LEMMA PlaceOf ==
  ASSUME NEW a \in Int
  PROVE  /\ Place(a) \in 0 .. CacheSize - 1
         /\ 0 <= a /\ a < CacheSize => Place(a) = a
         /\ -CacheSize <= a /\ a < 0 => Place(a) = a + CacheSize
  <1>1. CacheSize \in Int /\ CacheSize > 0
    BY CacheSizes
  <1>2. a % CacheSize \in 0 .. CacheSize - 1
    BY <1>1
  <1>3. 0 <= a /\ a < CacheSize => a % CacheSize = a
    BY <1>1
  <1>4. -CacheSize <= a /\ a < 0 => a % CacheSize = a + CacheSize
    BY <1>1
  <1> QED BY <1>2, <1>3, <1>4 DEF Place

(* Two numbers with one place differ by a multiple of the size.             *)
LEMMA PlaceEqual ==
  ASSUME NEW a \in Int, NEW b \in Int
  PROVE  Place(a) = Place(b) <=> \E m \in Int : a = b + CacheSize * m
  <1>1. CacheSize \in Int /\ CacheSize > 0
    BY CacheSizes
  <1>2. ASSUME NEW m \in Int, a = b + CacheSize * m PROVE a % CacheSize = b % CacheSize
    BY <1>1, <1>2, SamePlace
  <1>3. ASSUME a % CacheSize = b % CacheSize PROVE \E m \in Int : a = b + CacheSize * m
    BY <1>1, <1>3, Multiples
  <1> QED BY <1>2, <1>3 DEF Place

LEMMA SameSum ==
  ASSUME NEW a \in Int, NEW b \in Int, Same(a, b),
         NEW x \in Int, NEW y \in Int, x - a = y - b
  PROVE  Same(x, y)
  <1>1. CacheSize \in Int
    BY CacheSizes
  <1>2. PICK m \in Int : a = b + CacheSize * m
    BY PlaceEqual DEF Same
  <1>3. CacheSize * m \in Int
    BY <1>1
  <1>4. x = y + CacheSize * m
    BY <1>2, <1>3
  <1>5. Place(x) = Place(y)
    BY <1>4, PlaceEqual
  <1> QED BY <1>5 DEF Same

(* Once round the ring.                                                     *)
LEMMA SameRound ==
  ASSUME NEW a \in Int, NEW b \in Int, b = a - CacheSize \/ b = a + CacheSize
  PROVE  Same(b, a)
  <1>1. CacheSize \in Int
    BY CacheSizes
  <1>2. CASE b = a - CacheSize
    <2>1. PICK m \in Int : m = -1
      OBVIOUS
    <2>2. b = a + CacheSize * m
      BY <1>1, <1>2, <2>1
    <2> QED BY <2>2, PlaceEqual DEF Same
  <1>3. CASE b = a + CacheSize
    <2>1. PICK m \in Int : m = 1
      OBVIOUS
    <2>2. b = a + CacheSize * m
      BY <1>1, <1>3, <2>1
    <2> QED BY <2>2, PlaceEqual DEF Same
  <1> QED BY <1>2, <1>3

(* Different numbers with one place are once round the ring apart.          *)
LEMMA SameApart ==
  ASSUME NEW a \in Int, NEW b \in Int, Same(a, b), a > b
  PROVE  a >= b + CacheSize
  <1>1. CacheSize \in Int /\ CacheSize > 0
    BY CacheSizes
  <1>2. PICK m \in Int : a = b + CacheSize * m
    BY PlaceEqual DEF Same
  <1>3. /\ CacheSize * m \in Int
        /\ m >= 1 => CacheSize * m >= CacheSize
        /\ m <= -1 => CacheSize * m <= -CacheSize
        /\ m = 0 => CacheSize * m = 0
    BY <1>1, Sign
  <1> QED BY <1>1, <1>2, <1>3

LEMMA SamePlaces ==
  ASSUME NEW a \in Int
  PROVE  Same(Place(a), a) /\ Same(a, a)
  <1>1. Place(a) \in 0 .. CacheSize - 1
    BY PlaceOf
  <1>2. PICK b \in Int : b = Place(a) /\ 0 <= b /\ b < CacheSize
    BY <1>1, CacheSizes
  <1>3. Place(b) = b
    BY <1>2, PlaceOf
  <1> QED BY <1>2, <1>3 DEF Same

LEMMA SameSwaps ==
  ASSUME NEW a, NEW b, NEW c
  PROVE  /\ Same(a, b) => Same(b, a) /\ Place(a) = Place(b)
         /\ Same(a, b) /\ Same(b, c) => Same(a, c)
  BY DEF Same

-----------------------------------------------------------------------------
(* The bytes of the cached stream                                           *)

(* The position up to which the ring is filled.                             *)
Filled == cur_pos + level

CacheTypes ==
  /\ data \in [0 .. CacheSize - 1 -> Int]
  /\ level \in Int /\ pre_size \in Int /\ pre_rp \in Int /\ rp \in Int /\ wp \in Int
  /\ tmp_buf \in Seq(Int)
  /\ real_pos \in 0 .. Length
  /\ cur_pos \in 0 .. Length /\ base \in 0 .. Length /\ far \in 0 .. Length
  /\ goal.pos \in 0 .. Length

(* How the two threads hand the ring to each other for a seek: what has     *)
(* been read is thrown away before the thread idles, and it idles until the *)
(* demuxer has moved the source and emptied the ring.                       *)
Handover ==
  /\ cache_flag = "PAUSE" \/ fpc = "mark" => rpc \in {"pause", "unflag"}
  /\ cache_status = "IDLE" => fpc \in {"top", "mark", "check"} /\ tmp_buf = <<>>
  /\ cache_status = "PAUSED" => fpc \in {"check", "clean"} /\ rpc \in {"pause", "unflag"}
  /\ fpc = "clean" => cache_status = "PAUSED"
  /\ fpc = "read" => tmp_buf = <<>>
  /\ fpc = "write" => cache_space >= Len(tmp_buf)
  /\ rpc = "unflag" => cache_status \in {"IDLE", "PAUSED"}
  /\ rpc = "resume" =>
       /\ cache_status = "IDLE" /\ fpc \in {"top", "check"}
       /\ real_pos = goal.pos
       /\ level = 0 /\ pre_size = 0 /\ rp = 0 /\ wp = 0 /\ pre_rp = 0

(* A byte's place in the ring is its distance from where the source was     *)
(* moved to, and the pointers stand on the places of the two positions.     *)
Pointers ==
  /\ rp \in 0 .. CacheSize /\ wp \in 0 .. CacheSize /\ level \in 0 .. CacheSize
  /\ base <= cur_pos /\ cur_pos <= far
  /\ Same(rp, cur_pos - base)
  /\ Same(wp, Filled - base)

(* pre_rp and pre_size can be relied on until the ring is full for the      *)
(* first time; after that pre_rp is never 0 again.                          *)
Preserved ==
  /\ Filled - far <= CacheSize - FixPre
  /\ Filled - base <= CacheSize =>
       pre_rp = 0 /\ rp = cur_pos - base /\ pre_size = rp /\ wp = Filled - base
  /\ Filled - base > CacheSize => pre_rp >= 1

Continues ==
  /\ real_pos = Filled + Len(tmp_buf)
  /\ \A k \in 1 .. Len(tmp_buf) : tmp_buf[k] = Filled + k - 1

HoldsBytes ==
  \A p \in Int : base <= p /\ p < Filled /\ p >= Filled - CacheSize =>
    data[Place(p - base)] = p

RingInv == Pointers /\ Preserved /\ Continues /\ HoldsBytes

CacheInv == CacheTypes /\ Handover /\ (rpc = "idle" => RingInv)

(* As long as no seek went elsewhere.                                       *)
NotAstray == strays = {}

LEMMA LeastOf ==
  ASSUME NEW a \in Int, NEW b \in Int
  PROVE  /\ Least(a, b) \in Int /\ Least(a, b) <= a /\ Least(a, b) <= b
         /\ Least(a, b) = a \/ Least(a, b) = b
         /\ Greatest(a, b) \in Int /\ Greatest(a, b) >= a /\ Greatest(a, b) >= b
         /\ Greatest(a, b) = a \/ Greatest(a, b) = b
  BY DEF Least, Greatest

(* The pointers as numbers.                                                 *)
LEMMA RingTypes ==
  ASSUME CacheTypes, Pointers
  PROVE  /\ CacheSize \in Int /\ CacheSize > 0
         /\ rp \in 0 .. CacheSize /\ wp \in 0 .. CacheSize /\ level \in 0 .. CacheSize
         /\ pre_rp \in Int /\ pre_size \in Int
         /\ cur_pos \in 0 .. Length /\ base \in 0 .. Length /\ far \in 0 .. Length
         /\ real_pos \in 0 .. Length /\ Length \in Int
         /\ base <= cur_pos /\ cur_pos <= far
         /\ Filled \in Int /\ Filled = cur_pos + level
  BY CacheSizes DEF CacheTypes, Pointers, Filled

(* Which of the pointers is ahead says how level follows from them.         *)
LEMMA Between ==
  ASSUME CacheTypes, Pointers
  PROVE  /\ wp > rp /\ level > 0 => level = wp - rp
         /\ wp < rp => level >= wp - rp + CacheSize
  <1>1. /\ CacheSize \in Int /\ CacheSize > 0
        /\ rp \in 0 .. CacheSize /\ wp \in 0 .. CacheSize /\ level \in 0 .. CacheSize
        /\ cur_pos \in Int /\ base \in Int /\ Filled = cur_pos + level
    BY RingTypes
  <1>2. PICK a \in Int : a = cur_pos - base
    BY <1>1
  <1>3. PICK s \in Int : s = rp + level
    BY <1>1
  <1>4. PICK w \in Int : w = wp
    BY <1>1
  <1>5. Same(s, w) /\ Same(w, s)
    <2>1. PICK r \in Int, f \in Int : r = rp /\ f = Filled - base
      BY <1>1
    <2>2. Same(r, a) /\ Same(w, f)
      BY <1>2, <1>4, <2>1 DEF Pointers
    <2>3. s - r = f - a
      BY <1>1, <1>2, <1>3, <2>1
    <2>4. Same(s, f)
      BY <2>2, <2>3, SameSum
    <2> QED BY <2>2, <2>4, SameSwaps
  <1>6. /\ s > w => s >= w + CacheSize
        /\ w > s => w >= s + CacheSize
    BY <1>5, SameApart
  <1> QED BY <1>1, <1>3, <1>4, <1>6

LEMMA CacheHolds ==
  ASSUME CacheInv
  PROVE  RingIsFile
  <1> SUFFICES ASSUME rpc = "idle" PROVE RingIsFile
    BY DEF RingIsFile, HoldsAhead, PreservedIsFile
  <1>1. CacheTypes /\ Pointers /\ Preserved /\ Continues /\ HoldsBytes
    BY DEF CacheInv, RingInv
  <1>2. /\ CacheSize \in Int /\ FixPre \in Int /\ FixPre >= 0
        /\ rp \in Int /\ level \in 0 .. CacheSize
        /\ cur_pos \in Int /\ base \in Int /\ far \in Int
        /\ base <= cur_pos /\ cur_pos <= far
        /\ Filled \in Int /\ Filled = cur_pos + level
    BY <1>1, RingTypes, CacheSizes
  <1>3. ASSUME NEW k \in Int, cur_pos + k >= base, cur_pos + k < Filled,
               cur_pos + k >= Filled - CacheSize
        PROVE  data[Place(rp + k)] = cur_pos + k
    <2>1. PICK p \in Int, a \in Int, r \in Int :
            p = cur_pos + k /\ a = cur_pos - base /\ r = rp
      BY <1>2
    <2>2. PICK x \in Int, y \in Int : x = r + k /\ y = p - base
      BY <1>2
    <2>3. Same(r, a)
      BY <1>1, <2>1 DEF Pointers
    <2>4. x - r = y - a
      BY <1>2, <2>1, <2>2
    <2>5. Same(x, y)
      BY <2>3, <2>4, SameSum
    <2>6. data[Place(y)] = p
      BY <1>1, <1>2, <1>3, <2>1, <2>2 DEF HoldsBytes
    <2> QED BY <2>1, <2>2, <2>5, <2>6, SameSwaps
  <1>4. HoldsAhead
    <2>1. \A k \in 0 .. level - 1 : data[Place(rp + k)] = cur_pos + k
      <3> TAKE k \in 0 .. level - 1
      <3>1. k \in Int /\ cur_pos + k >= base /\ cur_pos + k < Filled
            /\ cur_pos + k >= Filled - CacheSize
        BY <1>2
      <3> QED BY <3>1, <1>3
    <2>2. real_pos = cur_pos + level + Len(tmp_buf)
      BY <1>1, <1>2 DEF Continues
    <2>3. rp \in 0 .. CacheSize
      BY <1>1 DEF Pointers
    <2> QED BY <2>1, <2>2, <2>3 DEF HoldsAhead, Place
  <1>5. PreservedIsFile
    <2> SUFFICES ASSUME NEW k \in 1 .. FixPre - (far - cur_pos), k <= cur_pos - base
                 PROVE  data[Place(rp - k)] = cur_pos - k
      BY DEF PreservedIsFile, Place
    <2>1. PICK j \in Int : j = 0 - k /\ k \in Int
      BY <1>2
    <2>2. cur_pos + j >= base /\ cur_pos + j < Filled /\ cur_pos + j >= Filled - CacheSize
      BY <1>1, <1>2, <2>1 DEF Preserved
    <2>3. data[Place(rp + j)] = cur_pos + j
      BY <1>3, <2>2
    <2>4. rp + j = rp - k /\ cur_pos + j = cur_pos - k
      BY <1>2, <2>1
    <2> QED BY <2>3, <2>4
  <1> QED BY <1>4, <1>5 DEF RingIsFile

-----------------------------------------------------------------------------
(* The demuxer moves in the ring                                            *)

(* A new position in what the ring holds, with rp on its place.             *)
Moved ==
  /\ UNCHANGED <<data, pre_rp, wp, tmp_buf, real_pos, base>>
  /\ rp' \in 0 .. CacheSize /\ cur_pos' \in Int /\ far' \in Int
  /\ far <= far' /\ base <= cur_pos' /\ cur_pos' <= far'
  /\ level' = level - (cur_pos' - cur_pos) /\ level' \in 0 .. CacheSize
  /\ Same(rp', cur_pos' - base)
  /\ Filled - base <= CacheSize => rp' = cur_pos' - base /\ pre_size' = rp'

LEMMA MoveKeeps ==
  ASSUME CacheTypes, RingInv, Moved
  PROVE  RingInv'
  <1>1. PICK c \in Int, d \in Int, l \in Int, f \in Int, g \in Int :
          /\ c = cur_pos /\ d = cur_pos' /\ l = level /\ f = far /\ g = far' /\ f <= g
          /\ level' = l - (d - c)
    <2>1. cur_pos \in Int /\ level \in Int /\ far \in Int
      BY CacheSizes DEF CacheTypes
    <2>2. cur_pos' \in Int /\ far' \in Int /\ far <= far' /\ level' = level - (cur_pos' - cur_pos)
      BY DEF Moved
    <2> QED BY <2>1, <2>2
  <1>2. Filled' = Filled /\ Filled \in Int
    <2>1. Filled = c + l
      BY <1>1 DEF Filled
    <2>2. Filled' = d + (l - (d - c))
      BY <1>1 DEF Filled
    <2>3. d + (l - (d - c)) = c + l /\ c + l \in Int
      OBVIOUS
    <2> QED BY <2>1, <2>2, <2>3
  <1>3. Pointers'
    <2>1. Same(wp, Filled - base)
      BY DEF RingInv, Pointers
    <2>2. wp' = wp /\ (Filled - base)' = Filled - base
      BY <1>2 DEF Moved
    <2>3. (Same(wp, Filled - base))'
      BY <2>1, <2>2
    <2>4. wp \in 0 .. CacheSize
      BY DEF RingInv, Pointers
    <2> QED BY <2>2, <2>3, <2>4 DEF Pointers, Moved
  <1>4. Preserved'
    <2>1. Filled - far <= CacheSize - FixPre => Filled - far' <= CacheSize - FixPre
      <3>1. PICK h \in Int, e \in Int : h = Filled /\ e = CacheSize - FixPre
        BY <1>2, CacheSizes
      <3>2. f <= g
        BY <1>1
      <3>3. h - f <= e => h - g <= e
        BY <3>2
      <3> QED BY <1>1, <3>1, <3>3
    <2>2. (Filled - base <= CacheSize)' <=> Filled - base <= CacheSize
      BY <1>2 DEF Moved
    <2>3. (Filled - base > CacheSize)' <=> Filled - base > CacheSize
      BY <1>2 DEF Moved
    <2>4. /\ Filled - far <= CacheSize - FixPre
          /\ Filled - base <= CacheSize => pre_rp = 0 /\ wp = Filled - base
          /\ Filled - base > CacheSize => pre_rp >= 1
      BY DEF RingInv, Preserved
    <2>5. (Filled - far <= CacheSize - FixPre)'
      BY <1>2, <2>1, <2>4
    <2>6. (Filled - base <= CacheSize => pre_rp = 0 /\ wp = Filled - base)'
      BY <1>2, <2>2, <2>4 DEF Moved
    <2>7. (Filled - base <= CacheSize => rp = cur_pos - base /\ pre_size = rp)'
      BY <1>2, <2>2 DEF Moved
    <2>8. (Filled - base > CacheSize => pre_rp >= 1)'
      BY <2>3, <2>4 DEF Moved
    <2> QED BY <2>5, <2>6, <2>7, <2>8 DEF Preserved
  <1>5. Continues'
    BY <1>2 DEF RingInv, Continues, Moved
  <1>6. HoldsBytes'
    BY <1>2 DEF RingInv, HoldsBytes, Moved
  <1> QED BY <1>3, <1>4, <1>5, <1>6 DEF RingInv

(* rp moves as far as the position does, perhaps round the end of the ring. *)
LEMMA PlaceKept ==
  ASSUME NEW r \in Int, NEW a \in Int, Same(r, a), NEW t \in Int, NEW b \in Int,
         t - r = b - a \/ t - r = b - a - CacheSize \/ t - r = b - a + CacheSize
  PROVE  Same(t, b)
  <1>1. PICK s \in Int : s = r + (b - a)
    OBVIOUS
  <1>2. s - r = b - a
    BY <1>1
  <1>3. Same(s, b)
    BY <1>2, SameSum
  <1>4. CASE t = s
    BY <1>3, <1>4
  <1>5. CASE t = s - CacheSize \/ t = s + CacheSize
    <2>1. Same(t, s)
      BY <1>5, SameRound
    <2> QED BY <1>3, <2>1, SameSwaps
  <1> QED BY <1>1, <1>4, <1>5, CacheSizes

(* Forward by n bytes of what the ring holds.                               *)
Forward(n) ==
  /\ UNCHANGED <<data, pre_rp, wp, tmp_buf, real_pos, base>>
  /\ rp' \in Int /\ rp' >= 0 /\ (rp' <= CacheSize \/ wp > rp)
  /\ rp' = rp + n \/ rp' = rp + n - CacheSize
  /\ wp > rp => rp' = rp + n
  /\ cur_pos' = cur_pos + n /\ level' = level - n /\ pre_size' = pre_size + n
  /\ far' = Greatest(far, cur_pos')

LEMMA ForwardKeeps ==
  ASSUME CacheTypes, RingInv, NEW n \in Int, n > 0, n <= level, Forward(n)
  PROVE  RingInv' /\ far' \in 0 .. Length /\ cur_pos' \in 0 .. Length
  <1>0. Pointers /\ Preserved /\ Continues
    BY DEF RingInv
  <1>1. /\ CacheSize \in Int /\ CacheSize > 0
        /\ rp \in 0 .. CacheSize /\ wp \in 0 .. CacheSize /\ level \in 0 .. CacheSize
        /\ pre_rp \in Int /\ pre_size \in Int
        /\ cur_pos \in 0 .. Length /\ base \in 0 .. Length /\ far \in 0 .. Length
        /\ real_pos \in 0 .. Length /\ Length \in Int
        /\ base <= cur_pos /\ cur_pos <= far
        /\ Filled \in Int /\ Filled = cur_pos + level
    BY <1>0, RingTypes
  <1>2. /\ wp > rp => level = wp - rp
        /\ wp < rp => level >= wp - rp + CacheSize
    BY <1>0, <1>1, Between
  <1>3. /\ rp' \in 0 .. CacheSize /\ (rp' = rp + n \/ rp' = rp + n - CacheSize)
        /\ wp > rp => rp' = rp + n
        /\ cur_pos' = cur_pos + n /\ level' = level - n /\ pre_size' = pre_size + n
    BY <1>1, <1>2 DEF Forward
  <1>4. cur_pos + n <= Length
    <2>1. real_pos = Filled + Len(tmp_buf) /\ Len(tmp_buf) \in Nat
      BY <1>0 DEF Continues, CacheTypes
    <2> QED BY <1>1, <2>1
  <1>5. PICK c \in Int, f \in Int : c = cur_pos' /\ f = far' /\ f = Greatest(far, c)
    <2>1. cur_pos' \in Int /\ far \in Int
      BY <1>1, <1>3
    <2> QED BY <2>1, LeastOf DEF Forward
  <1>6. f >= c /\ f >= far /\ (f = c \/ f = far)
    BY <1>1, <1>5, LeastOf
  <1>7. cur_pos' \in 0 .. Length /\ far' \in 0 .. Length /\ far' >= far /\ cur_pos' <= far'
    BY <1>1, <1>3, <1>4, <1>5, <1>6
  <1>8. Same(rp', cur_pos' - base)
    <2>1. PICK r \in Int, a \in Int, t \in Int, b \in Int :
            r = rp /\ a = cur_pos - base /\ t = rp' /\ b = cur_pos' - base
      BY <1>1, <1>3, <1>7
    <2>2. Same(r, a)
      BY <1>0, <2>1 DEF Pointers
    <2>3. b - a = n
      BY <1>1, <1>3, <2>1
    <2>4. t = r + n \/ t = r + n - CacheSize
      BY <1>3, <2>1
    <2>5. t - r = b - a \/ t - r = b - a - CacheSize
      BY <1>1, <2>3, <2>4
    <2>6. Same(t, b)
      BY <2>2, <2>5, PlaceKept
    <2> QED BY <2>1, <2>6
  <1>9. Filled - base <= CacheSize => rp' = cur_pos' - base /\ pre_size' = rp'
    <2> SUFFICES ASSUME Filled - base <= CacheSize
                 PROVE  rp' = cur_pos' - base /\ pre_size' = rp'
      OBVIOUS
    <2>1. rp = cur_pos - base /\ pre_size = rp /\ wp = Filled - base
      BY <1>0 DEF Preserved
    <2>2. wp > rp
      BY <1>1, <2>1
    <2> QED BY <1>1, <1>3, <2>1, <2>2
  <1>10. /\ level' = level - (cur_pos' - cur_pos) /\ level' \in 0 .. CacheSize
         /\ base <= cur_pos' /\ cur_pos' \in Int /\ far' \in Int
    BY <1>1, <1>3, <1>7
  <1>11. Moved
    BY <1>3, <1>7, <1>8, <1>9, <1>10 DEF Moved, Forward
  <1> QED BY <1>7, <1>11, MoveKeeps

LEMMA ReadKeeps ==
  ASSUME CacheTypes, RingInv, NEW len \in Int, len > 0, stream_cache_read(len)
  PROVE  RingInv' /\ CacheTypes'
  <1>1. /\ CacheSize \in Int /\ CacheSize > 0
        /\ rp \in 0 .. CacheSize /\ wp \in Int /\ level \in 0 .. CacheSize
        /\ pre_size \in Int /\ cur_pos \in Int
    BY RingTypes DEF RingInv
  <1>2. PICK n \in Int : n = Least(level, len) /\ n <= level /\ (n = level \/ n = len)
    BY <1>1 DEF Least
  <1>3. /\ level > 0 /\ rp' = AfterRead(n) /\ level' = level - n
        /\ pre_size' = pre_size + n /\ cur_pos' = cur_pos + n
        /\ far' = Greatest(far, cur_pos + n)
        /\ UNCHANGED <<data, pre_rp, wp, tmp_buf, real_pos, base, goal>>
    BY <1>2 DEF stream_cache_read, cache_read, fill
  <1>4. n > 0 /\ n <= level
    BY <1>1, <1>2, <1>3
  <1>5. Forward(n)
    <2>1. /\ rp' \in Int /\ rp' >= 0 /\ (rp' <= CacheSize \/ wp > rp)
          /\ rp' = rp + n \/ rp' = rp + n - CacheSize
          /\ wp > rp => rp' = rp + n
      BY <1>1, <1>3, <1>4 DEF AfterRead
    <2> QED BY <1>3, <2>1 DEF Forward
  <1>6. RingInv' /\ far' \in 0 .. Length /\ cur_pos' \in 0 .. Length
    BY <1>4, <1>5, ForwardKeeps
  <1>7. rp' \in Int /\ level' \in Int /\ pre_size' \in Int
    <2>1. rp' \in Int
      BY <1>5 DEF Forward
    <2>2. level - n \in Int /\ pre_size + n \in Int
      BY <1>1
    <2> QED BY <1>3, <2>1, <2>2
  <1>8. CacheTypes'
    BY <1>3, <1>6, <1>7 DEF CacheTypes
  <1> QED BY <1>6, <1>8

(* Back by s bytes that are still in the ring, and not across its           *)
(* beginning with a stale pre_rp.                                           *)
Back(s) ==
  /\ s <= pre_size /\ pre_rp # rp /\ BackTo(s) >= 0
  /\ \/ cur_pos - s >= far - FixPre
     \/ cur_pos - s >= base /\ level + s <= CacheSize
  /\ rp' = BackTo(s) /\ cur_pos' = cur_pos - s /\ far' = far
  /\ level' = level + s /\ pre_size' = pre_size - s
  /\ UNCHANGED <<data, pre_rp, wp, tmp_buf, real_pos, base>>

LEMMA BackKeeps ==
  ASSUME CacheTypes, RingInv, NEW s \in Int, s > 0, Back(s)
  PROVE  RingInv' /\ rp' \in Int
  <1>0. Pointers /\ Preserved
    BY DEF RingInv
  <1>1. /\ CacheSize \in Int /\ CacheSize > 0
        /\ rp \in 0 .. CacheSize /\ level \in 0 .. CacheSize
        /\ pre_rp \in Int /\ pre_size \in Int
        /\ cur_pos \in Int /\ base \in Int /\ far \in Int
        /\ base <= cur_pos /\ cur_pos <= far
        /\ Filled \in Int /\ Filled = cur_pos + level
        /\ FixPre \in Int
    BY <1>0, RingTypes, CacheSizes
  <1>2. /\ Filled - far <= CacheSize - FixPre
        /\ Filled - base <= CacheSize =>
             pre_rp = 0 /\ rp = cur_pos - base /\ pre_size = rp
        /\ Filled - base > CacheSize => pre_rp >= 1
    BY <1>0 DEF Preserved
  <1>3. /\ s <= pre_size /\ pre_rp # rp
        /\ \/ cur_pos - s >= far - FixPre
           \/ cur_pos - s >= base /\ level + s <= CacheSize
        /\ cur_pos' = cur_pos - s /\ far' = far
        /\ level' = level + s /\ pre_size' = pre_size - s
    BY DEF Back
  <1>10. BackTo(s) >= 0
    BY DEF Back
  <1>4. /\ rp' \in 0 .. CacheSize /\ (rp' = rp - s \/ rp' = rp - s + CacheSize)
        /\ Filled - base <= CacheSize => rp' = rp - s
    <2>1. CASE Filled - base <= CacheSize
      <3>1. pre_rp < rp /\ rp - s >= 0
        BY <1>1, <1>2, <1>3, <2>1
      <3>2. rp' = rp - s
        BY <3>1 DEF Back, BackTo
      <3> QED BY <1>1, <3>1, <3>2
    <2>2. CASE ~(Filled - base <= CacheSize)
      <3>1. pre_rp >= 1
        BY <1>1, <1>2, <2>2
      <3>2. CASE pre_rp < rp \/ rp > s
        <4>1. rp' = rp - s /\ BackTo(s) = rp - s
          BY <3>2 DEF Back, BackTo
        <4>2. rp >= s
          BY <1>1, <1>10, <4>1
        <4> QED BY <1>1, <2>2, <4>1, <4>2
      <3>3. CASE ~(pre_rp < rp \/ rp > s)
        <4>1. rp' = CacheSize - (s - rp) /\ BackTo(s) = CacheSize - (s - rp) /\ rp <= s
          BY <1>1, <3>3 DEF Back, BackTo
        <4> QED BY <1>1, <1>10, <2>2, <4>1
      <3> QED BY <3>2, <3>3
    <2> QED BY <2>1, <2>2
  <1>5. base <= cur_pos' /\ cur_pos' <= far' /\ level' \in 0 .. CacheSize
    <2>1. cur_pos - s >= base
      <3>1. CASE Filled - base <= CacheSize
        BY <1>1, <1>3, <1>2, <3>1
      <3>2. CASE Filled - base > CacheSize
        BY <1>1, <1>3, <1>2, <3>2
      <3> QED BY <1>1, <1>3, <3>1, <3>2
    <2>2. level + s <= CacheSize
      BY <1>1, <1>3, <1>2
    <2> QED BY <1>1, <1>3, <2>1, <2>2
  <1>6. Same(rp', cur_pos' - base)
    <2>1. PICK r \in Int, a \in Int, t \in Int, b \in Int :
            r = rp /\ a = cur_pos - base /\ t = rp' /\ b = cur_pos' - base
      BY <1>1, <1>3, <1>4
    <2>2. Same(r, a)
      BY <1>0, <2>1 DEF Pointers
    <2>3. b - a = -s
      BY <1>1, <1>3, <2>1
    <2>4. t = r - s \/ t = r - s + CacheSize
      BY <1>4, <2>1
    <2>5. t - r = b - a \/ t - r = b - a + CacheSize
      BY <1>1, <1>3, <2>3, <2>4
    <2>6. Same(t, b)
      BY <2>2, <2>5, PlaceKept
    <2> QED BY <2>1, <2>6
  <1>7. Filled - base <= CacheSize => rp' = cur_pos' - base /\ pre_size' = rp'
    BY <1>1, <1>3, <1>2, <1>4
  <1>8. level' = level - (cur_pos' - cur_pos) /\ cur_pos' \in Int /\ far' \in Int /\ far <= far'
    BY <1>1, <1>3
  <1>9. Moved
    BY <1>4, <1>5, <1>6, <1>7, <1>8 DEF Moved, Back
  <1> QED BY <1>1, <1>4, <1>9, MoveKeeps

(* What a seek that does not go astray can rely on.                         *)
LEMMA OnCourse ==
  ASSUME NEW aim, Astray(aim) = {}
  PROVE  /\ ~(Distance(cur_pos, aim) > IntMax) /\ Distance(cur_pos, aim) # IntMax
         /\ ~(aim < far - FixPre /\ aim < Greatest(base, cur_pos + level - CacheSize))
         /\ far \in Int /\ FixPre \in Int /\ aim \in Int => ~ToFront(aim)
  <1>1. \A way \in {"wide", "least", "beyond", "front"} : way \notin Astray(aim)
    OBVIOUS
  <1>2. ~(Distance(cur_pos, aim) > IntMax) /\ Distance(cur_pos, aim) # IntMax
    BY <1>1 DEF Astray
  <1>3. ~(/\ aim < far - FixPre
          /\ aim < Greatest(base, cur_pos + level - CacheSize) \/ ToFront(aim))
    BY <1>1 DEF Astray
  <1>4. ~(aim >= far - FixPre /\ ToFront(aim))
    BY <1>1 DEF Astray
  <1>5. ASSUME far \in Int, FixPre \in Int, aim \in Int PROVE ~ToFront(aim)
    <2>1. aim < far - FixPre \/ aim >= far - FixPre
      BY <1>5
    <2> QED BY <1>3, <1>4, <2>1
  <1> QED BY <1>2, <1>3, <1>5

(* An int holds the step, then.                                             *)
LEMMA StepIs ==
  ASSUME NEW aim \in Int, cur_pos \in Int, Astray(aim) = {}
  PROVE  Step(aim) = Distance(cur_pos, aim)
  <1>1. PICK h \in Int : h = IntMax /\ h > 0
    BY CacheSizes
  <1>2. PICK d \in Int : d = Distance(cur_pos, aim) /\ d >= 0
    BY DEF Distance, Greatest, Least
  <1>3. d < h
    BY <1>1, <1>2, OnCourse
  <1>4. d % (2 * h) = d
    <2>1. PICK w \in Int : w = 2 * h /\ d < w
      BY <1>1, <1>2, <1>3
    <2>2. d % w = d
      BY <1>2, <2>1
    <2> QED BY <2>1, <2>2
  <1> QED BY <1>1, <1>2, <1>3, <1>4 DEF Step

(* A seek that finds its position in the ring.                              *)
LEMMA SeekKeeps ==
  ASSUME CacheTypes, RingInv, NEW aim \in 0 .. Length, seek_in_cache(aim), Astray(aim) = {}
  PROVE  RingInv' /\ CacheTypes'
  <1>1. /\ CacheSize \in Int /\ CacheSize > 0 /\ Length \in Int
        /\ rp \in 0 .. CacheSize /\ wp \in Int /\ level \in 0 .. CacheSize
        /\ pre_size \in Int /\ cur_pos \in 0 .. Length /\ far \in 0 .. Length
        /\ base \in Int /\ base <= cur_pos /\ cur_pos <= far /\ aim \in Int /\ FixPre \in Int
    BY RingTypes, CacheSizes DEF RingInv
  <1>10. Step(aim) = Distance(cur_pos, aim)
    BY <1>1, StepIs
  <1>2. /\ InCache(aim) /\ cache_seek(aim)
        /\ cur_pos' = aim /\ far' = Greatest(far, aim)
        /\ UNCHANGED <<tmp_buf, real_pos, base, goal>>
    BY DEF seek_in_cache, MaySeek, fill
  <1>3. /\ level' = level - (aim - cur_pos) /\ pre_size' = pre_size + (aim - cur_pos)
        /\ UNCHANGED <<data, pre_rp, wp>>
    <2>1. Distance(cur_pos, aim) = (IF aim < cur_pos THEN cur_pos - aim ELSE aim - cur_pos)
      BY <1>1 DEF Distance, Greatest, Least
    <2>2. (IF aim < cur_pos THEN -Step(aim) ELSE Step(aim)) = aim - cur_pos
      BY <1>1, <1>10, <2>1
    <2> QED BY <1>2, <2>2 DEF cache_seek
  <1>4. PICK d \in Int : d = aim - cur_pos
    BY <1>1
  <1>5. CASE d = 0
    <2>1. aim = cur_pos
      BY <1>1, <1>4, <1>5
    <2>2. rp' = rp /\ cur_pos' = cur_pos
      <3>1. Step(aim) = 0
        BY <1>1, <1>10, <2>1 DEF Distance, Greatest, Least
      <3>2. (IF aim < cur_pos THEN -Step(aim) ELSE Step(aim)) = 0
        BY <1>1, <2>1, <3>1
      <3>3. rp' = rp
        <4>1. cache_seek(aim)
          BY <1>2
        <4> QED BY <3>2, <4>1 DEF cache_seek
      <3> QED BY <1>2, <2>1, <3>3
    <2>3. far' = far /\ level' = level /\ pre_size' = pre_size
      BY <1>1, <1>2, <1>3, <2>1 DEF Greatest
    <2>4. RingInv'
      BY <1>2, <1>3, <2>2, <2>3
         DEF RingInv, Pointers, Preserved, Continues, HoldsBytes, Filled
    <2> QED BY <1>2, <1>3, <2>2, <2>3, <2>4 DEF CacheTypes
  <1>6. CASE d > 0
    <2>1. aim > cur_pos /\ Step(aim) = d
      BY <1>1, <1>10, <1>4, <1>6 DEF Distance, Greatest, Least
    <2>2. level >= d /\ rp # wp
      BY <1>1, <1>2, <2>1, <1>6 DEF InCache
    <2>3. rp' = ForwardTo(d)
      <3>1. (IF aim < cur_pos THEN -Step(aim) ELSE Step(aim)) = d
        BY <1>1, <2>1
      <3> QED BY <1>2, <1>6, <3>1 DEF cache_seek
    <2>4. Forward(d)
      <3>1. /\ rp' \in Int /\ rp' >= 0 /\ (rp' <= CacheSize \/ wp > rp)
            /\ rp' = rp + d \/ rp' = rp + d - CacheSize
            /\ wp > rp => rp' = rp + d
        BY <1>1, <1>6, <2>2, <2>3 DEF ForwardTo
      <3>2. cur_pos' = cur_pos + d /\ level' = level - d /\ pre_size' = pre_size + d
        BY <1>1, <1>2, <1>3, <1>4
      <3>3. far' = Greatest(far, cur_pos')
        BY <1>2
      <3> QED BY <1>2, <1>3, <3>1, <3>2, <3>3 DEF Forward
    <2>5. RingInv' /\ far' \in 0 .. Length /\ cur_pos' \in 0 .. Length
      BY <1>6, <2>2, <2>4, ForwardKeeps
    <2>6. rp' \in Int /\ level' \in Int /\ pre_size' \in Int
      <3>1. rp' \in Int
        BY <2>4 DEF Forward
      <3>2. level - d \in Int /\ pre_size + d \in Int
        BY <1>1
      <3> QED BY <1>3, <1>4, <3>1, <3>2
    <2> QED BY <1>2, <1>3, <2>5, <2>6 DEF CacheTypes
  <1>7. CASE d < 0
    <2>1. PICK s \in Int : s = -d /\ s > 0
      BY <1>7
    <2>2. aim < cur_pos /\ Step(aim) = s
      BY <1>1, <1>10, <1>4, <1>7, <2>1 DEF Distance, Greatest, Least
    <2>3. s <= pre_size /\ pre_rp # rp
      BY <1>1, <1>2, <2>1, <2>2 DEF InCache
    <2>4. cur_pos - aim = s /\ cur_pos - s = aim
      BY <1>1, <1>4, <2>1
    <2>5. Back(s)
      <3>1. rp' = BackTo(s)
        <4>1. (IF aim < cur_pos THEN -Step(aim) ELSE Step(aim)) = -s
          BY <1>1, <2>2
        <4>2. -s # 0 /\ -s < 0 /\ -(-s) = s
          BY <2>1
        <4> QED BY <1>2, <4>1, <4>2 DEF cache_seek
      <3>2. cur_pos' = cur_pos - s /\ level' = level + s /\ pre_size' = pre_size - s
        BY <1>1, <1>2, <1>3, <1>4, <2>1
      <3>3. far' = far
        BY <1>1, <1>2, <2>2 DEF Greatest
      <3>4. BackTo(s) >= 0
        <4>1. rp \in Int /\ pre_rp \in Int
          BY <1>1 DEF CacheTypes
        <4>2. BackTo(s) \in Int
          BY <1>1, <2>1, <4>1 DEF BackTo
        <4>3. ~ToFront(aim)
          BY <1>1, OnCourse
        <4> QED BY <2>1, <2>2, <4>2, <4>3 DEF ToFront
      <3>5. \/ cur_pos - s >= far - FixPre
            \/ cur_pos - s >= base /\ level + s <= CacheSize
        <4>1. PICK e \in Int : e = cur_pos + level - CacheSize
          BY <1>1
        <4>2. ~(aim < far - FixPre /\ aim < Greatest(base, e))
          BY <4>1, OnCourse
        <4>3. Greatest(base, e) \in Int /\ Greatest(base, e) >= base /\ Greatest(base, e) >= e
          BY <1>1, LeastOf
        <4> QED BY <1>1, <2>1, <2>4, <4>1, <4>2, <4>3
      <3> QED BY <1>2, <1>3, <2>3, <2>4, <3>1, <3>2, <3>3, <3>4, <3>5 DEF Back
    <2>6. RingInv' /\ rp' \in Int
      BY <2>1, <2>5, BackKeeps
    <2>7. level' \in Int /\ pre_size' \in Int /\ far' = far
      BY <1>1, <1>3, <2>5 DEF Back
    <2> QED BY <1>2, <1>3, <2>6, <2>7 DEF CacheTypes
  <1> QED BY <1>5, <1>6, <1>7

-----------------------------------------------------------------------------
(* The thread fills the ring                                                *)

(* Where a write of n bytes that fit leaves wp.                             *)
LEMMA WriteMoves ==
  ASSUME CacheTypes, Pointers, NEW n \in Int, n > 0, level + n <= CacheSize
  PROVE  /\ AfterWrite(n) \in 1 .. CacheSize
         /\ AfterWrite(n) = wp + n \/ AfterWrite(n) = wp + n - CacheSize
         /\ Same(AfterWrite(n), Filled + n - base)
         /\ wp >= rp /\ wp + n <= CacheSize => AfterWrite(n) = wp + n /\ ~Wraps(n)
         /\ wp >= rp /\ wp + n > CacheSize => Wraps(n)
  <1>1. /\ CacheSize \in Int /\ CacheSize > 0
        /\ rp \in 0 .. CacheSize /\ wp \in 0 .. CacheSize /\ level \in 0 .. CacheSize
        /\ base \in Int /\ Filled \in Int
    BY RingTypes
  <1>2. wp < rp => level >= wp - rp + CacheSize
    BY Between
  <1>3. /\ AfterWrite(n) \in 1 .. CacheSize
        /\ AfterWrite(n) = wp + n \/ AfterWrite(n) = wp + n - CacheSize
    <2>1. CASE wp < rp
      <3>1. AfterWrite(n) = wp + n
        BY <1>1, <2>1 DEF AfterWrite, Wraps
      <3>2. wp + n <= CacheSize
        BY <1>1, <1>2, <2>1
      <3> QED BY <1>1, <3>1, <3>2
    <2>2. CASE wp >= rp
      BY <1>1, <2>2 DEF AfterWrite, Wraps, ToEnd
    <2> QED BY <1>1, <2>1, <2>2
  <1>4. Same(AfterWrite(n), Filled + n - base)
    <2>1. PICK r \in Int, a \in Int, t \in Int, b \in Int :
            r = wp /\ a = Filled - base /\ t = AfterWrite(n) /\ b = Filled + n - base
      BY <1>1, <1>3
    <2>2. Same(r, a)
      BY <2>1 DEF Pointers
    <2>3. b - a = n
      BY <1>1, <2>1
    <2>4. t = r + n \/ t = r + n - CacheSize
      BY <1>3, <2>1
    <2>5. t - r = b - a \/ t - r = b - a - CacheSize
      BY <1>1, <2>3, <2>4
    <2>6. Same(t, b)
      BY <2>2, <2>5, PlaceKept
    <2> QED BY <2>1, <2>6
  <1>5. /\ wp >= rp /\ wp + n <= CacheSize => AfterWrite(n) = wp + n /\ ~Wraps(n)
        /\ wp >= rp /\ wp + n > CacheSize => Wraps(n)
    BY <1>1 DEF AfterWrite, Wraps, ToEnd
  <1> QED BY <1>3, <1>4, <1>5

(* What a byte at distance k behind or ahead of the write pointer becomes.  *)
LEMMA WriteBytes ==
  ASSUME CacheTypes, Pointers, NEW n \in Int, n > 0, cache_write(n), n <= CacheSize,
         NEW p \in Int, p >= Filled + n - CacheSize, p < Filled + n
  PROVE  data'[Place(p - base)] =
           IF p >= Filled THEN tmp_buf[p - Filled + 1] ELSE data[Place(p - base)]
  <1>1. /\ CacheSize \in Int /\ CacheSize > 0 /\ wp \in Int /\ base \in Int /\ Filled \in Int
    BY RingTypes
  <1>2. PICK x \in Int, i \in Int, w \in Int, f \in Int :
          x = p - base /\ i = Place(x) /\ w = wp /\ f = Filled - base
    <2>1. PICK x \in Int : x = p - base
      BY <1>1
    <2>2. Place(x) \in 0 .. CacheSize - 1
      BY PlaceOf
    <2> QED BY <1>1, <2>1, <2>2
  <1>3. i \in DOMAIN data
    <2>1. i \in 0 .. CacheSize - 1
      BY <1>2, PlaceOf
    <2> QED BY <2>1 DEF CacheTypes
  <1>4. Place(i - w) = Place(p - Filled)
    <2>1. Same(i, x)
      BY <1>2, SamePlaces
    <2>2. Same(w, f) /\ Same(f, w)
      <3>1. Same(w, f)
        BY <1>2 DEF Pointers
      <3> QED BY <3>1, SameSwaps
    <2>3. PICK u \in Int, v \in Int, z \in Int : u = i - w /\ v = x - w /\ z = x - f
      OBVIOUS
    <2>4. Same(u, v)
      <3>1. u - i = v - x
        BY <2>3
      <3> QED BY <2>1, <3>1, SameSum
    <2>5. Same(v, z)
      <3>1. z - w = v - f
        BY <2>3
      <3>2. Same(z, v)
        BY <2>2, <3>1, SameSum
      <3> QED BY <3>2, SameSwaps
    <2>6. z = p - Filled
      BY <1>1, <1>2, <2>3
    <2> QED BY <2>3, <2>4, <2>5, <2>6, SameSwaps
  <1>5. data'[i] = IF Place(i - w) < n THEN tmp_buf[Place(i - w) + 1] ELSE data[i]
    BY <1>2, <1>3 DEF cache_write, Place
  <1>6. CASE p >= Filled
    <2>1. PICK k \in Int : k = p - Filled /\ 0 <= k /\ k < n
      BY <1>1, <1>6
    <2>2. Place(k) = k
      BY <1>1, <2>1, PlaceOf
    <2> QED BY <1>2, <1>4, <1>5, <1>6, <2>1, <2>2
  <1>7. CASE ~(p >= Filled)
    <2>1. PICK k \in Int : k = p - Filled /\ k < 0 /\ k >= n - CacheSize
      BY <1>1, <1>7
    <2>2. Place(k) = k + CacheSize /\ k + CacheSize >= n
      BY <1>1, <2>1, PlaceOf
    <2>3. ~(Place(i - w) < n)
      BY <1>1, <1>4, <2>1, <2>2
    <2> QED BY <1>2, <1>5, <1>7, <2>3
  <1> QED BY <1>6, <1>7

LEMMA WriteKeeps ==
  ASSUME CacheTypes, RingInv, NEW n \in Int, n > 0, n = Len(tmp_buf),
         n <= cache_space, cache_write(n), tmp_buf' = <<>>,
         UNCHANGED <<cur_pos, base, far, real_pos>>
  PROVE  RingInv'
  <1>0. Pointers /\ Preserved /\ Continues /\ HoldsBytes
    BY DEF RingInv
  <1>1. /\ CacheSize \in Int /\ CacheSize > 0 /\ FixPre \in Int /\ FixPre >= 0
        /\ rp \in 0 .. CacheSize /\ wp \in 0 .. CacheSize /\ level \in 0 .. CacheSize
        /\ pre_rp \in Int /\ cur_pos \in Int /\ base \in Int /\ far \in Int
        /\ base <= cur_pos /\ cur_pos <= far
        /\ Filled \in Int /\ Filled = cur_pos + level
    BY <1>0, RingTypes, CacheSizes
  <1>2. /\ wp' = AfterWrite(n) /\ level' = level + n /\ rp' = rp
        /\ MovesPre(n) => pre_rp' = AfterWrite(n)
        /\ ~MovesPre(n) => pre_rp' = pre_rp /\ pre_size' = pre_size
    BY DEF cache_write
  <1>3. level + n <= CacheSize - FixPre
    BY <1>1 DEF cache_space
  <1>4. Filled' = Filled + n
    <2>1. Filled' = cur_pos + (level + n)
      BY <1>2 DEF Filled
    <2> QED BY <1>1, <2>1
  <1>10. base' = base /\ cur_pos' = cur_pos /\ far' = far /\ real_pos' = real_pos
    OBVIOUS
  <1>5. /\ AfterWrite(n) \in 1 .. CacheSize
        /\ Same(AfterWrite(n), Filled + n - base)
        /\ wp >= rp /\ wp + n <= CacheSize => AfterWrite(n) = wp + n /\ ~Wraps(n)
        /\ wp >= rp /\ wp + n > CacheSize => Wraps(n)
    <2>1. level + n <= CacheSize
      BY <1>1, <1>3
    <2> QED BY <1>0, <2>1, WriteMoves
  <1>6. Pointers'
    <2>1. rp' \in 0 .. CacheSize /\ wp' \in 0 .. CacheSize /\ level' \in 0 .. CacheSize
      BY <1>1, <1>2, <1>3, <1>5
    <2>2. Same(rp', cur_pos' - base')
      BY <1>0, <1>2 DEF Pointers
    <2>3. Same(wp', Filled' - base')
      <3>1. wp' = AfterWrite(n) /\ Filled' - base' = Filled + n - base
        BY <1>1, <1>2, <1>4, <1>10
      <3> QED BY <1>5, <3>1
    <2> QED BY <1>1, <2>1, <2>2, <2>3 DEF Pointers
  <1>7. Preserved'
    <2>1. Filled' - far' <= CacheSize - FixPre
      BY <1>1, <1>3, <1>4
    <2>2. Filled - base <= CacheSize =>
            pre_rp = 0 /\ rp = cur_pos - base /\ pre_size = rp /\ wp = Filled - base
      BY <1>0 DEF Preserved
    <2>3. ASSUME Filled + n - base <= CacheSize
          PROVE  /\ pre_rp' = 0 /\ rp' = cur_pos - base /\ pre_size' = rp'
                 /\ wp' = Filled + n - base
      <3>1. Filled - base <= CacheSize /\ wp + n <= CacheSize /\ wp >= rp /\ pre_rp = 0
        BY <1>1, <2>2, <2>3
      <3>2. AfterWrite(n) = wp + n /\ ~Wraps(n)
        BY <1>5, <3>1
      <3>3. ~MovesPre(n)
        BY <1>1, <3>1, <3>2 DEF MovesPre
      <3> QED BY <1>1, <1>2, <2>2, <3>1, <3>2, <3>3
    <2>4. ASSUME Filled + n - base > CacheSize
          PROVE  pre_rp' >= 1
      <3>1. CASE MovesPre(n)
        BY <1>2, <1>5, <3>1, <1>1
      <3>2. CASE ~MovesPre(n)
        <4>1. CASE Filled - base <= CacheSize
          <5>1. wp >= rp /\ wp + n > CacheSize /\ pre_rp = 0
            BY <1>1, <2>2, <2>4, <4>1
          <5>2. Wraps(n) /\ pre_rp < AfterWrite(n)
            BY <1>1, <1>5, <5>1
          <5>3. MovesPre(n)
            BY <1>1, <5>1, <5>2 DEF MovesPre
          <5> QED BY <3>2, <5>3
        <4>2. CASE Filled - base > CacheSize
          BY <1>0, <1>2, <3>2, <4>2 DEF Preserved
        <4> QED BY <1>1, <4>1, <4>2
      <3> QED BY <3>1, <3>2
    <2>5. Filled' - base' = Filled + n - base
      BY <1>1, <1>4, <1>10
    <2>6. Filled' - base' <= CacheSize =>
            pre_rp' = 0 /\ rp' = cur_pos' - base' /\ pre_size' = rp' /\ wp' = Filled' - base'
      BY <1>10, <2>3, <2>5
    <2>7. Filled' - base' > CacheSize => pre_rp' >= 1
      BY <2>4, <2>5
    <2> QED BY <2>1, <2>6, <2>7 DEF Preserved
  <1>8. Continues'
    <2>1. real_pos = Filled + n
      BY <1>0 DEF Continues
    <2>2. Len(tmp_buf') = 0
      OBVIOUS
    <2> QED BY <1>1, <1>4, <2>1, <2>2 DEF Continues
  <1>9. HoldsBytes'
    <2> SUFFICES ASSUME NEW p \in Int, base <= p, p < Filled', p >= Filled' - CacheSize
                 PROVE  data'[Place(p - base)] = p
      BY <1>10 DEF HoldsBytes
    <2>5. p < Filled + n /\ p >= Filled + n - CacheSize
      BY <1>1, <1>4
    <2>1. n <= CacheSize
      BY <1>1, <1>3
    <2>2. data'[Place(p - base)] =
            IF p >= Filled THEN tmp_buf[p - Filled + 1] ELSE data[Place(p - base)]
      BY <1>0, <2>1, <2>5, WriteBytes
    <2>3. CASE p >= Filled
      <3>1. PICK k \in 1 .. n : k = p - Filled + 1
        BY <1>1, <2>3, <2>5
      <3>2. tmp_buf[k] = Filled + k - 1
        BY <1>0 DEF Continues
      <3> QED BY <1>1, <2>2, <2>3, <3>1, <3>2
    <2>4. CASE ~(p >= Filled)
      <3>1. p < Filled /\ p >= Filled - CacheSize
        BY <1>1, <2>4, <2>5
      <3>2. data[Place(p - base)] = p
        BY <1>0, <3>1 DEF HoldsBytes
      <3> QED BY <2>2, <2>4, <3>2
    <2> QED BY <2>3, <2>4
  <1> QED BY <1>6, <1>7, <1>8, <1>9 DEF RingInv

-----------------------------------------------------------------------------
(* Both threads                                                             *)

LEMMA CacheStarts ==
  ASSUME CacheInit
  PROVE  CacheInv
  <1>1. CacheSize \in Int /\ CacheSize > 0 /\ Length \in Int /\ Length >= 0
        /\ FixPre \in Int /\ FixPre <= CacheSize
    BY CacheSizes
  <1>2. CacheTypes
    BY <1>1 DEF CacheInit, CacheIdle, CacheTypes, NoGoal, Nowhere
  <1>3. Handover
    BY DEF CacheInit, CacheIdle, Handover
  <1>4. rp = 0 /\ wp = 0 /\ pre_rp = 0 /\ pre_size = 0 /\ level = 0 /\ tmp_buf = <<>>
        /\ cur_pos = 0 /\ base = 0 /\ far = 0 /\ real_pos = 0
    BY DEF CacheInit, CacheIdle
  <1>5. Filled = 0 /\ Filled - base = 0 /\ cur_pos - base = 0
    BY <1>4 DEF Filled
  <1>6. Pointers
    <2>1. Same(rp, cur_pos - base) /\ Same(wp, Filled - base)
      BY <1>4, <1>5, SamePlaces
    <2> QED BY <1>1, <1>4, <2>1 DEF Pointers
  <1>7. Preserved
    BY <1>1, <1>4, <1>5 DEF Preserved
  <1>8. Continues
    BY <1>4, <1>5 DEF Continues
  <1>9. HoldsBytes
    BY <1>1, <1>4, <1>5 DEF HoldsBytes
  <1> QED BY <1>2, <1>3, <1>6, <1>7, <1>8, <1>9 DEF CacheInv, RingInv

(* A seek of the source is over: the ring is empty.                         *)
LEMMA ResumeKeeps ==
  ASSUME CacheTypes, Handover, seek_resume
  PROVE  RingInv' /\ CacheTypes'
  <1>1. CacheSize \in Int /\ CacheSize > 0 /\ Length \in Int /\ Length >= 0
        /\ FixPre \in Int /\ FixPre <= CacheSize
    BY CacheSizes
  <1>2. PICK g \in 0 .. Length : g = goal.pos
    BY DEF CacheTypes
  <1>3. /\ rp' = 0 /\ wp' = 0 /\ pre_rp' = 0 /\ pre_size' = 0 /\ level' = 0 /\ tmp_buf' = <<>>
        /\ cur_pos' = g /\ base' = g /\ far' = g /\ real_pos' = g
    BY <1>2 DEF seek_resume, Handover, ring, fill
  <1>4. Filled' = g /\ Filled' - base' = 0 /\ cur_pos' - base' = 0
    BY <1>1, <1>3 DEF Filled
  <1>5. Pointers'
    <2>1. Same(rp', cur_pos' - base') /\ Same(wp', Filled' - base')
      BY <1>3, <1>4, SamePlaces
    <2> QED BY <1>1, <1>3, <2>1 DEF Pointers
  <1>6. Preserved'
    BY <1>1, <1>3, <1>4 DEF Preserved
  <1>7. Continues'
    BY <1>1, <1>3, <1>4 DEF Continues
  <1>8. HoldsBytes'
    BY <1>1, <1>3, <1>4 DEF HoldsBytes
  <1>9. CacheTypes'
    BY <1>1, <1>3 DEF CacheTypes, seek_resume, ring, NoGoal
  <1> QED BY <1>5, <1>6, <1>7, <1>8, <1>9 DEF RingInv

(* What the thread reads continues what it has written.                     *)
LEMMA FetchKeeps ==
  ASSUME CacheTypes, Handover, fill_read
  PROVE  CacheTypes' /\ (RingInv => RingInv')
  <1>1. ReadPerTime \in Int /\ Length \in Int /\ real_pos \in 0 .. Length /\ tmp_buf = <<>>
    BY CacheSizes DEF CacheTypes, Handover, fill_read
  <1>2. PICK n \in Int : /\ n >= 1 /\ n <= Length - real_pos
                         /\ tmp_buf' = [k \in 1 .. n |-> real_pos + k - 1]
                         /\ real_pos' = real_pos + n
    <2>1. PICK n \in 1 .. Least(ReadPerTime, Length - real_pos) :
            /\ tmp_buf' = [k \in 1 .. n |-> real_pos + k - 1]
            /\ real_pos' = real_pos + n
      BY DEF fill_read
    <2>2. PICK r \in Int : r = Length - real_pos
      BY <1>1
    <2>3. Least(ReadPerTime, r) \in Int /\ Least(ReadPerTime, r) <= r
      BY <1>1, LeastOf
    <2> QED BY <2>1, <2>2, <2>3
  <1>3. tmp_buf' \in Seq(Int) /\ Len(tmp_buf') = n /\ DOMAIN tmp_buf' = 1 .. n
    BY <1>1, <1>2
  <1>4. real_pos' \in 0 .. Length
    BY <1>1, <1>2
  <1>5. UNCHANGED <<ring, reader>>
    BY DEF fill_read
  <1>6. CacheTypes'
    BY <1>3, <1>4, <1>5 DEF CacheTypes, ring, reader
  <1>7. ASSUME RingInv PROVE RingInv'
    <2>1. Filled' = Filled /\ Filled \in Int
      <3>1. Pointers
        BY <1>7 DEF RingInv
      <3> QED BY <1>5, <3>1, RingTypes DEF Filled, ring, reader
    <2>2. Pointers' /\ Preserved' /\ HoldsBytes'
      BY <1>5, <1>7, <2>1 DEF RingInv, Pointers, Preserved, HoldsBytes, ring, reader
    <2>3. real_pos = Filled
      BY <1>1, <1>7, <2>1 DEF RingInv, Continues
    <2>4. Continues'
      BY <1>1, <1>2, <1>3, <2>1, <2>3 DEF Continues
    <2> QED BY <2>2, <2>4 DEF RingInv
  <1> QED BY <1>6, <1>7

LEMMA StoreKeeps ==
  ASSUME CacheTypes, Handover, fill_write
  PROVE  CacheTypes' /\ (RingInv => RingInv')
  <1>1. PICK n \in Int : n = Len(tmp_buf) /\ n >= 0 /\ n <= cache_space /\ cache_space \in Int
    BY CacheSizes DEF CacheTypes, Handover, fill_write, cache_space
  <1>2. Least(cache_space, Len(tmp_buf)) = n
    BY <1>1 DEF Least
  <1>3. UNCHANGED <<real_pos, rp, cur_pos, base, far, goal>>
    BY DEF fill_write, ring, reader, cache_write
  <1>4. CASE n = 0
    <2>1. UNCHANGED <<ring, tmp_buf>>
      BY <1>2, <1>4 DEF fill_write
    <2>2. CacheTypes'
      BY <1>3, <2>1 DEF CacheTypes, ring
    <2>3. RingInv => RingInv'
      BY <1>3, <2>1 DEF RingInv, Pointers, Preserved, Continues, HoldsBytes, Filled, ring
    <2> QED BY <2>2, <2>3
  <1>5. CASE n # 0
    <2>1. cache_write(n) /\ tmp_buf' = <<>>
      BY <1>2, <1>5 DEF fill_write
    <2>2. RingInv => RingInv'
      BY <1>1, <1>3, <1>5, <2>1, WriteKeeps
    <2>3. CacheTypes'
      <3>1. wp \in Int /\ rp \in Int /\ level \in Int /\ pre_rp \in Int /\ pre_size \in Int
            /\ CacheSize \in Int /\ CacheSize > 0
        BY CacheSizes DEF CacheTypes
      <3>2. AfterWrite(n) \in Int /\ PreSizeAfter(n) \in Int
        BY <3>1 DEF AfterWrite, PreSizeAfter, ToEnd
      <3>3. wp' \in Int /\ level' \in Int /\ pre_rp' \in Int /\ pre_size' \in Int
        BY <2>1, <3>1, <3>2 DEF cache_write
      <3>4. data' \in [0 .. CacheSize - 1 -> Int]
        <4>1. ASSUME NEW i \in 0 .. CacheSize - 1
              PROVE  (IF (i - wp) % CacheSize < n THEN tmp_buf[((i - wp) % CacheSize) + 1]
                      ELSE data[i]) \in Int
          <5>1. PICK x \in Int : x = i - wp
            BY <3>1
          <5>2. x % CacheSize \in 0 .. CacheSize - 1
            BY <3>1
          <5>3. PICK k \in Int : k = x % CacheSize /\ k >= 0
            BY <3>1, <5>2
          <5>4. k < n => tmp_buf[k + 1] \in Int
            BY <1>1, <5>3 DEF CacheTypes
          <5>5. data[i] \in Int
            BY DEF CacheTypes
          <5> QED BY <5>1, <5>3, <5>4, <5>5
        <4>2. data' = [i \in 0 .. CacheSize - 1 |->
                         IF (i - wp) % CacheSize < n THEN tmp_buf[((i - wp) % CacheSize) + 1]
                         ELSE data[i]]
          <5>1. DOMAIN data = 0 .. CacheSize - 1
            BY DEF CacheTypes
          <5> QED BY <2>1, <5>1 DEF cache_write
        <4> QED BY <4>1, <4>2
      <3> QED BY <1>3, <2>1, <3>1, <3>3, <3>4 DEF CacheTypes
    <2> QED BY <2>2, <2>3
  <1> QED BY <1>4, <1>5

(* A step that leaves the ring, what is read and the positions alone.       *)
LEMMA RestKeeps ==
  ASSUME UNCHANGED <<ring, tmp_buf, real_pos, cur_pos, base, far>>
  PROVE  RingInv => RingInv'
  BY DEF RingInv, Pointers, Preserved, Continues, HoldsBytes, Filled, ring

LEMMA RealOnCourse ==
  ASSUME seek_real, NotAstray'
  PROVE  RealSeek = goal.pos
  <1>1. {way \in {"relative"} : RealSeek # goal.pos} = {}
    BY DEF seek_real, NotAstray
  <1>2. "relative" \notin {way \in {"relative"} : RealSeek # goal.pos}
    BY <1>1
  <1> QED BY <1>2

LEMMA DataKeeps ==
  ASSUME CacheInv, NotAstray', CacheNext
  PROVE  CacheTypes' /\ (rpc = "idle" => RingInv)'
  <1>1. CacheTypes /\ Handover /\ (rpc = "idle" => RingInv)
    BY DEF CacheInv
  <1>2. CASE fill_flag \/ fill_mark \/ fill_check \/ fill_eof \/ fill_space \/ stream_cache_close
             \/ seek_wait
    <2>1. /\ UNCHANGED <<ring, tmp_buf, real_pos, cur_pos, base, far, goal>>
          /\ rpc' = "idle" => rpc = "idle"
      BY <1>2 DEF fill_flag, fill_mark, fill_check, fill_eof, fill_space, stream_cache_close,
                  seek_wait, fill, reader
    <2>2. CacheTypes'
      BY <1>1, <2>1 DEF CacheTypes, ring
    <2> QED BY <1>1, <2>1, <2>2, RestKeeps
  <1>3. CASE fill_clean
    <2>1. rpc # "idle" /\ rpc' = rpc
      BY <1>1, <1>3 DEF fill_clean, Handover, reader
    <2>2. CacheTypes'
      BY <1>1, <1>3 DEF fill_clean, CacheTypes, ring, reader
    <2> QED BY <2>1, <2>2
  <1>4. CASE fill_read
    <2>1. rpc' = rpc
      BY <1>4 DEF fill_read, reader
    <2> QED BY <1>1, <1>4, <2>1, FetchKeeps
  <1>5. CASE fill_write
    <2>1. rpc' = rpc
      BY <1>5 DEF fill_write, reader
    <2> QED BY <1>1, <1>5, <2>1, StoreKeeps
  <1>6. CASE \E len \in 1 .. MaxRead : stream_cache_read(len)
    <2>1. PICK len \in 1 .. MaxRead : stream_cache_read(len)
      BY <1>6
    <2>2. len \in Int /\ len > 0
      BY StreamCacheAssumption
    <2>3. RingInv
      BY <1>1, <2>1 DEF stream_cache_read
    <2> QED BY <1>1, <2>1, <2>2, <2>3, ReadKeeps
  <1>7. CASE \E aim \in 0 .. Length : seek_in_cache(aim)
    <2>1. PICK aim \in 0 .. Length : seek_in_cache(aim)
      BY <1>7
    <2>2. RingInv
      BY <1>1, <2>1 DEF seek_in_cache, MaySeek
    <2>3. Astray(aim) = {}
      BY <2>1 DEF seek_in_cache, NotAstray
    <2> QED BY <1>1, <2>1, <2>2, <2>3, SeekKeeps
  <1>8. CASE \E aim \in 0 .. Length : \E whence \in Whence : seek_pause(aim, whence)
    <2>1. PICK aim \in 0 .. Length, whence \in Whence : seek_pause(aim, whence)
      BY <1>8
    <2>3. CacheTypes'
      BY <1>1, <2>1 DEF seek_pause, CacheTypes, ring, fill
    <2>4. rpc' # "idle"
      BY <2>1 DEF seek_pause
    <2> QED BY <2>3, <2>4
  <1>9. CASE seek_real
    <2>1. real_pos' \in 0 .. Length
      BY <1>1, <1>9, RealOnCourse DEF seek_real, CacheTypes
    <2>2. UNCHANGED <<data, tmp_buf, cur_pos, base, far, goal>>
          /\ rp' = 0 /\ wp' = 0 /\ pre_rp' = 0 /\ pre_size' = 0 /\ level' = 0 /\ rpc' = "resume"
      BY <1>9 DEF seek_real, cache_reset, fill
    <2>3. CacheTypes'
      BY <1>1, <2>1, <2>2 DEF CacheTypes
    <2> QED BY <2>2, <2>3
  <1>10. CASE seek_resume
    BY <1>1, <1>10, ResumeKeeps
  <1>11. CASE stop_cache_thread
    <2>1. rpc' # "idle"
      BY <1>11 DEF stop_cache_thread
    <2>2. CacheTypes'
      BY <1>1, <1>11 DEF stop_cache_thread, CacheTypes, ring, fill
    <2> QED BY <2>1, <2>2
  <1> QED BY <1>2, <1>3, <1>4, <1>5, <1>6, <1>7, <1>8, <1>9, <1>10, <1>11
          DEF CacheNext, cache_thread, stream_cache_seek

(* The thread's steps and the hand-over.                                    *)
LEMMA ThreadHands ==
  ASSUME CacheInv, cache_thread
  PROVE  Handover'
  <1>1. Handover
    BY DEF CacheInv
  <1>2. CASE fill_flag
    BY <1>1, <1>2 DEF fill_flag, Handover, ring, reader, cache_space
  <1>3. CASE fill_mark
    BY <1>1, <1>3 DEF fill_mark, Handover, ring, reader
  <1>4. CASE fill_check
    BY <1>1, <1>4 DEF fill_check, Handover, ring, reader
  <1>5. CASE fill_clean
    BY <1>1, <1>5 DEF fill_clean, Handover, ring, reader
  <1>6. CASE fill_read
    BY <1>1, <1>6 DEF fill_read, Handover, ring, reader
  <1>7. CASE fill_eof
    BY <1>1, <1>7 DEF fill_eof, Handover, ring, reader
  <1>8. CASE fill_space
    <2>1. Len(tmp_buf) \in Int /\ cache_space \in Int
      BY CacheSizes DEF CacheInv, CacheTypes, cache_space
    <2>2. cache_space' = cache_space /\ tmp_buf' = tmp_buf
      BY <1>8 DEF fill_space, ring, cache_space
    <2>3. fpc' = "write" => cache_space >= Len(tmp_buf)
      BY <1>8, <2>1 DEF fill_space
    <2> QED BY <1>1, <1>8, <2>2, <2>3 DEF fill_space, Handover, ring, reader
  <1>9. CASE fill_write
    <2>1. fpc' = "top" /\ UNCHANGED <<cache_flag, cache_status, real_pos, rpc, goal>>
      BY <1>9 DEF fill_write, reader
    <2> QED BY <1>1, <1>9, <2>1 DEF fill_write, Handover
  <1> QED BY <1>2, <1>3, <1>4, <1>5, <1>6, <1>7, <1>8, <1>9 DEF cache_thread

(* The demuxer's steps and the hand-over.                                   *)
LEMMA DemuxerHands ==
  ASSUME CacheInv, Prompt, NotAstray', CacheNext, ~cache_thread
  PROVE  Handover'
  <1>1. Handover /\ Prompt
    BY DEF CacheInv
  <1>2. CASE \E len \in 1 .. MaxRead : stream_cache_read(len)
    <2>1. /\ rpc = "idle" /\ fpc \notin Adjacent
          /\ UNCHANGED <<cache_flag, cache_status, fpc, tmp_buf, real_pos, rpc, goal>>
      BY <1>1, <1>2 DEF stream_cache_read, Undisturbed, fill
    <2> QED BY <1>1, <2>1 DEF Handover, Adjacent
  <1>3. CASE \E aim \in 0 .. Length : seek_in_cache(aim)
    <2>1. /\ rpc = "idle" /\ fpc \notin Adjacent
          /\ UNCHANGED <<cache_flag, cache_status, fpc, tmp_buf, real_pos, rpc, goal>>
      BY <1>1, <1>3 DEF seek_in_cache, MaySeek, Undisturbed, fill
    <2> QED BY <1>1, <2>1 DEF Handover, Adjacent
  <1>4. CASE \E aim \in 0 .. Length : \E whence \in Whence : seek_pause(aim, whence)
    <2>1. /\ rpc = "idle" /\ rpc' = "pause" /\ fpc \notin Adjacent
          /\ UNCHANGED <<cache_status, fpc, tmp_buf, real_pos>>
      BY <1>1, <1>4 DEF seek_pause, MaySeek, Undisturbed, fill
    <2> QED BY <1>1, <2>1 DEF Handover, Adjacent
  <1>5. CASE seek_wait
    BY <1>1, <1>5 DEF seek_wait, Handover, ring, fill, Undisturbed, Adjacent
  <1>6. CASE seek_real
    <2>1. /\ rpc' = "resume" /\ cache_flag' = "NULL" /\ fpc \notin Adjacent
          /\ UNCHANGED <<cache_status, fpc, tmp_buf, goal>>
          /\ level' = 0 /\ pre_size' = 0 /\ rp' = 0 /\ wp' = 0 /\ pre_rp' = 0
      BY <1>1, <1>6 DEF seek_real, cache_reset, Undisturbed, fill
    <2>2. real_pos' = goal.pos
      BY <1>6, RealOnCourse DEF seek_real
    <2>3. cache_status = "IDLE" /\ fpc = "top"
      BY <1>1, <1>6, <2>1 DEF seek_real, Handover, Adjacent
    <2> QED BY <1>1, <2>1, <2>2, <2>3 DEF Handover
  <1>7. CASE seek_resume
    <2>1. /\ rpc' = "idle" /\ cache_flag' = "NULL" /\ cache_status' = "RUNNING"
          /\ fpc' = fpc /\ fpc \notin Adjacent /\ tmp_buf' = tmp_buf /\ rpc = "resume"
      BY <1>1, <1>7 DEF seek_resume, Undisturbed, fill
    <2> QED BY <1>1, <2>1 DEF Handover, Adjacent
  <1>8. CASE stop_cache_thread
    <2>1. /\ rpc' = "join" /\ cache_flag' = "NULL" /\ cache_status' = "QUIT"
          /\ fpc' = fpc /\ fpc \notin Adjacent /\ tmp_buf' = tmp_buf
      BY <1>1, <1>8 DEF stop_cache_thread, Undisturbed, fill
    <2> QED BY <1>1, <2>1 DEF Handover, Adjacent
  <1>9. CASE stream_cache_close
    <2>1. /\ rpc = "join" /\ rpc' = "closed"
          /\ UNCHANGED <<ring, cache_flag, cache_status, fpc, tmp_buf>>
      BY <1>9 DEF stream_cache_close, fill
    <2> QED BY <1>1, <2>1 DEF Handover, ring, cache_space
  <1> QED BY <1>2, <1>3, <1>4, <1>5, <1>6, <1>7, <1>8, <1>9
          DEF CacheNext, stream_cache_seek

(* What the demuxer reads is the file, and so is what lies preserved behind *)
(* its position, across wraps, seeks in the ring and seeks of the source,   *)
(* until a seek goes elsewhere in one of the named ways: whatever the       *)
(* sizes, when the two threads are timely.                                  *)
THEOREM CacheKeepsFile == Prompt => (CacheSpec => []CacheHoldsFile)
<1> SUFFICES ASSUME Prompt PROVE CacheSpec => []CacheHoldsFile
  OBVIOUS
<1> DEFINE Inv == NotAstray => CacheInv
<1>1. CacheInit => Inv
  BY CacheStarts
<1>2. Inv /\ [CacheNext]_cache_vars => Inv'
  <2> SUFFICES ASSUME Inv, [CacheNext]_cache_vars, NotAstray' PROVE CacheInv'
    OBVIOUS
  <2>1. NotAstray
    <3>1. strays \subseteq strays'
      BY DEF CacheNext, cache_thread, stream_cache_seek, fill_flag, fill_mark, fill_check,
             fill_clean, fill_read, fill_eof, fill_space, fill_write, stream_cache_read,
             seek_in_cache, seek_pause, seek_wait, seek_real, seek_resume,
             stop_cache_thread, stream_cache_close, reader, cache_vars
    <3> QED BY <3>1 DEF NotAstray
  <2>2. CacheInv
    BY <2>1
  <2>3. CASE CacheNext
    <3>1. Handover'
      BY <2>2, <2>3, ThreadHands, DemuxerHands
    <3> QED BY <2>2, <2>3, <3>1, DataKeeps DEF CacheInv
  <2>4. CASE UNCHANGED cache_vars
    <3>1. UNCHANGED <<ring, cache_flag, cache_status, fpc, tmp_buf, real_pos, rpc, cur_pos, goal, base, far>>
      BY <2>4 DEF cache_vars, fill, reader
    <3>2. CacheTypes' /\ Handover'
      BY <2>2, <3>1 DEF CacheInv, CacheTypes, Handover, ring, cache_space
    <3> QED BY <2>2, <3>1, <3>2, RestKeeps DEF CacheInv
  <2> QED BY <2>3, <2>4
<1>3. Inv => CacheHoldsFile
  BY CacheHolds DEF CacheHoldsFile, NotAstray
<1> QED BY <1>1, <1>2, <1>3, PTL DEF CacheSpec

-----------------------------------------------------------------------------
(* The clock                                                                *)

(* The threshold in ticks, and what its comparison in milliseconds means.   *)
Margin == Threshold * FreqMs

LEMMA MarginIs == Margin \in Nat \ {0}
<1>1. \A a, b \in Nat \ {0} : a * b \in Nat \ {0} OBVIOUS
<1> QED BY <1>1, ClockAssumption DEF Margin

\* A quotient rounded down below t is of a number below t times the divisor.
LEMMA Truncated ==
  ASSUME NEW a \in Nat, NEW c \in Nat \ {0}, NEW t \in Nat, a \div c < t
  PROVE  a < t * c
<1>1. a \div c \in Int /\ a % c \in 0 .. c - 1 OBVIOUS
<1>2. a = c * (a \div c) + (a % c) OBVIOUS
<1> DEFINE q == a \div c
           r == a % c
<1>3. q \in Int /\ r \in 0 .. c - 1 /\ a = c * q + r /\ q + 1 <= t BY <1>1, <1>2
<1> HIDE DEF q, r
<1>4. c * (q + 1) <= c * t
  <2>1. t - (q + 1) \in Nat BY <1>3
  <2>2. \A x, y \in Nat : x * y \in Nat OBVIOUS
  <2>3. c * (t - (q + 1)) \in Nat BY <2>1, <2>2
  <2>4. c * (t - (q + 1)) = c * t - c * (q + 1) BY <1>3
  <2>5. c * t \in Int /\ c * (q + 1) \in Int BY <1>3
  <2> QED BY <2>3, <2>4, <2>5
<1>5. c * (q + 1) = c * q + c BY <1>3
<1>6. c * q \in Int /\ c * t \in Int /\ c * t = t * c BY <1>3
<1> QED BY <1>3, <1>4, <1>5, <1>6

\* What host_update_apts leaves alone is off by less than the threshold.
LEMMA WithinThreshold ==
  ASSUME NEW x \in Int, NEW y \in Int, Abs(x - y) \div FreqMs < Threshold
  PROVE  y < x + Margin
<1>1. Abs(x - y) \in Nat /\ y - x <= Abs(x - y) BY DEF Abs
<1>2. FreqMs \in Nat \ {0} /\ Threshold \in Nat BY ClockAssumption
<1>3. Abs(x - y) < Margin BY <1>1, <1>2, Truncated DEF Margin
<1>4. Margin \in Int BY MarginIs
<1> QED BY <1>1, <1>3, <1>4

(* Every time stamp is above zero, and so none is NoPts.                    *)
LEMMA Stamps ==
  ASSUME NEW p \in Nat, file.jump \in Jumps
  PROVE  Pts(p) \in Int /\ Pts(p) > 0
<1> DEFINE jump == file.jump
<1>1. jump \in Jumps OBVIOUS
<1> HIDE DEF jump
<1>2. First \in Nat \ {0} /\ Content \in Nat BY ClockAssumption
<1>3. Cut \in 0 .. Content /\ Jumps \subseteq Int BY ClockAssumption
<1>4. First \in Nat /\ Cut \in Nat /\ jump \in Int BY <1>1, <1>2, <1>3
<1>5. First + Cut + jump > 0 BY <1>1, ClockAssumption
<1>6. Pts(p) = First + p + (IF p < Cut THEN 0 ELSE jump) BY DEF Pts, jump
<1>7. CASE p < Cut BY <1>2, <1>4, <1>6, <1>7
<1>8. CASE ~(p < Cut) BY <1>4, <1>5, <1>6, <1>8
<1> QED BY <1>7, <1>8

-----------------------------------------------------------------------------
(* What the host's functions do to its context                              *)

Hosts ==
  [apts : Int, vpts : Int, start : Int, current : Int, age : 0 .. MaxAge,
   mode : {"AUDIO_MASTER", "VIDEO_MASTER"}, enable : BOOLEAN,
   aflag : BOOLEAN, apoint : Int, vflag : BOOLEAN, vpoint : Int]

\* The clock goes on, or stands at time and begins anew.
Going(h, g) == g.start = h.start /\ g.current = h.current /\ g.age = h.age
Reset(g, time) == g.start = time /\ g.current = time /\ g.age = 0
\* What is heard and shown, and whether they are kept together, stays.
Kept(h, g) == g.apts = h.apts /\ g.vpts = h.vpts /\ g.enable = h.enable

\* Resetting the clock: it stands at time, and nothing else has changed.
LEMMA ResetIs ==
  ASSUME NEW h \in Hosts, NEW time \in Int
  PROVE  LET g == host_reset_systime(h, time)
         IN  g \in Hosts /\ Reset(g, time) /\ Kept(h, g) /\ g.mode = h.mode
<1>1. 0 \in 0 .. MaxAge BY ClockAssumption
<1> DEFINE a == [h EXCEPT !.start = time]
           b == [a EXCEPT !.current = time]
           c == [b EXCEPT !.age = 0]
<1>2. a \in Hosts BY DEF Hosts
<1>3. a.start = time /\ Kept(h, a) /\ a.mode = h.mode BY DEF Hosts, Kept
<1> HIDE DEF a
<1>4. b \in Hosts BY <1>2 DEF Hosts
<1>5. b.start = a.start /\ b.current = time /\ Kept(a, b) /\ b.mode = a.mode BY <1>2 DEF Hosts, Kept
<1> HIDE DEF b
<1>6. c \in Hosts BY <1>1, <1>4 DEF Hosts
<1>7. c.start = b.start /\ c.current = b.current /\ c.age = 0 /\ Kept(b, c) /\ c.mode = b.mode BY <1>4 DEF Hosts, Kept
<1> HIDE DEF c
<1>8. host_reset_systime(h, time) = c BY DEF a, b, c, host_reset_systime, Hosts
<1> QED BY <1>3, <1>5, <1>6, <1>7, <1>8 DEF Reset, Kept

\* Writing the clock down: where it has run to, or, not set yet, the time given.
LEMMA UpdateIs ==
  ASSUME NEW h \in Hosts, NEW time \in Int
  PROVE  LET g == host_update_systime(h, time)
         IN  /\ g \in Hosts /\ Kept(h, g) /\ g.mode = h.mode
             /\ h.current = NoPts => Reset(g, time)
             /\ h.current # NoPts => g.start = h.start /\ g.age = h.age /\ g.current = h.start + h.age
<1>1. CASE h.current = NoPts BY <1>1, ResetIs DEF host_update_systime
<1>2. CASE h.current # NoPts
  <2>1. h.start + h.age \in Int BY DEF Hosts
  <2> DEFINE g == [h EXCEPT !.current = h.start + h.age]
  <2>2. g \in Hosts BY <2>1 DEF Hosts
  <2>3. /\ Kept(h, g) /\ g.mode = h.mode
        /\ g.start = h.start /\ g.age = h.age /\ g.current = h.start + h.age BY DEF Hosts, Kept
  <2>4. host_update_systime(h, time) = g BY <1>2 DEF host_update_systime
  <2> HIDE DEF g
  <2> QED BY <1>2, <2>2, <2>3, <2>4
<1> QED BY <1>1, <1>2

\* Giving the lead to either stream moves no clock.
LEMMA ModeIs ==
  ASSUME NEW h \in Hosts, NEW m \in {"AUDIO_MASTER", "VIDEO_MASTER"}
  PROVE  LET g == [h EXCEPT !.mode = m] IN g \in Hosts /\ Going(h, g) /\ Kept(h, g)
BY DEF Hosts, Going, Kept

\* Nor does taking it back.
LEMMA MasterIs ==
  ASSUME NEW h \in Hosts
  PROVE  Master(h) \in Hosts /\ Going(h, Master(h)) /\ Kept(h, Master(h))
<1>1. Going(h, h) /\ Kept(h, h) BY DEF Going, Kept
<1>2. CASE Master(h) = h BY <1>1, <1>2
<1>3. CASE Master(h) = [h EXCEPT !.mode = "AUDIO_MASTER"] BY <1>3, ModeIs
<1> QED BY <1>2, <1>3 DEF Master

\* Noting a time stamp, with or without a discontinuity, moves no clock.
LEMMA NoteAptsIs ==
  ASSUME NEW h \in Hosts, NEW apts \in Int
  PROVE  LET n == NoteApts(h, apts)
         IN  n \in Hosts /\ Going(h, n) /\ n.apts = apts /\ n.vpts = h.vpts /\ n.enable = h.enable
<1> DEFINE jump == Jumped(h.apts, apts)
           f == h.aflag \/ jump
           p == IF jump THEN apts ELSE h.apoint
           a == [h EXCEPT !.apts = apts]
           b == [a EXCEPT !.aflag = f]
           c == [b EXCEPT !.apoint = p]
<1>1. f \in BOOLEAN /\ p \in Int BY DEF Hosts, Jumped
<1>2. NoteApts(h, apts) = c BY DEF NoteApts, Hosts
<1> HIDE DEF jump, f, p
<1>3. a \in Hosts BY DEF Hosts
<1>4. Going(h, a) /\ a.apts = apts /\ a.vpts = h.vpts /\ a.enable = h.enable BY DEF Hosts, Going
<1> HIDE DEF a
<1>5. b \in Hosts BY <1>1, <1>3 DEF Hosts
<1>6. Going(a, b) /\ Kept(a, b) BY <1>3 DEF Hosts, Going, Kept
<1> HIDE DEF b
<1>7. c \in Hosts BY <1>1, <1>5 DEF Hosts
<1>8. Going(b, c) /\ Kept(b, c) BY <1>5 DEF Hosts, Going, Kept
<1> HIDE DEF c
<1> QED BY <1>2, <1>4, <1>6, <1>7, <1>8 DEF Going, Kept

\* The same for the pictures.
LEMMA NoteVptsIs ==
  ASSUME NEW h \in Hosts, NEW vpts \in Int
  PROVE  LET n == NoteVpts(h, vpts)
         IN  n \in Hosts /\ Going(h, n) /\ n.vpts = vpts /\ n.apts = h.apts /\ n.enable = h.enable
<1> DEFINE jump == Jumped(h.vpts, vpts)
           f == h.vflag \/ jump
           p == IF jump THEN vpts ELSE h.vpoint
           a == [h EXCEPT !.vpts = vpts]
           b == [a EXCEPT !.vflag = f]
           c == [b EXCEPT !.vpoint = p]
<1>1. f \in BOOLEAN /\ p \in Int BY DEF Hosts, Jumped
<1>2. NoteVpts(h, vpts) = c BY DEF NoteVpts, Hosts
<1> HIDE DEF jump, f, p
<1>3. a \in Hosts BY DEF Hosts
<1>4. Going(h, a) /\ a.vpts = vpts /\ a.apts = h.apts /\ a.enable = h.enable BY DEF Hosts, Going
<1> HIDE DEF a
<1>5. b \in Hosts BY <1>1, <1>3 DEF Hosts
<1>6. Going(a, b) /\ Kept(a, b) BY <1>3 DEF Hosts, Going, Kept
<1> HIDE DEF b
<1>7. c \in Hosts BY <1>1, <1>5 DEF Hosts
<1>8. Going(b, c) /\ Kept(b, c) BY <1>5 DEF Hosts, Going, Kept
<1> HIDE DEF c
<1> QED BY <1>2, <1>4, <1>6, <1>7, <1>8 DEF Going, Kept

\* A round of the sound: the clock goes on or is set to the sound, and when the
\* streams are kept together and are not apart, it is right by the threshold.
LEMMA AptsIs ==
  ASSUME NEW h \in Hosts, NEW apts \in Int, NEW closed \in BOOLEAN, NEW has_video \in BOOLEAN
  PROVE  LET g == host_update_apts(h, apts, closed, has_video)
         IN  /\ g \in Hosts /\ g.apts = apts /\ g.vpts = h.vpts /\ g.enable = h.enable
             /\ has_video => Going(h, g) \/ (h.current # NoPts /\ Reset(g, apts))
             /\ has_video /\ h.enable /\ ~closed /\ h.current # NoPts /\ ~Apart(g)
                  => Reset(g, apts) \/ Abs(apts - h.current) \div FreqMs < Threshold
<1> DEFINE n == NoteApts(h, apts)
           m == Master(n)
           v == [n EXCEPT !.mode = "VIDEO_MASTER"]
           r == host_reset_systime(m, apts)
           g == host_update_apts(h, apts, closed, has_video)
           Fine == Abs(apts - n.current) \div FreqMs < Threshold
           Check == n.enable /\ ~closed /\ n.current # NoPts
<1>1. n \in Hosts /\ Going(h, n) /\ n.apts = apts /\ n.vpts = h.vpts /\ n.enable = h.enable
  BY NoteAptsIs
<1>2. m \in Hosts /\ Going(n, m) /\ Kept(n, m)
  <2> HIDE DEF n
  <2> QED BY <1>1, MasterIs
<1>3. v \in Hosts /\ Going(n, v) /\ Kept(n, v)
  <2> HIDE DEF n
  <2> QED BY <1>1, ModeIs
<1>4. r \in Hosts /\ Reset(r, apts) /\ Kept(m, r)
  <2> HIDE DEF m
  <2> QED BY <1>2, ResetIs
<1>5. CASE ~has_video
  <2> DEFINE s == IF n.start = NoPts THEN apts ELSE n.start
             a == [n EXCEPT !.current = apts]
             b == [a EXCEPT !.start = s]
  <2>1. n \in Hosts BY <1>1
  <2> HIDE DEF n
  <2>2. s \in Int BY <2>1 DEF Hosts
  <2>3. a \in Hosts /\ Kept(n, a) /\ a.start = n.start BY <2>1 DEF Hosts, Kept
  <2>4. [n EXCEPT !.current = apts, !.start = IF @ = NoPts THEN apts ELSE @] = b BY <2>1 DEF Hosts
  <2> HIDE DEF s, a
  <2>5. b \in Hosts /\ Kept(a, b) BY <2>2, <2>3 DEF Hosts, Kept
  <2> HIDE DEF b
  <2>6. g = b BY <1>5, <2>4 DEF host_update_apts, n
  <2> HIDE DEF g
  <2> QED BY <1>1, <1>5, <2>3, <2>5, <2>6 DEF Kept, g
<1>6. CASE has_video /\ ~Check
  <2>1. g = n BY <1>6 DEF host_update_apts
  <2>2. n.enable = h.enable /\ n.current = h.current BY <1>1 DEF Going
  <2>3. ~(h.enable /\ ~closed /\ h.current # NoPts) BY <1>6, <2>2
  <2> HIDE DEF n, g
  <2> QED BY <1>1, <2>1, <2>3 DEF g
<1>7. CASE has_video /\ Check /\ Apart(n)
  <2>1. g = v BY <1>7 DEF host_update_apts
  <2>2. Apart(v)
    <3> HIDE DEF n, v
    <3> QED BY <1>3, <1>7 DEF Apart, AvDiff, Kept
  <2> HIDE DEF n, v, g
  <2> QED BY <1>1, <1>3, <2>1, <2>2 DEF g, Going, Kept
<1>8. CASE has_video /\ Check /\ ~Apart(n) /\ Fine
  <2>1. g = m BY <1>8 DEF host_update_apts
  <2>2. Abs(apts - h.current) \div FreqMs < Threshold BY <1>1, <1>8 DEF Going
  <2> HIDE DEF n, m, g
  <2> QED BY <1>1, <1>2, <2>1, <2>2 DEF g, Going, Kept
<1>9. CASE has_video /\ Check /\ ~Apart(n) /\ ~Fine
  <2>1. g = r BY <1>9 DEF host_update_apts
  <2>2. h.current # NoPts BY <1>1, <1>9 DEF Going
  <2> HIDE DEF n, m, r, g
  <2> QED BY <1>1, <1>2, <1>4, <2>1, <2>2 DEF g, Kept
<1> QED BY <1>5, <1>6, <1>7, <1>8, <1>9

\* A picture taken: the clock goes on or is set to it, and goes on when the
\* streams are kept together and are not apart.
LEMMA VptsIs ==
  ASSUME NEW h \in Hosts, NEW vpts \in Int
  PROVE  LET g == host_update_vpts(h, vpts)
         IN  /\ g \in Hosts /\ g.vpts = vpts /\ g.apts = h.apts /\ g.enable = h.enable
             /\ Going(h, g) \/ (h.current # NoPts /\ Reset(g, vpts))
             /\ h.enable /\ h.current # NoPts /\ ~Apart(g) => Going(h, g)
<1> DEFINE n == NoteVpts(h, vpts)
           r == host_reset_systime(n, vpts)
           c == IF Abs(n.current - vpts) > Threshold THEN r ELSE n
           m == Master(n)
           v == [c EXCEPT !.mode = "VIDEO_MASTER"]
           g == host_update_vpts(h, vpts)
<1>1. n \in Hosts /\ Going(h, n) /\ n.vpts = vpts /\ n.apts = h.apts /\ n.enable = h.enable
  BY NoteVptsIs
<1>2. m \in Hosts /\ Going(n, m) /\ Kept(n, m)
  <2> HIDE DEF n
  <2> QED BY <1>1, MasterIs
<1>3. r \in Hosts /\ Reset(r, vpts) /\ Kept(n, r)
  <2> HIDE DEF n
  <2> QED BY <1>1, ResetIs
<1>4. c \in Hosts /\ Kept(n, c) /\ (Going(n, c) \/ Reset(c, vpts))
  <2>1. CASE c = r BY <1>3, <2>1
  <2>2. CASE c = n BY <1>1, <2>2 DEF Going, Kept
  <2> QED BY <2>1, <2>2
<1>5. v \in Hosts /\ Going(c, v) /\ Kept(c, v)
  <2> HIDE DEF c
  <2> QED BY <1>4, ModeIs
<1>6. CASE n.current = NoPts
  <2>1. g = n BY <1>6 DEF host_update_vpts
  <2> HIDE DEF n, g
  <2> QED BY <1>1, <2>1 DEF g
<1>7. CASE n.current # NoPts /\ ~n.enable
  <2>1. g = c BY <1>7 DEF host_update_vpts
  <2>2. ~h.enable /\ h.current # NoPts BY <1>1, <1>7 DEF Going
  <2> HIDE DEF n, c, g
  <2> QED BY <1>1, <1>4, <2>1, <2>2 DEF g, Going, Kept
<1>8. CASE n.current # NoPts /\ n.enable /\ Apart(n)
  <2>1. g = v BY <1>8 DEF host_update_vpts
  <2>2. Apart(v)
    <3> HIDE DEF n, v, c
    <3> QED BY <1>4, <1>5, <1>8 DEF Apart, AvDiff, Kept
  <2>3. h.current # NoPts BY <1>1, <1>8 DEF Going
  <2> HIDE DEF n, c, v, g
  <2> QED BY <1>1, <1>4, <1>5, <2>1, <2>2, <2>3 DEF g, Going, Reset, Kept
<1>9. CASE n.current # NoPts /\ n.enable /\ ~Apart(n)
  <2>1. g = m BY <1>9 DEF host_update_vpts
  <2> HIDE DEF n, m, g
  <2> QED BY <1>1, <1>2, <2>1 DEF g, Going, Kept
<1> QED BY <1>6, <1>7, <1>8, <1>9

-----------------------------------------------------------------------------
(* Types.  The host's record is named, so that the lemmas above speak of it. *)
ClockRecord ==
  /\ host \in Hosts
  /\ file \in [audio : BOOLEAN, video : BOOLEAN, jump : Jumps]
  /\ playing \in BOOLEAN /\ audible \in Nat /\ picture \in Nat
  /\ vctx \in [current : Int, last : Int]
  /\ vo \in [pc : {"top", "show"}, clock : Int, led : Int]
  /\ led \in BOOLEAN /\ turn \subseteq {"audio", "video", "control"}
  /\ ctl \in [first : Int, point : Int, cur : Int, strayed : BOOLEAN]

LEMMA TypesAre == ClockTypeOK <=> ClockRecord
BY DEF ClockTypeOK, ClockRecord, Hosts

\* The event loop's round keeps the types and moves no clock: all it touches of
\* the host are the two discontinuity flags.
LEMMA ClockRound ==
  ASSUME ClockRecord, calc_cur_time
  PROVE  /\ ClockRecord' /\ Going(host, host') /\ Kept(host, host')
<1> DEFINE cleared == [[host EXCEPT !.aflag = FALSE] EXCEPT !.vflag = FALSE]
<1>1. host_clear_discontinue_flag(host) = cleared BY DEF ClockRecord, Hosts, host_clear_discontinue_flag
<1>2. cleared \in Hosts /\ Going(host, cleared) /\ Kept(host, cleared)
  <2> DEFINE a == [host EXCEPT !.aflag = FALSE]
             b == [a EXCEPT !.vflag = FALSE]
  <2>1. a \in Hosts /\ Going(host, a) /\ Kept(host, a) BY DEF ClockRecord, Hosts, Going, Kept
  <2> HIDE DEF a
  <2>2. b \in Hosts /\ Going(a, b) /\ Kept(a, b) BY <2>1 DEF Hosts, Going, Kept
  <2>3. b = cleared BY DEF a
  <2> HIDE DEF b, cleared
  <2> QED BY <2>1, <2>2, <2>3 DEF Going, Kept
<1> HIDE DEF cleared
<1>3. host' = host \/ host' = cleared BY <1>1 DEF calc_cur_time
<1>4. host' \in Hosts /\ Going(host, host') /\ Kept(host, host')
  BY <1>2, <1>3 DEF ClockRecord, Going, Kept
<1>5. \A x \in Int : Within(x) \in Int
  <2>1. Far \in Int BY ClockAssumption
  <2> QED BY <2>1 DEF Within
<1>6. ctl' \in [first : Int, point : Int, cur : Int, strayed : BOOLEAN]
  <2>1. /\ host.apts \in Int /\ host.vpts \in Int /\ host.current \in Int /\ host.start \in Int
        /\ host.apoint \in Int /\ host.vpoint \in Int BY DEF ClockRecord, Hosts
  <2>2. ctl.first \in Int /\ ctl.point \in Int /\ ctl.cur \in Int /\ ctl.strayed \in BOOLEAN
    BY DEF ClockRecord
  <2>3. \A x \in Int : Point(x) \in Int BY <2>2 DEF Point
  <2> DEFINE both == host.aflag /\ host.vflag
             point == IF Both /\ both THEN ctl.cur ELSE ctl.point
             time == CASE ~Both -> host.current
                       [] Both /\ host.vflag /\ ~host.aflag -> host.apts
                       [] Both /\ (host.aflag \/ ~host.vflag) -> host.vpts
             start == CASE ~Both -> host.start
                        [] Both /\ host.aflag /\ ~host.vflag -> Point(host.vpoint)
                        [] Both /\ (~host.aflag \/ host.vflag) -> Point(host.apoint)
             strayed == ctl.strayed \/ (Both /\ both /\ ~Near)
  <2>4. point \in Int /\ strayed \in BOOLEAN BY <2>2
  <2>5. time \in Int BY <2>1
  <2>6. start \in Int BY <2>1, <2>3
  <2>7. ctl' = [ctl EXCEPT !.point = Within(point), !.cur = Within(time + point - start),
                           !.strayed = strayed] BY DEF calc_cur_time, ClockRecord
  <2> HIDE DEF point, time, start, strayed
  <2>8. time + point - start \in Int BY <2>4, <2>5, <2>6
  <2>9. Within(point) \in Int /\ Within(time + point - start) \in Int BY <1>5, <2>4, <2>8
  <2> QED BY <2>2, <2>4, <2>7, <2>9 DEF ClockRecord
<1>7. turn' \subseteq {"audio", "video", "control"} BY DEF calc_cur_time, ClockRecord
<1>8. UNCHANGED <<file, playing, audible, picture, vctx, vo, led>> BY DEF calc_cur_time
<1> QED BY <1>4, <1>6, <1>7, <1>8 DEF ClockRecord

-----------------------------------------------------------------------------
(* The inductive invariant.  It is about files with both streams, whose     *)
(* sound can lead.                                                          *)

Clock == host.start + host.age

\* A time that was set is above zero, as all time stamps are.
Positive ==
  /\ host.enable = (file.audio /\ file.video)
  /\ file.audio => host.apts > 0
  /\ file.video => host.vpts > 0
  /\ host.enable /\ host.current # NoPts => host.current > 0 /\ host.start > 0

\* How far the time that was written down is behind the clock: the video
\* thread, which comes round in every tick, writes it down when it looks at a
\* picture, and may look again before the tick is over.
Rounds == CASE vo.pc = "top" -> (IF "video" \in turn THEN 1 ELSE 2)
            [] vo.pc = "show" -> (IF "video" \in turn THEN 0 ELSE 1)
Fresh ==
  playing /\ ~PicturesOver /\ host.enable /\ host.current # NoPts
    => Clock - host.current <= Rounds

\* How far a clock that is the sound's own may be ahead of it.
Heard == IF "audio" \in turn THEN 1 ELSE 2
Close ==
  led => /\ host.enable /\ host.current # NoPts
         /\ playing /\ ~PicturesOver =>
              /\ host.current <= host.apts + Margin + 2
              /\ Clock <= host.apts + Margin + Heard

\* What the video thread compares its picture with.
Compared == vo.led # NoPts => vo.clock <= vo.led + Margin + 2

ClockInv == ClockRecord /\ Positive /\ Fresh /\ Close /\ Compared

\* No clock is set at the start.
LEMMA ClockBegins == ClockInit => ClockInv
<1> SUFFICES ASSUME ClockInit PROVE ClockInv
  OBVIOUS
<1>1. file \in [audio : BOOLEAN, video : BOOLEAN, jump : Jumps] /\ file.jump \in Jumps BY DEF ClockInit
<1>2. Pts(0) \in Int /\ Pts(0) > 0 BY <1>1, Stamps
<1>3. Content \in Nat /\ MaxAge \in Nat BY ClockAssumption
<1> DEFINE h == host_init(file.audio, file.video)
           a == IF file.audio THEN Pts(0) ELSE NoPts
           v == IF file.video THEN Pts(0) ELSE NoPts
           g == [h EXCEPT !.apts = a]
           k == [g EXCEPT !.vpts = v]
<1>4. h \in Hosts
  <2>1. 0 \in 0 .. MaxAge BY <1>3
  <2> QED BY <1>1, <2>1 DEF host_init, Hosts, NoPts
<1>5. h.enable = (file.audio /\ file.video) /\ h.current = NoPts BY <1>1 DEF host_init
<1>6. a \in Int /\ v \in Int /\ (file.audio => a > 0) /\ (file.video => v > 0) BY <1>2 DEF NoPts
<1>7. host = k BY <1>4 DEF ClockInit, Hosts
<1> HIDE DEF h, a, v
<1>8. g \in Hosts /\ g.apts = a /\ g.enable = h.enable /\ g.current = h.current BY <1>4, <1>6 DEF Hosts
<1> HIDE DEF g
<1>9. k \in Hosts /\ k.apts = g.apts /\ k.vpts = v /\ k.enable = g.enable /\ k.current = g.current
  BY <1>6, <1>8 DEF Hosts
<1> HIDE DEF k
<1>10. ClockRecord
  <2>1. playing \in BOOLEAN /\ led \in BOOLEAN /\ audible \in Nat /\ picture \in Nat BY <1>3 DEF ClockInit
  <2>2. vctx \in [current : Int, last : Int] BY DEF ClockInit, NoPts
  <2>3. vo \in [pc : {"top", "show"}, clock : Int, led : Int] BY DEF ClockInit, Top, NoPts
  <2>4. ctl \in [first : Int, point : Int, cur : Int, strayed : BOOLEAN] BY <1>2 DEF ClockInit
  <2>5. turn \subseteq {"audio", "video", "control"} BY DEF ClockInit
  <2> QED BY <1>1, <1>7, <1>9, <2>1, <2>2, <2>3, <2>4, <2>5 DEF ClockRecord
<1>11. Positive BY <1>5, <1>6, <1>7, <1>8, <1>9 DEF Positive
<1>12. Fresh BY <1>5, <1>7, <1>8, <1>9 DEF Fresh
<1>13. ~led /\ vo.led = NoPts BY DEF ClockInit, Top
<1> QED BY <1>10, <1>11, <1>12, <1>13 DEF ClockInv, Close, Compared

\* The sound's round makes the clock its own: within the threshold of what is heard
\* when it was written down, and, by Fresh, not much further on since.
LEMMA AudioRound ==
  ASSUME ClockInv, audio_update_pts
  PROVE  ClockInv'
<1> DEFINE x == Pts(audible)
<1>0. /\ host' = host_update_apts(host, x, SoundOver, file.video) /\ playing /\ file.audio
      /\ UNCHANGED <<file, playing, audible, picture, vctx, vo, ctl>>
      /\ turn' = turn \cup {"audio"}
      /\ led' = (host.enable /\ ~SoundOver /\ host.current # NoPts /\ ~Apart(host'))
  BY DEF audio_update_pts
<1>1. /\ host \in Hosts /\ file \in [audio : BOOLEAN, video : BOOLEAN, jump : Jumps] /\ file.jump \in Jumps
      /\ audible \in Nat /\ turn \subseteq {"audio", "video", "control"} /\ file.video \in BOOLEAN
  BY DEF ClockInv, ClockRecord
<1>2. x \in Int /\ x > 0 BY <1>1, Stamps
<1>3. SoundOver \in BOOLEAN BY DEF SoundOver
<1> HIDE DEF x
<1>4. /\ host' \in Hosts /\ host'.apts = x /\ host'.vpts = host.vpts /\ host'.enable = host.enable
      /\ file.video => Going(host, host') \/ (host.current # NoPts /\ Reset(host', x))
      /\ file.video /\ host.enable /\ ~SoundOver /\ host.current # NoPts /\ ~Apart(host')
           => Reset(host', x) \/ Abs(x - host.current) \div FreqMs < Threshold
  <2> DEFINE g == host_update_apts(host, x, SoundOver, file.video)
  <2>1. /\ g \in Hosts /\ g.apts = x /\ g.vpts = host.vpts /\ g.enable = host.enable
        /\ file.video => Going(host, g) \/ (host.current # NoPts /\ Reset(g, x))
        /\ file.video /\ host.enable /\ ~SoundOver /\ host.current # NoPts /\ ~Apart(g)
             => Reset(g, x) \/ Abs(x - host.current) \div FreqMs < Threshold
    BY <1>1, <1>2, <1>3, AptsIs
  <2>2. host' = g BY <1>0
  <2> QED BY <2>1, <2>2
<1>5. ClockRecord'
  <2>1. led' \in BOOLEAN BY <1>0
  <2> QED BY <1>0, <1>1, <1>4, <2>1 DEF ClockInv, ClockRecord
<1>6. host.enable => file.video BY DEF ClockInv, Positive
<1>7. Positive' BY <1>0, <1>2, <1>4, <1>6 DEF ClockInv, Positive, Going, Reset
<1>8. Rounds' = Rounds /\ Rounds \in 0 .. 2
  <2>1. "video" \in turn' <=> "video" \in turn BY <1>0
  <2> QED BY <1>0, <2>1 DEF Rounds, ClockInv, ClockRecord
<1>9. /\ host.start \in Int /\ host.current \in Int /\ host.age \in Int
      /\ host'.start \in Int /\ host'.current \in Int /\ host'.age \in Int /\ host.enable \in BOOLEAN
  BY <1>1, <1>4 DEF Hosts
<1>13. PicturesOver' = PicturesOver BY <1>0 DEF PicturesOver
<1>14. ~PicturesOver /\ host.enable /\ host.current # NoPts => Clock - host.current <= Rounds
  BY <1>0 DEF ClockInv, Fresh
<1>15. ASSUME ~PicturesOver, host.enable, host'.current # NoPts
       PROVE  host'.start + host'.age - host'.current <= Rounds
  <2>1. CASE Going(host, host') BY <1>9, <1>14, <1>15, <2>1 DEF Clock, Going
  <2>2. CASE Reset(host', x) BY <1>2, <1>8, <1>9, <2>2 DEF Reset
  <2> QED BY <1>4, <1>6, <1>15, <2>1, <2>2
<1>10. Fresh'
  <2>1. Clock' - host'.current = host'.start + host'.age - host'.current BY <1>9 DEF Clock
  <2> QED BY <1>4, <1>8, <1>13, <1>15, <2>1 DEF Fresh
<1>11. Close'
  <2> SUFFICES ASSUME led' PROVE (/\ host.enable /\ host.current # NoPts
                                  /\ playing /\ ~PicturesOver =>
                                       /\ host.current <= host.apts + Margin + 2
                                       /\ Clock <= host.apts + Margin + Heard)'
    BY DEF Close
  <2>1. host.enable /\ ~SoundOver /\ host.current # NoPts /\ ~Apart(host') BY <1>0
  <2>2. file.video BY <1>6, <2>1
  <2>3. host'.enable BY <1>4, <2>1
  <2>4. host'.current # NoPts BY <1>2, <1>4, <2>1, <2>2 DEF Going, Reset, NoPts
  <2>5. Margin \in Nat \ {0} BY MarginIs
  <2>6. "audio" \in turn' BY <1>0
  <2>7. ASSUME ~PicturesOver
        PROVE  host'.current <= x + Margin + 2 /\ host'.start + host'.age <= x + Margin + 1
    <3>1. CASE Reset(host', x) BY <1>2, <2>5, <3>1 DEF Reset
    <3>2. CASE ~Reset(host', x)
      <4>1. Going(host, host') /\ Abs(x - host.current) \div FreqMs < Threshold BY <1>4, <2>1, <2>2, <3>2
      <4>2. host.current < x + Margin BY <1>2, <1>9, <4>1, WithinThreshold
      <4>3. host.start + host.age - host.current <= Rounds BY <1>9, <1>14, <2>1, <2>7 DEF Clock
      <4> QED BY <1>2, <1>8, <1>9, <2>5, <4>1, <4>2, <4>3 DEF Going
    <3> QED BY <3>1, <3>2
  <2> QED BY <1>0, <1>4, <2>3, <2>4, <2>6, <2>7 DEF Clock, Heard, PicturesOver
<1>12. Compared' BY <1>0 DEF ClockInv, Compared, Margin
<1> QED BY <1>5, <1>7, <1>10, <1>11, <1>12 DEF ClockInv

\* The parts of a state that the proofs of the other steps need.
LEMMA ClockParts ==
  ASSUME ClockRecord
  PROVE  /\ host \in Hosts /\ file.audio \in BOOLEAN /\ file.video \in BOOLEAN /\ file.jump \in Jumps
         /\ host.start \in Int /\ host.current \in Int /\ host.age \in 0 .. MaxAge
         /\ host.apts \in Int /\ host.vpts \in Int /\ host.enable \in BOOLEAN
         /\ picture \in Nat /\ audible \in Nat
         /\ vo.pc \in {"top", "show"} /\ vo.clock \in Int /\ vo.led \in Int
         /\ Rounds \in 0 .. 2 /\ Heard \in 1 .. 2 /\ Margin \in Nat \ {0}
BY MarginIs DEF ClockRecord, Hosts, Rounds, Heard

\* The picture's thread reads the clock, compares with that, and writes it down.
LEMMA LookAtPicture ==
  ASSUME ClockInv, video_pre_read
  PROVE  ClockInv'
<1> DEFINE x == Pts(picture)
           time == IF host.current = NoPts THEN x ELSE host.current
           g == host_update_systime(host, time)
           k == host_update_systime(g, time)
<1>0. ClockRecord BY DEF ClockInv
<1>1. x \in Int /\ x > 0 BY <1>0, ClockParts, Stamps
<1>2. vo' = [pc |-> "show", clock |-> time, led |-> IF Led THEN host.apts ELSE NoPts]
  BY DEF video_pre_read
<1>3. host' = k BY DEF video_pre_read
<1>4. playing /\ ~PicturesOver /\ vo.pc = "top"
      /\ UNCHANGED <<file, playing, audible, picture, vctx, led, turn, ctl>>
  BY DEF video_pre_read
<1>5. time \in Int /\ time = (IF host.current = NoPts THEN x ELSE host.current)
      /\ (host.current = NoPts => time = x) BY <1>0, <1>1, ClockParts
<1> HIDE DEF x, time
<1>6. /\ g \in Hosts /\ Kept(host, g)
      /\ host.current = NoPts => Reset(g, time)
      /\ host.current # NoPts => g.start = host.start /\ g.age = host.age /\ g.current = host.start + host.age
  BY <1>0, <1>5, ClockParts, UpdateIs
<1> HIDE DEF g
<1>7. /\ k \in Hosts /\ Kept(g, k)
      /\ g.current = NoPts => Reset(k, time)
      /\ g.current # NoPts => k.start = g.start /\ k.age = g.age /\ k.current = g.start + g.age
  BY <1>5, <1>6, UpdateIs
<1> HIDE DEF k
<1>8. host' \in Hosts /\ Kept(host, host') BY <1>3, <1>6, <1>7 DEF Kept
<1>9. /\ host'.start \in Int /\ host'.current \in Int /\ host'.age \in Int
      /\ g.start \in Int /\ g.current \in Int /\ g.age \in Int
      /\ host.age \in Nat /\ host.start \in Int /\ host.current \in Int /\ host.apts \in Int
  BY <1>0, <1>6, <1>8, ClockParts DEF Hosts
<1>10. host.enable => (host.current # NoPts => host.current > 0 /\ host.start > 0) BY DEF ClockInv, Positive
<1>11. ASSUME host.enable, host.current = NoPts
       PROVE  host'.start = time /\ host'.current = time /\ host'.age = 0 /\ time > 0
  <2>1. g.start = time /\ g.current = time /\ g.age = 0 BY <1>6, <1>11 DEF Reset
  <2>2. time > 0 /\ time # NoPts BY <1>1, <1>5, <1>11 DEF NoPts
  <2>3. host'.start = time /\ host'.age = 0 /\ host'.current = time + 0 BY <1>3, <1>7, <2>1, <2>2
  <2> QED BY <1>5, <2>2, <2>3
<1>12. ASSUME host.enable, host.current # NoPts
       PROVE  host'.start = host.start /\ host'.age = host.age /\ host'.current = Clock /\ Clock > 0
  <2>1. g.start = host.start /\ g.age = host.age /\ g.current = Clock BY <1>6, <1>12 DEF Clock
  <2>2. Clock > 0 /\ Clock # NoPts BY <1>9, <1>10, <1>12 DEF NoPts, Clock
  <2>3. host'.start = host.start /\ host'.age = host.age /\ host'.current = host.start + host.age
    BY <1>3, <1>7, <2>1, <2>2
  <2> QED BY <2>2, <2>3 DEF Clock
<1>13. ClockRecord'
  <2>1. vo' \in [pc : {"top", "show"}, clock : Int, led : Int] BY <1>2, <1>5, <1>9 DEF NoPts
  <2> QED BY <1>0, <1>4, <1>8, <2>1 DEF ClockRecord
<1>14. host.enable \in BOOLEAN /\ host'.enable = host.enable /\ host'.apts = host.apts BY <1>0, <1>8, ClockParts DEF Kept
<1>15. Positive'
  <2>1. host.enable => host'.current > 0 /\ host'.start > 0
    <3>1. CASE host.enable /\ host.current = NoPts BY <1>11, <3>1
    <3>2. CASE host.enable /\ host.current # NoPts BY <1>10, <1>12, <3>2
    <3> QED BY <1>14, <3>1, <3>2
  <2> QED BY <1>4, <1>8, <2>1 DEF ClockInv, Positive, Kept
<1>16. host.enable => host'.start + host'.age = host'.current
  <2>1. CASE host.enable /\ host.current = NoPts BY <1>5, <1>11, <2>1
  <2>2. CASE host.enable /\ host.current # NoPts BY <1>9, <1>12, <2>2 DEF Clock
  <2> QED BY <1>14, <2>1, <2>2
<1>17. Fresh'
  <2>1. Rounds' \in 0 .. 2 BY <1>2 DEF Rounds
  <2>2. host.enable => Clock' - host'.current <= Rounds' BY <1>9, <1>16, <2>1 DEF Clock
  <2> QED BY <1>14, <2>2 DEF Fresh
<1>18. ASSUME led
       PROVE  /\ host.enable /\ host.current # NoPts
              /\ host.current <= host.apts + Margin + 2
              /\ Clock <= host.apts + Margin + Heard
  BY <1>4, <1>18 DEF ClockInv, Close
<1>19. Close'
  <2>1. Heard' = Heard /\ Heard \in 1 .. 2 /\ Margin \in Nat BY <1>0, <1>4, ClockParts DEF Heard
  <2>2. ASSUME led
        PROVE  /\ host'.enable /\ host'.current # NoPts
               /\ host'.current <= host'.apts + Margin + 2
               /\ Clock' <= host'.apts + Margin + Heard
    <3>1. host'.start = host.start /\ host'.age = host.age /\ host'.current = Clock /\ Clock > 0
      BY <1>12, <1>18, <2>2
    <3>2. Clock' = Clock BY <1>9, <3>1 DEF Clock
    <3>3. Clock \in Int BY <1>9 DEF Clock
    <3> QED BY <1>9, <1>14, <1>18, <2>1, <2>2, <3>1, <3>2, <3>3 DEF NoPts
  <2>3. Margin' = Margin BY DEF Margin
  <2> QED BY <1>4, <2>1, <2>2, <2>3 DEF Close
<1>20. Compared'
  <2>1. Led \in BOOLEAN /\ (Led => led) BY DEF Led
  <2>2. CASE ~Led BY <1>2, <2>2 DEF Compared
  <2>3. CASE Led
    <3>1. vo'.led = host.apts /\ vo'.clock = time BY <1>2, <2>3
    <3>2. time = host.current BY <1>5, <1>18, <2>1, <2>3
    <3>3. host.current <= host.apts + Margin + 2 BY <1>18, <2>1, <2>3
    <3> QED BY <3>1, <3>2, <3>3 DEF Compared, Margin
  <2> QED BY <2>1, <2>2, <2>3
<1> QED BY <1>13, <1>15, <1>17, <1>19, <1>20 DEF ClockInv

\* The picture is not due: the round is over.
LEMMA WaitForPicture ==
  ASSUME ClockInv, video_wait
  PROVE  ClockInv'
<1>0. ClockRecord BY DEF ClockInv
<1>1. /\ vo.pc = "show" /\ vo' = Top /\ turn' = turn \cup {"video"}
      /\ UNCHANGED <<host, file, playing, audible, picture, vctx, led, ctl>>
  BY DEF video_wait
<1>2. ClockRecord'
  <2>1. vo' \in [pc : {"top", "show"}, clock : Int, led : Int] BY <1>1 DEF Top, NoPts
  <2> QED BY <1>0, <1>1, <2>1 DEF ClockRecord
<1>3. Positive' BY <1>1 DEF ClockInv, Positive
<1>4. Rounds <= Rounds' /\ Rounds \in Int /\ Rounds' \in Int BY <1>1 DEF Rounds, Top
<1>5. Fresh'
  <2>1. Clock - host.current \in Int BY <1>0, ClockParts DEF Clock
  <2>2. Fresh BY DEF ClockInv
  <2> QED BY <1>1, <1>4, <2>1, <2>2 DEF Fresh, Clock, PicturesOver
<1>6. Close'
  <2>1. Heard' = Heard BY <1>1 DEF Heard
  <2> QED BY <1>1, <2>1 DEF ClockInv, Close, Clock, Margin, PicturesOver
<1>7. Compared' BY <1>1 DEF Compared, Top
<1> QED BY <1>2, <1>3, <1>5, <1>6, <1>7 DEF ClockInv

\* The picture is due.  A clock it resets is no longer the sound's own.
LEMMA ShowPicture ==
  ASSUME ClockInv, video_show
  PROVE  ClockInv'
<1> DEFINE x == Pts(picture)
<1>0. ClockRecord BY DEF ClockInv
<1>1. x \in Int /\ x > 0 BY <1>0, ClockParts, Stamps
<1>2. /\ vo.pc = "show" /\ vo' = Top /\ turn' = turn \cup {"video"}
      /\ picture' = picture + Interval
      /\ vctx' = [current |-> x,
                  last |-> IF vctx.last = NoPts \/ Discontinuous THEN x ELSE vctx.current]
      /\ host' = host_update_vpts(host, x) /\ led' = (led /\ ~Apart(host'))
      /\ UNCHANGED <<file, playing, audible, ctl>>
  BY DEF video_show
<1> HIDE DEF x
<1>3. /\ host' \in Hosts /\ host'.vpts = x /\ host'.apts = host.apts /\ host'.enable = host.enable
      /\ Going(host, host') \/ (host.current # NoPts /\ Reset(host', x))
      /\ host.enable /\ host.current # NoPts /\ ~Apart(host') => Going(host, host')
  <2> DEFINE g == host_update_vpts(host, x)
  <2>1. /\ g \in Hosts /\ g.vpts = x /\ g.apts = host.apts /\ g.enable = host.enable
        /\ Going(host, g) \/ (host.current # NoPts /\ Reset(g, x))
        /\ host.enable /\ host.current # NoPts /\ ~Apart(g) => Going(host, g)
    BY <1>0, <1>1, ClockParts, VptsIs
  <2>2. host' = g BY <1>2
  <2> QED BY <2>1, <2>2
<1>4. ClockRecord'
  <2>1. vo' \in [pc : {"top", "show"}, clock : Int, led : Int] BY <1>2 DEF Top, NoPts
  <2>2. vctx' \in [current : Int, last : Int] BY <1>0, <1>1, <1>2 DEF ClockRecord
  <2>3. picture' \in Nat
    <3>1. Interval \in Nat BY ClockAssumption
    <3> QED BY <1>0, <1>2, <3>1, ClockParts
  <2>4. led' \in BOOLEAN BY <1>0, <1>2 DEF ClockRecord
  <2>5. turn' \subseteq {"audio", "video", "control"} BY <1>0, <1>2 DEF ClockRecord
  <2> QED BY <1>0, <1>2, <1>3, <2>1, <2>2, <2>3, <2>4, <2>5 DEF ClockRecord
<1>5. Positive' BY <1>1, <1>2, <1>3 DEF ClockInv, Positive, Going, Reset
<1>6. Rounds <= Rounds' /\ Rounds \in Int /\ Rounds' \in 0 .. 2 BY <1>2 DEF Rounds, Top
<1>7. ~PicturesOver' => ~PicturesOver
  <2>1. Interval \in Nat /\ Content \in Nat BY ClockAssumption
  <2> QED BY <1>0, <1>2, <2>1, ClockParts DEF PicturesOver
<1>8. /\ host'.start \in Int /\ host'.current \in Int /\ host'.age \in Int
      /\ host.start \in Int /\ host.current \in Int /\ host.age \in Int /\ host.enable \in BOOLEAN
  BY <1>0, <1>3, ClockParts DEF Hosts
<1>9. Fresh'
  <2>1. ASSUME playing, ~PicturesOver, host.enable, host'.current # NoPts
        PROVE  Clock' - host'.current <= Rounds'
    <3>1. CASE Going(host, host')
      <4>1. host.current # NoPts BY <2>1, <3>1 DEF Going
      <4>2. Clock - host.current <= Rounds BY <2>1, <4>1 DEF ClockInv, Fresh
      <4> QED BY <1>6, <1>8, <3>1, <4>2 DEF Clock, Going
    <3>2. CASE Reset(host', x) BY <1>1, <1>6, <1>8, <3>2 DEF Clock, Reset
    <3> QED BY <1>3, <3>1, <3>2
  <2> QED BY <1>2, <1>3, <1>7, <2>1 DEF Fresh
<1>10. Close'
  <2>1. Heard' = Heard /\ Margin' = Margin BY <1>2 DEF Heard, Margin
  <2>2. ASSUME led' PROVE led /\ host.enable /\ host.current # NoPts /\ Going(host, host')
    <3>1. led /\ ~Apart(host') BY <1>2, <2>2
    <3>2. host.enable /\ host.current # NoPts BY <3>1 DEF ClockInv, Close
    <3> QED BY <1>3, <3>1, <3>2
  <2>3. ASSUME led' PROVE Clock' = Clock /\ host'.current = host.current
    <3>1. Going(host, host') BY <2>2, <2>3
    <3> QED BY <1>8, <3>1 DEF Clock, Going
  <2>4. Close BY DEF ClockInv
  <2> QED BY <1>2, <1>3, <1>7, <2>1, <2>2, <2>3, <2>4 DEF Close
<1>11. Compared' BY <1>2 DEF Compared, Top
<1> QED BY <1>4, <1>5, <1>9, <1>10, <1>11 DEF ClockInv

\* While the outputs are paused nothing is compared.
LEMMA Pause ==
  ASSUME ClockInv, host_pause
  PROVE  ClockInv'
<1>1. playing' = FALSE /\ UNCHANGED <<host, file, audible, picture, vctx, vo, led, turn, ctl>>
  BY DEF host_pause
<1>2. ClockRecord' BY <1>1 DEF ClockInv, ClockRecord
<1>3. Positive' BY <1>1 DEF ClockInv, Positive
<1>4. Fresh' BY <1>1 DEF Fresh
<1>5. Close' BY <1>1 DEF ClockInv, Close
<1>6. Compared' BY <1>1 DEF ClockInv, Compared, Margin
<1> QED BY <1>2, <1>3, <1>4, <1>5, <1>6 DEF ClockInv

\* Resuming sets the clock to a picture that may be far from the sound.
LEMMA Resume ==
  ASSUME ClockInv, host_resume_all
  PROVE  ClockInv'
<1> DEFINE x == IF file.video THEN host.vpts ELSE host.apts
<1>0. ClockRecord BY DEF ClockInv
<1>1. /\ playing' = TRUE /\ host' = host_reset_systime(host, x) /\ led' = FALSE
      /\ UNCHANGED <<file, audible, picture, vctx, vo, turn, ctl>>
  BY DEF host_resume_all, host_resume
<1>2. x \in Int BY <1>0, ClockParts
<1>3. host.enable => x > 0 BY <1>0, ClockParts DEF ClockInv, Positive
<1> HIDE DEF x
<1>4. host' \in Hosts /\ Reset(host', x) /\ Kept(host, host')
  <2> DEFINE g == host_reset_systime(host, x)
  <2>1. g \in Hosts /\ Reset(g, x) /\ Kept(host, g) BY <1>0, <1>2, ClockParts, ResetIs
  <2>2. host' = g BY <1>1
  <2> QED BY <2>1, <2>2
<1>5. ClockRecord' BY <1>0, <1>1, <1>4 DEF ClockRecord
<1>6. Positive' BY <1>1, <1>3, <1>4 DEF ClockInv, Positive, Kept, Reset
<1>7. Fresh'
  <2>1. Rounds' \in 0 .. 2 
    <3>1. Rounds' = Rounds BY <1>1 DEF Rounds
    <3> QED BY <1>0, <3>1, ClockParts
  <2>2. Clock' - host'.current <= Rounds' BY <1>2, <1>4, <2>1 DEF Clock, Reset
  <2> QED BY <2>2 DEF Fresh
<1>8. Close' BY <1>1 DEF Close
<1>9. Compared' BY <1>1 DEF ClockInv, Compared, Margin
<1> QED BY <1>5, <1>6, <1>7, <1>8, <1>9 DEF ClockInv

\* A tick moves the clock on by one, after every thread has had its round.
LEMMA Tick ==
  ASSUME ClockInv, NEW heard \in BOOLEAN, tick(heard)
  PROVE  ClockInv'
<1>0. ClockRecord BY DEF ClockInv
<1>1. /\ IF playing THEN Due \subseteq turn ELSE "control" \in turn
      /\ audible' = IF heard THEN audible + 1 ELSE audible
      /\ host' = [host EXCEPT !.age = Age] /\ turn' = {}
      /\ UNCHANGED <<file, playing, picture, vctx, vo, led, ctl>>
  BY DEF tick
<1>2. Age \in 0 .. MaxAge /\ Age <= host.age + 1
  <2>1. MaxAge \in Nat /\ host.age \in 0 .. MaxAge BY <1>0, ClockAssumption, ClockParts
  <2> QED BY <2>1 DEF Age
<1>3. host' \in Hosts /\ Kept(host, host') /\ host'.start = host.start /\ host'.current = host.current
      /\ host'.age = Age
  <2>1. host \in Hosts BY <1>0, ClockParts
  <2> QED BY <1>1, <1>2, <2>1 DEF Hosts, Kept
<1>4. ClockRecord'
  <2>1. audible' \in Nat BY <1>0, <1>1, ClockParts
  <2>2. turn' \subseteq {"audio", "video", "control"} BY <1>1
  <2> QED BY <1>0, <1>1, <1>3, <2>1, <2>2 DEF ClockRecord
<1>5. Positive' BY <1>1, <1>3 DEF ClockInv, Positive, Kept
<1>6. /\ host.start \in Int /\ host.current \in Int /\ host.age \in Int /\ host.apts \in Int
      /\ Age \in Int /\ Clock \in Int /\ Clock' \in Int /\ Clock' <= Clock + 1
  BY <1>0, <1>2, <1>3, ClockParts DEF Clock
<1>7. Fresh'
  <2>1. PicturesOver' = PicturesOver /\ playing' = playing BY <1>1 DEF PicturesOver
  <2>2. ASSUME playing, ~PicturesOver, host.enable, host.current # NoPts
        PROVE  Clock' - host.current <= Rounds'
    <3>1. "video" \in turn BY <1>1, <2>2 DEF Due
    <3>2. Rounds' = Rounds + 1 /\ Rounds \in Int BY <1>0, <1>1, <3>1 DEF Rounds, ClockRecord
    <3>3. Clock - host.current <= Rounds BY <2>2 DEF ClockInv, Fresh
    <3> QED BY <1>6, <3>2, <3>3
  <2> QED BY <1>3, <2>1, <2>2 DEF Fresh, Kept
<1>8. Close'
  <2>1. PicturesOver' = PicturesOver /\ Margin' = Margin /\ Heard' = 2 BY <1>1 DEF PicturesOver, Margin, Heard
  <2>2. Close BY DEF ClockInv
  <2>3. ASSUME led, playing, ~PicturesOver
        PROVE  Clock' <= host.apts + Margin + 2
    <3>1. host.enable /\ Clock <= host.apts + Margin + Heard BY <2>2, <2>3 DEF Close
    <3>2. file.audio BY <3>1 DEF ClockInv, Positive
    <3>3. "audio" \in turn BY <1>1, <2>3, <3>2 DEF Due
    <3>4. Heard = 1 /\ Margin \in Int BY <3>3, MarginIs DEF Heard
    <3> QED BY <1>6, <3>1, <3>4
  <2> QED BY <1>1, <1>3, <2>1, <2>2, <2>3 DEF Close, Kept
<1>9. Compared' BY <1>1 DEF ClockInv, Compared, Margin
<1> QED BY <1>4, <1>5, <1>7, <1>8, <1>9 DEF ClockInv

\* The event loop reads the clock and moves none.
LEMMA ControlRound ==
  ASSUME ClockInv, calc_cur_time
  PROVE  ClockInv'
<1>0. ClockRecord BY DEF ClockInv
<1>1. ClockRecord' /\ Going(host, host') /\ Kept(host, host') BY <1>0, ClockRound
<1>2. turn' = turn \cup {"control"} /\ UNCHANGED <<file, playing, audible, picture, vctx, vo, led>>
  BY DEF calc_cur_time
<1>3. Positive' BY <1>1, <1>2 DEF ClockInv, Positive, Kept, Going
<1>4. Rounds' = Rounds /\ Heard' = Heard /\ Margin' = Margin /\ PicturesOver' = PicturesOver
  BY <1>2 DEF Rounds, Heard, Margin, PicturesOver
<1>5. Clock' = Clock BY <1>0, <1>1, ClockParts DEF Clock, Going
<1>6. Fresh' BY <1>1, <1>2, <1>4, <1>5 DEF ClockInv, Fresh, Going, Kept
<1>7. Close' BY <1>1, <1>2, <1>4, <1>5 DEF ClockInv, Close, Going, Kept
<1>8. Compared' BY <1>2, <1>4 DEF ClockInv, Compared
<1> QED BY <1>1, <1>3, <1>6, <1>7, <1>8 DEF ClockInv

\* Every step keeps the invariant.
LEMMA ClockInductive == ClockInv /\ [ClockNext]_clock_vars => ClockInv'
<1> SUFFICES ASSUME ClockInv, [ClockNext]_clock_vars PROVE ClockInv'
  OBVIOUS
<1>1. CASE audio_update_pts BY <1>1, AudioRound
<1>2. CASE video_output_thread BY <1>2, LookAtPicture, WaitForPicture, ShowPicture DEF video_output_thread
<1>3. CASE calc_cur_time BY <1>3, ControlRound
<1>4. CASE host_pause BY <1>4, Pause
<1>5. CASE host_resume_all BY <1>5, Resume
<1>6. CASE \E heard \in BOOLEAN : tick(heard) BY <1>6, Tick
<1>7. CASE UNCHANGED clock_vars
  BY <1>7 DEF clock_vars, ClockInv, ClockRecord, Positive, Fresh, Close, Compared, Clock, Margin, Rounds, Heard,
              PicturesOver
<1> QED BY <1>1, <1>2, <1>3, <1>4, <1>5, <1>6, <1>7 DEF ClockNext

(* The host's clock and everything that is kept with it have their types.   *)
THEOREM ClockTyped == ClockSpec => []ClockTypeOK
<1>1. ClockInv => ClockTypeOK BY TypesAre DEF ClockInv
<1> QED BY <1>1, ClockBegins, ClockInductive, PTL DEF ClockSpec

(* host_update_apts, host_update_vpts and video_output_thread together, for *)
(* all thresholds, streams and jumps: while the sound leads by a clock of   *)
(* its own, no picture is taken that is ahead of what was audible by more   *)
(* than the threshold and two ticks.                                        *)
THEOREM ClockNotAhead == ClockSpec => NotAhead
<1>1. ClockInv /\ [ClockNext]_clock_vars =>
        [(picture' # picture /\ vo.led # NoPts /\ ~Discontinuous)
           => Pts(picture) - vo.led <= Threshold * FreqMs + 2]_clock_vars
  <2> SUFFICES ASSUME ClockInv, ClockNext, picture' # picture, vo.led # NoPts, ~Discontinuous
               PROVE  Pts(picture) - vo.led <= Threshold * FreqMs + 2
    OBVIOUS
  <2>1. video_show
    BY DEF ClockNext, audio_update_pts, video_output_thread, video_pre_read, video_wait, calc_cur_time,
           host_pause, host_resume_all, tick
  <2>2. vo.clock >= Pts(picture) BY <2>1 DEF video_show
  <2>3. vo.clock <= vo.led + Margin + 2 BY DEF ClockInv, Compared
  <2>4. vo.clock \in Int /\ vo.led \in Int /\ Margin \in Int /\ Pts(picture) \in Int
    BY ClockParts, Stamps DEF ClockInv
  <2>5. Pts(picture) - vo.led <= Margin + 2 BY <2>2, <2>3, <2>4
  <2> QED BY <2>5 DEF Margin
<1> QED BY <1>1, ClockBegins, ClockInductive, PTL DEF ClockSpec, NotAhead
=============================================================================
