----------------------------- MODULE ByteQueue -----------------------------
(***************************************************************************)
(* What dt_buffer promises its users: a bounded FIFO of bytes.  A put       *)
(* stores the longest prefix that fits, a get hands out the oldest bytes,   *)
(* and both say how many bytes they moved.  There are no pointers here.     *)
(***************************************************************************)
EXTENDS Integers, Sequences

CONSTANTS
  Byte,      \* the values a byte may take
  Size,      \* the capacity given to buf_init
  Chunks,    \* the sequences a caller may put
  Requests   \* the lengths a caller may ask for

VARIABLES
  queue,     \* the bytes put and not yet got, oldest first
  out,       \* the bytes the last call delivered
  ret        \* the count the last call returned

vars == <<queue, out, ret>>

Least(a, b) == IF a <= b THEN a ELSE b

Init ==
  /\ queue = <<>>
  /\ out = <<>>
  /\ ret = 0

Put(in) ==
  /\ ret' = Least(Size - Len(queue), Len(in))
  /\ queue' = [i \in 1 .. Len(queue) + ret' |->
                 IF i <= Len(queue) THEN queue[i] ELSE in[i - Len(queue)]]
  /\ out' = <<>>

Get(n) ==
  /\ ret' = Least(Len(queue), n)
  /\ out' = [i \in 1 .. ret' |-> queue[i]]
  /\ queue' = [i \in 1 .. Len(queue) - ret' |-> queue[i + ret']]

Clear ==
  /\ queue' = <<>>
  /\ out' = <<>>
  /\ ret' = 0

Next ==
  \/ \E in \in Chunks : Put(in)
  \/ \E n \in Requests : Get(n)
  \/ Clear

Spec == Init /\ [][Next]_vars
=============================================================================
