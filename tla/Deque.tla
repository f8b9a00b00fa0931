------------------------------- MODULE Deque -------------------------------
(***************************************************************************)
(* What dt_queue.c promises its users: a sequence that grows and shrinks at *)
(* both ends and at a position counted from 1, and hands every item back    *)
(* exactly once.                                                            *)
(***************************************************************************)
EXTENDS Naturals, Sequences, SequencesExt

CONSTANTS Item, None

VARIABLES
  items,  \* what is queued, the head first
  got,    \* what the last call returned
  up      \* every call so far has returned

Init == items = <<>> /\ got = None /\ up = TRUE

PushHead(d) == items' = <<d>> \o items /\ got' = None
PushTail(d) == items' = Append(items, d) /\ got' = None

PushNth(d, n) ==
  /\ n \in 2 .. Len(items)
  /\ items' = InsertAt(items, n, d)
  /\ got' = None

Pop(n) ==
  /\ n \in 1 .. Len(items)
  /\ items' = RemoveAt(items, n)
  /\ got' = items[n]

PopNothing == items = <<>> /\ got' = None /\ UNCHANGED items

Peek == items # <<>> /\ got' = items[1] /\ UNCHANGED items

Call ==
  \/ \E d \in Item : PushHead(d) \/ PushTail(d)
  \/ \E d \in Item, n \in 1 .. Len(items) : PushNth(d, n)
  \/ \E n \in 1 .. Len(items) : Pop(n)
  \/ PopNothing
  \/ Peek

Next == Call /\ UNCHANGED up

Spec == Init /\ [][Next]_<<items, got, up>>
=============================================================================
