---------------------------- MODULE LinkedQueue ----------------------------
(***************************************************************************)
(* dt_queue.c: the doubly linked list the video and subtitle decoders fill  *)
(* with frames and the outputs drain.  A call holds the queue's mutex for   *)
(* all it does, so it is one action, except that queue_push_nth and         *)
(* queue_pop_nth release the mutex before they hand over to the call for an *)
(* end of the queue, and that queue_flush and queue_free take it anew for   *)
(* every item.                                                              *)
(*                                                                          *)
(* A node is a heap cell: malloc picks an unused one and free returns it.   *)
(* Taking the node before the tail's successor, which does not exist, stops *)
(* the program: queue_pop_nth does it for the last of several nodes.        *)
(***************************************************************************)
EXTENDS Naturals, Sequences

CONSTANTS Node, Item, Caller, Depth, None

ASSUME NodeAssumption == None \notin Node   \* NULL is no cell

VARIABLES
  head, tail, length,
  next, prev, item,   \* the fields of each node
  used,               \* the nodes that are allocated
  call,               \* what each caller's call has left to do
  got,                \* what the last call returned
  queue               \* "live", "freed" or "crashed"

links == <<head, tail, length, next, prev, item, used>>
queue_vars == <<links, call, got, queue>>

Nothing == [op |-> "none", item |-> None]

queue_new ==
  /\ head = None /\ tail = None /\ length = 0
  /\ next = [n \in Node |-> None]
  /\ prev = [n \in Node |-> None]
  /\ item = [n \in Node |-> None]
  /\ used = {}
  /\ call = [c \in Caller |-> Nothing]
  /\ got = None
  /\ queue = "live"

Idle(c) == queue = "live" /\ call[c] = Nothing
Does(c, op) == queue = "live" /\ call[c].op = op

(* The walk of get_node_link_nth: from the head, or back from the tail,     *)
(* whichever is nearer.                                                     *)
Ahead(k) == LET f[i \in Nat] == IF i = 0 THEN head ELSE next[f[i - 1]] IN f[k]
Back(k) == LET f[i \in Nat] == IF i = 0 THEN tail ELSE prev[f[i - 1]] IN f[k]

get_node_link_nth(n) ==
  IF n < length \div 2 THEN Ahead(n - 1) ELSE Back(length - n)

LinkHead(d) == \E n \in Node \ used :
  /\ item' = [item EXCEPT ![n] = d]
  /\ next' = [next EXCEPT ![n] = head]
  /\ prev' = [m \in Node |-> CASE m = n -> None [] m = head -> n [] OTHER -> prev[m]]
  /\ head' = n
  /\ tail' = IF tail = None THEN n ELSE tail
  /\ length' = length + 1
  /\ used' = used \union {n}

LinkTail(d) == \E n \in Node \ used :
  /\ item' = [item EXCEPT ![n] = d]
  /\ prev' = [prev EXCEPT ![n] = tail]
  /\ next' = [m \in Node |-> CASE m = n -> None [] m = tail -> n [] OTHER -> next[m]]
  /\ tail' = n
  /\ head' = IF head = None THEN n ELSE head
  /\ length' = length + 1
  /\ used' = used \union {n}

(* What a freed cell holds is nobody's business: it counts as empty.        *)
Free(n, nx, pv) ==
  /\ next' = [nx EXCEPT ![n] = None]
  /\ prev' = [pv EXCEPT ![n] = None]
  /\ item' = [item EXCEPT ![n] = None]
  /\ used' = used \ {n}
  /\ length' = length - 1
  /\ got' = item[n]

UnlinkHead ==
  LET p == head IN
  IF p = None THEN got' = None /\ UNCHANGED links
  ELSE /\ head' = next[p]
       /\ tail' = IF next[p] = None THEN None ELSE tail
       /\ Free(p, next, [m \in Node |-> IF m = next[p] THEN None ELSE prev[m]])

(* Mutant: the last item leaves and head keeps pointing at its node.        *)
UnlinkTailKeepsHead ==
  LET p == tail IN
  IF p = None THEN got' = None /\ UNCHANGED links
  ELSE /\ tail' = prev[p]
       /\ Free(p, [m \in Node |-> IF m = prev[p] THEN None ELSE next[m]], prev)
       /\ UNCHANGED head

UnlinkTail ==
  LET p == tail IN
  IF p = None THEN got' = None /\ UNCHANGED links
  ELSE /\ tail' = prev[p]
       /\ head' = IF prev[p] = None THEN None ELSE head
       /\ Free(p, [m \in Node |-> IF m = prev[p] THEN None ELSE next[m]], prev)

Leave(c, op, d) == call' = [call EXCEPT ![c] = [op |-> op, item |-> d]]

queue_push_head(c, d) ==
  /\ Idle(c) \/ (Does(c, "push_head") /\ call[c].item = d)
  /\ LinkHead(d)
  /\ call' = [call EXCEPT ![c] = Nothing]
  /\ got' = None
  /\ UNCHANGED queue

queue_push_tail(c, d) ==
  /\ Idle(c) \/ (Does(c, "push_tail") /\ call[c].item = d)
  /\ LinkTail(d)
  /\ call' = [call EXCEPT ![c] = Nothing]
  /\ got' = None
  /\ UNCHANGED queue

queue_push_nth(c, d, n) ==
  /\ Idle(c)
  /\ UNCHANGED queue
  /\ \/ n > length /\ Leave(c, "push_tail", d) /\ UNCHANGED <<links, got>>
     \/ n <= length /\ n <= 1 /\ Leave(c, "push_head", d) /\ UNCHANGED <<links, got>>
     \/ /\ n \in 2 .. length
        /\ \E m \in Node \ used : LET p == get_node_link_nth(n - 1) IN
             /\ item' = [item EXCEPT ![m] = d]
             /\ next' = [next EXCEPT ![m] = next[p], ![p] = m]
             /\ prev' = [prev EXCEPT ![m] = p, ![next[p]] = m]
             /\ used' = used \union {m}
        /\ length' = length + 1
        /\ got' = None
        /\ UNCHANGED <<head, tail, call>>

queue_pop_head(c) ==
  /\ Idle(c) \/ Does(c, "pop_head")
  /\ UnlinkHead
  /\ call' = [call EXCEPT ![c] = Nothing]
  /\ UNCHANGED queue

queue_pop_tail(c) ==
  /\ Idle(c) \/ Does(c, "pop_tail")
  /\ UnlinkTail
  /\ call' = [call EXCEPT ![c] = Nothing]
  /\ UNCHANGED queue

queue_pop_nth(c, n) ==
  /\ Idle(c)
  /\ \/ /\ n > length /\ Leave(c, "pop_tail", None)
        /\ UNCHANGED <<links, got, queue>>
     \/ /\ n <= length /\ n <= 1 /\ Leave(c, "pop_head", None)
        /\ UNCHANGED <<links, got, queue>>
     \/ /\ n \in 2 .. length - 1
        /\ LET p == get_node_link_nth(n) IN
             Free(p, [next EXCEPT ![prev[p]] = next[p]],
                     [prev EXCEPT ![next[p]] = prev[p]])
        /\ UNCHANGED <<head, tail, call, queue>>
     \/ /\ n = length /\ n > 1    \* p->next is NULL: the tail's successor
        /\ queue' = "crashed"
        /\ UNCHANGED <<links, call, got>>

queue_pre_pop_head(c) ==
  /\ Idle(c)
  /\ got' = IF head = None THEN None ELSE item[head]
  /\ UNCHANGED <<links, call, queue>>

(* queue_flush pops at the tail until nothing comes; so does queue_free,    *)
(* which the decoder's stop calls when both threads of the pipe have been   *)
(* joined, and which then frees the queue itself.                           *)
flush_begin(c) ==
  /\ Idle(c)
  /\ \/ Leave(c, "flush", None)
     \/ (\A o \in Caller \ {c} : Idle(o)) /\ Leave(c, "free", None)
  /\ UNCHANGED <<links, got, queue>>

flush_pop(c) ==
  /\ Does(c, "flush") \/ Does(c, "free")
  /\ UnlinkTail
  /\ call' = IF tail = None THEN [call EXCEPT ![c] = Nothing] ELSE call
  /\ queue' = IF tail = None /\ Does(c, "free") THEN "freed" ELSE queue

Freeing == \E c \in Caller : Does(c, "free")

QueueNext ==
  \E c \in Caller :
    \/ /\ ~Freeing
       /\ \/ \E d \in Item :
               \/ queue_push_head(c, d)
               \/ queue_push_tail(c, d)
               \/ \E n \in Depth : queue_push_nth(c, d, n)
          \/ queue_pop_head(c)
          \/ queue_pop_tail(c)
          \/ \E n \in Depth : queue_pop_nth(c, n)
          \/ queue_pre_pop_head(c)
          \/ flush_begin(c)
    \/ flush_pop(c)

QueueSpec == queue_new /\ [][QueueNext]_queue_vars

-----------------------------------------------------------------------------
(* The list implements a deque: read from the head along next it is the     *)
(* sequence queued, and every call that reaches an end by prev, or meets    *)
(* the queue another caller changed while it had let go of the mutex, still *)
(* returns an item of that sequence exactly once.  That is what the         *)
(* comments over the functions promise (dt_queue.c:328-332 of               *)
(* queue_pop_nth); a call that never returns breaks it.                     *)
Listed == [i \in 1 .. length |-> item[Ahead(i - 1)]]

Queued == INSTANCE Deque WITH items <- Listed, up <- queue # "crashed"

ImplementsDeque == Queued!Spec

(* The one call that does not return: the last of several nodes is asked    *)
(* for by its number (dt_queue.c:356).                                      *)
PopsLastByNumber == length \in Depth /\ length > 1 /\ queue' = "crashed"

(* Every other call, after whatever calls and from whichever caller, is one *)
(* of the deque (dt_queue.c:130-360).                                       *)
DequeButForLast ==
  Queued!Init /\ [][Queued!Next \/ PopsLastByNumber]_<<Listed, got, queue = "crashed">>
=============================================================================
