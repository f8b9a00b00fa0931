---------------------------- MODULE EventService ----------------------------
(***************************************************************************)
(* dt_event.c: how commands travel between the threads of the player.       *)
(*                                                                          *)
(* The service manager keeps a list of services, each with a queue of       *)
(* events.  The first is the hub: dt_send_event appends to it and returns,  *)
(* and the transport thread moves events one at a time from the hub to the  *)
(* service they are addressed to.  dt_send_event_sync looks the service up  *)
(* in the caller's thread instead.  Both look-ups run under service_lock.   *)
(*                                                                          *)
(* A queue operation is one action: it holds that queue's event_lock from   *)
(* its first to its last access.  A look-up and the append that follows it  *)
(* are two, because dt_remove_service takes no lock and can free the        *)
(* service in between.                                                      *)
(***************************************************************************)
EXTENDS Integers, Sequences, SequencesExt, FiniteSets

CONSTANTS
  Event,       \* the event_t objects that can be allocated at one time
  Service,     \* the service_t objects besides the hub
  Id,          \* the ids services are registered and addressed by
  IdOf,        \* the id a service was allocated with
  Dest,        \* the id an event is addressed to
  Client,      \* threads that send events
  Transport,   \* the thread of event_transport_loop
  None

ASSUME EventServiceAssumption ==
  /\ IdOf \in [Service -> Id]
  /\ Dest \in [Event -> Id]
  /\ Transport \notin Client
  /\ None \notin Event \cup Service \cup Client \cup {Transport}

Thread == Client \cup {Transport}

VARIABLES
  hub,          \* the events of the main service
  queue,        \* the events of every other service
  list,         \* the services linked behind the main service
  live,         \* the services allocated and not yet freed
  service_lock, \* the thread holding the lock of the manager, or None
  exit_flag,    \* set by dt_service_release
  pc,           \* where each thread stands in dt_event.c
  event,        \* the event a thread is transporting
  target,       \* the service a thread found and still holds a pointer to
  mgt,          \* "up", or "joining" in dt_service_release, or "freed"
  unsent,       \* the event_t not allocated
  order,        \* history: <<e, f>> were sent through the hub, e no later than f,
                \* and neither has been taken
  lost          \* history: events nobody can take or free any more

vars == <<hub, queue, list, live, service_lock, exit_flag, pc, event, target,
          mgt, unsent, order, lost>>

queues == <<hub, queue>>
manager == <<exit_flag, mgt>>
services == <<list, live>>
threads == <<service_lock, pc, event, target>>
history == <<order, lost>>

(* dt_service_create: the hub is registered and the transport thread runs.  *)
Init ==
  /\ hub = <<>>
  /\ queue = [s \in Service |-> <<>>]
  /\ list = <<>>
  /\ live = {}
  /\ service_lock = None
  /\ exit_flag = FALSE
  /\ pc = [t \in Thread |-> IF t = Transport THEN "loop" ELSE "idle"]
  /\ event = [t \in Thread |-> None]
  /\ target = [t \in Thread |-> None]
  /\ mgt = "up"
  /\ unsent = Event
  /\ order = {}
  /\ lost = {}

(* What the history records of an event that is sent and of those that are  *)
(* taken or freed.                                                          *)
Sent(e) == order' = order \cup ({p[1] : p \in order} \cup {e}) \X {e}
Forget(S) == order' = {p \in order : p[1] \notin S /\ p[2] \notin S}

-----------------------------------------------------------------------------
(* Services.                                                                *)

Registered(s) == \E i \in DOMAIN list : list[i] = s

(* The loop that looks for the id stops in front of the last entry.         *)
SameIdFound(s) == \E i \in 1 .. Len(list) - 1 : IdOf[list[i]] = IdOf[s]

(* player_service_init and audio_service_init allocate, register and go on  *)
(* whatever dt_register_service answered.                                   *)
dt_register_service(s) ==
  /\ mgt = "up"
  /\ s \notin live
  /\ service_lock = None
  /\ live' = live \cup {s}
  /\ list' = IF SameIdFound(s) THEN list ELSE Append(list, s)
  /\ queue' = [queue EXCEPT ![s] = <<>>]
  /\ UNCHANGED <<hub, threads, manager, unsent, history>>

Entries(i) == {k \in DOMAIN list : IdOf[list[k]] = i}
First(i) == CHOOSE k \in Entries(i) : \A j \in Entries(i) : k <= j

(* Mutant of Lookup: it stops in front of the last entry, as the check of   *)
(* dt_register_service does.                                                *)
LookupSkipsLast(i) == IF Entries(i) \ {Len(list)} = {} THEN None ELSE list[First(i)]

(* The first listed service with an id; None when there is none.            *)
Lookup(i) == IF Entries(i) = {} THEN None ELSE list[First(i)]

(* Mutant of dt_remove_service: freed and not unlinked.                     *)
dt_remove_service_linked(s) ==
  /\ mgt = "up"
  /\ s \in live
  /\ live' = live \ {s}
  /\ UNCHANGED <<queues, list, threads, manager, unsent, history>>

(* Events still queued are freed, the first entry with the same id is       *)
(* unlinked, and the service the caller named is freed.  No lock is taken.  *)
dt_remove_service(s) ==
  /\ mgt = "up"
  /\ s \in live
  /\ unsent' = unsent \cup ToSet(queue[s])
  /\ Forget(ToSet(queue[s]))
  /\ queue' = [queue EXCEPT ![s] = <<>>]
  /\ list' = IF Entries(IdOf[s]) = {} THEN list ELSE RemoveAt(list, First(IdOf[s]))
  /\ live' = live \ {s}
  /\ UNCHANGED <<hub, threads, manager, lost>>

-----------------------------------------------------------------------------
(* Sending.                                                                 *)

(* Mutant of dt_send_event: the new event becomes the head of the list.     *)
dt_send_event_first(c, e) ==
  /\ mgt # "freed"
  /\ pc[c] = "idle"
  /\ e \in unsent
  /\ unsent' = unsent \ {e}
  /\ hub' = <<e>> \o hub
  /\ Sent(e)
  /\ UNCHANGED <<queue, services, threads, manager, lost>>

dt_send_event(c, e) ==
  /\ mgt # "freed"
  /\ pc[c] = "idle"
  /\ e \in unsent
  /\ unsent' = unsent \ {e}
  /\ hub' = Append(hub, e)
  /\ Sent(e)
  /\ UNCHANGED <<queue, services, threads, manager, lost>>

dt_send_event_sync(c, e) ==
  /\ mgt # "freed"
  /\ pc[c] = "idle"
  /\ e \in unsent
  /\ unsent' = unsent \ {e}
  /\ event' = [event EXCEPT ![c] = e]
  /\ pc' = [pc EXCEPT ![c] = "lock"]
  /\ UNCHANGED <<queues, services, service_lock, target, manager, history>>

-----------------------------------------------------------------------------
(* dt_transport_event, run by the transport thread and by synchronous       *)
(* senders.  A thread is back where it was called from after the last step. *)

Return(t) == IF t = Transport THEN "loop" ELSE "idle"

transport_found(t) ==
  /\ pc[t] = "lock"
  /\ service_lock = None
  /\ Lookup(Dest[event[t]]) # None
  /\ service_lock' = t
  /\ target' = [target EXCEPT ![t] = Lookup(Dest[event[t]])]
  /\ pc' = [pc EXCEPT ![t] = "add"]
  /\ UNCHANGED <<queues, services, event, manager, unsent, history>>

(* No service has the id: -1, which no caller looks at; the event is not    *)
(* freed.                                                                   *)
transport_not_found(t) ==
  /\ pc[t] = "lock"
  /\ service_lock = None
  /\ Lookup(Dest[event[t]]) = None
  /\ lost' = lost \cup {event[t]}
  /\ Forget({event[t]})
  /\ event' = [event EXCEPT ![t] = None]
  /\ pc' = [pc EXCEPT ![t] = Return(t)]
  /\ UNCHANGED <<queues, services, service_lock, target, manager, unsent>>

dt_add_event(t) ==
  /\ pc[t] = "add"
  /\ queue' = [queue EXCEPT ![target[t]] = Append(@, event[t])]
  /\ service_lock' = None
  /\ event' = [event EXCEPT ![t] = None]
  /\ target' = [target EXCEPT ![t] = None]
  /\ pc' = [pc EXCEPT ![t] = Return(t)]
  /\ UNCHANGED <<hub, services, manager, unsent, history>>

dt_transport_event(t) ==
  transport_found(t) \/ transport_not_found(t) \/ dt_add_event(t)

(* One turn of event_transport_loop: leave, or take the oldest event of the *)
(* hub.  With an empty hub the thread sleeps and comes back, a stutter.     *)
transport_quit ==
  /\ pc[Transport] = "loop"
  /\ exit_flag
  /\ pc' = [pc EXCEPT ![Transport] = "exited"]
  /\ UNCHANGED <<queues, services, service_lock, event, target, manager,
                 unsent, history>>

(* Mutant of transport_get: the last event of the hub is left there.        *)
transport_get_all_but_one ==
  /\ pc[Transport] = "loop"
  /\ ~exit_flag
  /\ Len(hub) > 1
  /\ event' = [event EXCEPT ![Transport] = Head(hub)]
  /\ hub' = Tail(hub)
  /\ pc' = [pc EXCEPT ![Transport] = "lock"]
  /\ UNCHANGED <<queue, services, service_lock, target, manager, unsent,
                 history>>

(* Mutant of transport_get: the event is read and not unlinked.             *)
transport_get_peeks ==
  /\ pc[Transport] = "loop"
  /\ ~exit_flag
  /\ hub # <<>>
  /\ event' = [event EXCEPT ![Transport] = Head(hub)]
  /\ pc' = [pc EXCEPT ![Transport] = "lock"]
  /\ UNCHANGED <<queues, services, service_lock, target, manager, unsent,
                 history>>

transport_get ==
  /\ pc[Transport] = "loop"
  /\ ~exit_flag
  /\ hub # <<>>
  /\ event' = [event EXCEPT ![Transport] = Head(hub)]
  /\ hub' = Tail(hub)
  /\ pc' = [pc EXCEPT ![Transport] = "lock"]
  /\ UNCHANGED <<queue, services, service_lock, target, manager, unsent,
                 history>>

event_transport_loop ==
  transport_quit \/ transport_get \/ dt_transport_event(Transport)

-----------------------------------------------------------------------------
(* The owner of a service takes and frees its oldest event.                 *)

dt_get_event(s) ==
  /\ s \in live
  /\ queue[s] # <<>>
  /\ unsent' = unsent \cup {Head(queue[s])}
  /\ Forget({Head(queue[s])})
  /\ queue' = [queue EXCEPT ![s] = Tail(@)]
  /\ UNCHANGED <<hub, services, threads, manager, lost>>

(* dt_service_release holds service_lock while it joins the transport       *)
(* thread.                                                                  *)
release_begin(c) ==
  /\ mgt = "up"
  /\ pc[c] = "idle"
  /\ service_lock = None
  /\ service_lock' = c
  /\ exit_flag' = TRUE
  /\ mgt' = "joining"
  /\ pc' = [pc EXCEPT ![c] = "join"]
  /\ UNCHANGED <<queues, services, event, target, unsent, history>>

(* The thread is gone: every service left is freed, the hub included.       *)
release_end(c) ==
  /\ pc[c] = "join"
  /\ pc[Transport] = "exited"
  /\ mgt' = "freed"
  /\ list' = <<>>
  /\ live' = live \ ToSet(list)
  /\ hub' = <<>>
  /\ queue' = [s \in Service |-> IF Registered(s) THEN <<>> ELSE queue[s]]
  /\ LET freed == ToSet(hub) \cup UNION {ToSet(queue[s]) : s \in ToSet(list)} IN
       /\ unsent' = unsent \cup freed
       /\ Forget(freed)
  /\ service_lock' = None
  /\ pc' = [pc EXCEPT ![c] = "idle"]
  /\ UNCHANGED <<event, target, exit_flag, lost>>
=============================================================================
