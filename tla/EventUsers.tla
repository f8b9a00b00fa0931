----------------------------- MODULE EventUsers -----------------------------
(***************************************************************************)
(* dt_event.c as dtaudio and dtplayer use it.  A service has an owner: the  *)
(* event loop of the audio part or of the player, which takes its events    *)
(* one by one, leaves its loop on a STOP event and is then joined and       *)
(* removed.  Clients allocate and send events; one of them, the player's    *)
(* event loop on its way out, releases the manager.                         *)
(*                                                                          *)
(* How the clients behave is settled with the first state (conduct).        *)
(* dtaudio_stop sends STOP last, from the one thread that talks to the      *)
(* audio service.  An application may press pause after stop, or while the  *)
(* file ends, and a service may fail to start after it registered.          *)
(***************************************************************************)
EXTENDS EventService

CONSTANTS
  Sync,         \* the events sent with dt_send_event_sync: SEEK
  Senders,      \* the clients that address an id
  Releaser,     \* the client that calls dt_service_release
  Restarts,     \* ids whose service is started again after its removal
  Conducts      \* the ways the clients may behave:
                \*   stop      the events that end the loop of the owner they reach
                \*   last      nothing is sent to a service after its STOP
                \*   may_fail  ids whose owner may fail to start after it registered

ASSUME EventUsersAssumption ==
  /\ Sync \subseteq Event
  /\ Senders \in [Id -> SUBSET Client]
  /\ Releaser \in Client
  /\ Restarts \subseteq Id
  /\ Conducts \subseteq
       [stop : SUBSET (Event \ Sync), last : BOOLEAN, may_fail : SUBSET Id]

VARIABLES
  looping,   \* the services whose owner is in its event loop
  quit,      \* the services whose owner left its loop
  stopping,  \* the ids that were sent a STOP since their service was started
  started,   \* the ids whose service was started at least once
  conduct    \* how the clients of this run behave

uservars == <<looping, quit, stopping, started>>
allvars == <<vars, uservars, conduct>>

Stop == conduct.stop
StopIsLast == conduct.last
MayFail == conduct.may_fail

(* The clients behave as the player's own parts do: each id has one sender, *)
(* which sends STOP last, and every start succeeds.                         *)
Orderly ==
  /\ StopIsLast /\ MayFail = {}
  /\ \A i \in Id : \A c, d \in Senders[i] : c = d

(* What is told to stop is not started again.                               *)
Lasting == \A e \in Stop : Dest[e] \notin Restarts \cup MayFail

UsersInit ==
  /\ Init
  /\ looping = {}
  /\ quit = {}
  /\ stopping = {}
  /\ started = {}
  /\ conduct \in Conducts

(* player_prepare, dtaudio_init: register, then start the loop.  A seek     *)
(* stops and initialises the audio part again; the player starts once.      *)
start_service(s) ==
  /\ IdOf[s] \in started => IdOf[s] \in Restarts
  /\ \A u \in live : IdOf[u] = IdOf[s] => u \notin looping \cup quit
  /\ dt_register_service(s)
  /\ looping' = looping \cup {s}
  /\ stopping' = stopping \ {IdOf[s]}
  /\ started' = started \cup {IdOf[s]}
  /\ UNCHANGED quit

(* dtaudio_init: when audio_init fails the service stays registered and the *)
(* pointer to it is dropped.                                                *)
start_fails(s) ==
  /\ IdOf[s] \in MayFail
  /\ \A u \in live : IdOf[u] = IdOf[s] => u \notin looping \cup quit
  /\ dt_register_service(s)
  /\ UNCHANGED uservars

(* The owner of s is in its loop and, with StopIsLast, has not been told to *)
(* leave it; otherwise a client knows only that it was started once.        *)
MaySend(c, e) ==
  /\ c \in Senders[Dest[e]]
  /\ Dest[e] \in started
  /\ StopIsLast => /\ Dest[e] \notin stopping
                   /\ \E s \in looping : IdOf[s] = Dest[e]

send(c, e) ==
  /\ e \notin Sync
  /\ MaySend(c, e)
  /\ dt_send_event(c, e)
  /\ stopping' = IF e \in Stop THEN stopping \cup {Dest[e]} ELSE stopping
  /\ UNCHANGED <<looping, quit, started>>

send_sync(c, e) ==
  /\ e \in Sync
  /\ MaySend(c, e)
  /\ dt_send_event_sync(c, e)
  /\ UNCHANGED uservars

(* event_handle_loop of the service's owner.                                *)
handle_event(s) ==
  /\ s \in looping
  /\ dt_get_event(s)
  /\ IF Head(queue[s]) \in Stop
     THEN looping' = looping \ {s} /\ quit' = quit \cup {s}
     ELSE UNCHANGED <<looping, quit>>
  /\ UNCHANGED <<stopping, started>>

(* dtaudio_stop after the join, and the player's own exit.                  *)
remove_service(s) ==
  /\ s \in quit
  /\ dt_remove_service(s)
  /\ quit' = quit \ {s}
  /\ UNCHANGED <<looping, stopping, started>>

(* Mutant of release_service: not after the host was stopped, only after    *)
(* the player's own loop was left.                                          *)
release_service_early(c) ==
  /\ c = Releaser
  /\ \E s \in quit : c \notin Senders[IdOf[s]]
  /\ release_begin(c)
  /\ UNCHANGED uservars

(* The player releases the manager when its own service is gone too.        *)
release_service(c) ==
  /\ c = Releaser
  /\ started # {}
  /\ looping \cup quit = {}
  /\ release_begin(c)
  /\ UNCHANGED uservars

transport == event_transport_loop /\ UNCHANGED uservars

finish_sync(c) == dt_transport_event(c) /\ UNCHANGED uservars

finish_release(c) == release_end(c) /\ UNCHANGED uservars

UsersNext ==
  /\ UNCHANGED conduct
  /\ \/ \E s \in Service : start_service(s)
     \/ \E s \in Service : start_fails(s)
     \/ \E c \in Client, e \in Event : send(c, e)
     \/ \E c \in Client, e \in Event : send_sync(c, e)
     \/ \E c \in Client : finish_sync(c)
     \/ \E s \in Service : handle_event(s)
     \/ \E s \in Service : remove_service(s)
     \/ \E c \in Client : release_service(c)
     \/ \E c \in Client : finish_release(c)
     \/ transport

Spec == UsersInit /\ [][UsersNext]_allvars

(* Threads in a loop or in the middle of a call go on; what starts a call   *)
(* (an application, a service coming up, the end of the file) need not      *)
(* happen.  service_lock is held for a few instructions, and the only other *)
(* contenders are commands of a person, so a thread that wants it gets it.  *)
Fairness ==
  /\ WF_allvars(transport /\ UNCHANGED conduct)
  /\ SF_allvars(transport_found(Transport) /\ UNCHANGED <<uservars, conduct>>)
  /\ \A c \in Client : /\ SF_allvars(finish_sync(c) /\ UNCHANGED conduct)
                       /\ WF_allvars(finish_release(c) /\ UNCHANGED conduct)
  /\ \A s \in Service : WF_allvars(handle_event(s) /\ UNCHANGED conduct)

FairSpec == Spec /\ Fairness

-----------------------------------------------------------------------------

TypeOK ==
  /\ hub \in Seq(Event)
  /\ queue \in [Service -> Seq(Event)]
  /\ list \in Seq(Service)
  /\ live \subseteq Service
  /\ service_lock \in Thread \cup {None}
  /\ exit_flag \in BOOLEAN
  /\ pc \in [Thread -> {"idle", "loop", "lock", "add", "join", "exited"}]
  /\ event \in [Thread -> Event \cup {None}]
  /\ target \in [Thread -> Service \cup {None}]
  /\ mgt \in {"up", "joining", "freed"}
  /\ unsent \subseteq Event
  /\ order \subseteq Event \X Event
  /\ lost \subseteq Event
  /\ looping \subseteq Service
  /\ quit \subseteq Service
  /\ stopping \subseteq Id
  /\ started \subseteq Id
  /\ conduct \in Conducts

(* service_lock: whoever stands between its dt_lock and dt_unlock holds it, *)
(* so two threads never walk or join under it together.                     *)
LockHeld ==
  \A t \in Thread : pc[t] \in {"add", "join"} <=> service_lock = t

(* dt_event.c moves event_t pointers between lists; each allocated event is *)
(* always in exactly one of them, so none is freed twice or handled twice.  *)
Homes(e) ==
  {<<"unsent">> : x \in unsent \cap {e}} \cup {<<"lost">> : x \in lost \cap {e}}
  \cup {<<"hub", k>> : k \in {j \in DOMAIN hub : hub[j] = e}}
  \cup {<<"thread", t>> : t \in {u \in Thread : event[u] = e}}
  \cup UNION {{<<"queue", s, k>> : k \in {j \in DOMAIN queue[s] : queue[s][j] = e}} : s \in Service}

OneHome == \A e \in Event : Cardinality(Homes(e)) = 1

(* Commands sent through the hub reach a service in the order they were     *)
(* sent, however hub, transport thread and service queue share them out:    *)
(* pause-resume is never seen as resume-pause while the clients are orderly. *)
InHub(e) == \E k \in DOMAIN hub : hub[k] = e
InHand(e) == event[Transport] = e
InQueue(e) == \E s \in Service : \E k \in DOMAIN queue[s] : queue[s][k] = e

Precedes(e, f, seq) == \E j, k \in DOMAIN seq : j < k /\ seq[j] = e /\ seq[k] = f

Ahead(e, f) ==
  \/ \E s \in Service : Precedes(e, f, queue[s])
  \/ InQueue(e) /\ (InHand(f) \/ InHub(f))
  \/ InHand(e) /\ InHub(f)
  \/ Precedes(e, f, hub)

InOrder ==
  \A p \in order : p[1] # p[2] /\ Dest[p[1]] = Dest[p[2]] => Ahead(p[1], p[2])

HubOrder == Orderly => InOrder

(* dt_remove_service frees a service without a lock: while the clients are  *)
(* orderly no thread is between finding that service and appending to it.   *)
NoDanglingPointer ==
  Orderly => /\ \A t \in Thread : target[t] # None => target[t] \in live
             /\ \A i \in DOMAIN list : list[i] \in live

(* Every event reaches a registered service.                                *)
NothingLost == lost = {}

(* What dt_alloc_event gave out is neither freed nor handled twice, whatever *)
(* is sent and when, if what was stopped is not started again or the        *)
(* clients are orderly; and with orderly clients it is not left behind by a *)
(* look-up that finds no service (dt_event.c:268-292, :347-410).            *)
EventsKept ==
  /\ Orderly \/ Lasting => OneHome
  /\ Orderly => NothingLost

(* An event that an orderly client sent is freed in the end: its service's  *)
(* owner takes it, or it goes with the hub when the manager is released.    *)
AllDelivered == \A e \in Event : Orderly /\ e \notin unsent ~> e \in unsent

(* dt_event.c:117-141: dt_service_release joins the transport thread while  *)
(* it holds the lock that thread takes for each event.  Where the clients   *)
(* were orderly there is none left, and the release ends.                   *)
ReleaseEnds == Orderly /\ mgt = "joining" ~> mgt = "freed"
=============================================================================
