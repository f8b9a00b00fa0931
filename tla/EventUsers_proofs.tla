-------------------------- MODULE EventUsers_proofs --------------------------
(* Why a service may be removed without the lock: for any number of         *)
(* services, clients and events, if an id has one sender, which sends its   *)
(* STOP last, and every start succeeds, then nothing is under way to a      *)
(* service when its owner leaves the loop.  No thread can hold a pointer to *)
(* it, and no event looks for a service that is gone.                       *)
EXTENDS EventUsers, FiniteSetTheorems, SequenceTheorems, TLAPS

USE DEF Stop, StopIsLast, MayFail

Types ==
  /\ hub \in Seq(Event)
  /\ queue \in [Service -> Seq(Event)]
  /\ list \in Seq(Service)
  /\ pc \in [Thread -> {"idle", "loop", "lock", "add", "join", "exited"}]
  /\ event \in [Thread -> Event \cup {None}]
  /\ target \in [Thread -> Service \cup {None}]
  /\ looping \subseteq Service /\ quit \subseteq Service /\ stopping \subseteq Id
  /\ conduct \in Conducts

\* The services are those with an owner, and each has its id for itself.
Owned ==
  /\ looping \cap quit = {}
  /\ live = looping \cup quit
  /\ \A s \in Service : s \in live <=> \E k \in DOMAIN list : list[k] = s
  /\ \A k, l \in DOMAIN list : IdOf[list[k]] = IdOf[list[l]] => k = l
  /\ mgt # "up" => live = {}

\* What a thread in dt_transport_event holds, and when one releases.
Hands ==
  \A t \in Thread :
    /\ event[t] # None <=> pc[t] \in {"lock", "add"}
    /\ target[t] # None <=> pc[t] = "add"
    /\ target[t] # None => target[t] \in looping /\ IdOf[target[t]] = Dest[event[t]]
    /\ pc[t] = "join" => mgt # "up"

\* An event that has been sent and is not in its service's queue yet.
Travels(e) == (\E k \in DOMAIN hub : hub[k] = e) \/ (\E t \in Thread : event[t] = e)

\* Events are for services in their loops.
Expected ==
  /\ \A e \in Event : Travels(e) => \E s \in looping : IdOf[s] = Dest[e]
  /\ \A s \in Service :
       /\ queue[s] # <<>> => s \in looping
       /\ \A k \in DOMAIN queue[s] : Dest[queue[s][k]] = IdOf[s]

\* Nothing for a service is behind its STOP, wherever that is.
StopBehindAll ==
  /\ \A k \in DOMAIN hub : hub[k] \in Stop =>
       /\ Dest[hub[k]] \in stopping
       /\ \A l \in DOMAIN hub : l > k => Dest[hub[l]] # Dest[hub[k]]
  /\ \A t \in Thread : event[t] \in Stop =>
       /\ t = Transport /\ Dest[event[t]] \in stopping
       /\ \A k \in DOMAIN hub : Dest[hub[k]] # Dest[event[t]]
  /\ \A s \in Service : \A k \in DOMAIN queue[s] : queue[s][k] \in Stop =>
       /\ k = Len(queue[s]) /\ IdOf[s] \in stopping
       /\ \A e \in Event : Travels(e) => Dest[e] # IdOf[s]

\* A synchronous sender is the one sender of its event's id, and has not sent
\* STOP.
SyncAlone ==
  \A c \in Client : event[c] # None =>
    /\ event[c] \in Sync /\ c \in Senders[Dest[event[c]]]
    /\ Dest[event[c]] \notin stopping

UInv == Types /\ Owned /\ Hands /\ Expected /\ StopBehindAll /\ SyncAlone

-----------------------------------------------------------------------------
LEMMA Apart ==
  /\ None \notin Event /\ None \notin Service /\ Transport \notin Client
  /\ Thread = Client \cup {Transport}
  /\ Sync \subseteq Event
  /\ conduct \in Conducts => Stop \subseteq Event /\ Sync \cap Stop = {}
  /\ IdOf \in [Service -> Id] /\ Dest \in [Event -> Id] /\ Senders \in [Id -> SUBSET Client]
BY EventServiceAssumption, EventUsersAssumption DEF Thread

\* dt_transport_event finds the service of an id when there is one.
LEMMA Found ==
  ASSUME Types, Owned, NEW s \in live
  PROVE  /\ Lookup(IdOf[s]) = s
         /\ Entries(IdOf[s]) # {}
         /\ First(IdOf[s]) \in DOMAIN list /\ list[First(IdOf[s])] = s
<1>1. PICK k \in DOMAIN list : list[k] = s
  BY DEF Types, Owned
<1>2. Entries(IdOf[s]) = {k}
  BY <1>1 DEF Entries, Owned
<1>3. k <= k
  BY <1>1 DEF Types
<1>4. First(IdOf[s]) = k
  BY <1>2, <1>3 DEF First
<1> QED BY <1>1, <1>2, <1>4 DEF Lookup

LEMMA UsersInitially == UsersInit => UInv
<1> SUFFICES ASSUME UsersInit PROVE UInv
  OBVIOUS
<1> USE DEF UsersInit, Init
<1>1. Types
  BY Apart DEF Types
<1>2. Owned /\ Hands /\ SyncAlone
  BY Apart DEF Owned, Hands, SyncAlone
<1>3. Expected /\ StopBehindAll
  BY Apart DEF Expected, StopBehindAll, Travels
<1> QED BY <1>1, <1>2, <1>3 DEF UInv

\* player_prepare, dtaudio_init.
LEMMA StartKeeps ==
  ASSUME Orderly, UInv, NEW s \in Service, start_service(s), UNCHANGED conduct
  PROVE  UInv'
<1>1. /\ s \notin live /\ live' = live \cup {s} /\ mgt = "up" /\ mgt' = "up"
      /\ queue' = [queue EXCEPT ![s] = <<>>]
      /\ looping' = looping \cup {s} /\ quit' = quit
      /\ stopping' = stopping \ {IdOf[s]}
      /\ UNCHANGED <<hub, pc, event, target>>
  BY DEF start_service, dt_register_service, threads, manager
<1>2. \A u \in live : IdOf[u] # IdOf[s]
  BY DEF start_service, UInv, Owned
<1>3. list' = Append(list, s)
  <2>1. \A k \in DOMAIN list : IdOf[list[k]] # IdOf[s]
    BY <1>2 DEF UInv, Owned, Types
  <2>2. ~SameIdFound(s)
    BY <2>1 DEF SameIdFound, UInv, Types
  <2> QED BY <2>2 DEF start_service, dt_register_service
<1>4. Types'
  BY <1>1, <1>3 DEF UInv, Types
<1>5. Owned'
  <2>1. /\ list \in Seq(Service) /\ DOMAIN list' = 1 .. Len(list) + 1
        /\ \A k \in DOMAIN list : list'[k] = list[k]
        /\ DOMAIN list = 1 .. Len(list) /\ list'[Len(list) + 1] = s
    BY <1>3 DEF UInv, Types
  <2>2. (looping \cap quit = {})' /\ (live = looping \cup quit)' /\ (mgt # "up" => live = {})'
    BY <1>1 DEF UInv, Owned
  <2>3. \A u \in Service : u \in live' <=> \E k \in DOMAIN list' : list'[k] = u
    BY <1>1, <2>1 DEF UInv, Owned
  <2>4. \A k, l \in DOMAIN list' : IdOf[list'[k]] = IdOf[list'[l]] => k = l
    <3>1. \A k \in DOMAIN list : list[k] \in live
      BY <2>1 DEF UInv, Owned
    <3> QED BY <1>2, <2>1, <3>1 DEF UInv, Owned
  <2> QED BY <2>2, <2>3, <2>4 DEF Owned
<1>6. Hands'
  BY <1>1 DEF UInv, Hands
<1>7. \A e \in Event : Travels(e)' = Travels(e)
  BY <1>1 DEF Travels
<1>8. Expected'
  BY <1>1, <1>7 DEF UInv, Expected, Types
<1>9. \A e \in Event : Travels(e) => Dest[e] # IdOf[s]
  BY <1>2 DEF UInv, Expected, Owned
<1>10. StopBehindAll'
  <2>1. \A k \in DOMAIN hub : hub[k] \in Event /\ Travels(hub[k])
    BY DEF UInv, Types, Travels
  <2>2. \A t \in Thread : event[t] \in Stop => event[t] \in Event /\ Travels(event[t])
    BY Apart DEF UInv, Types, Travels
  <2>3. \A u \in Service : \A k \in DOMAIN queue'[u] :
          u # s /\ queue'[u] = queue[u] /\ IdOf[u] # IdOf[s]
    <3>1. \A u \in Service : \A k \in DOMAIN queue'[u] : u # s /\ queue'[u] = queue[u]
      BY <1>1 DEF UInv, Types
    <3>2. \A u \in Service : \A k \in DOMAIN queue[u] : u \in live
      BY DEF UInv, Expected, Types, Owned
    <3> QED BY <1>2, <3>1, <3>2
  <2>4. (\A k \in DOMAIN hub : hub[k] \in Stop =>
           /\ Dest[hub[k]] \in stopping
           /\ \A l \in DOMAIN hub : l > k => Dest[hub[l]] # Dest[hub[k]])'
    BY <1>1, <1>9, <2>1 DEF UInv, StopBehindAll
  <2>5. (\A t \in Thread : event[t] \in Stop =>
           /\ t = Transport /\ Dest[event[t]] \in stopping
           /\ \A k \in DOMAIN hub : Dest[hub[k]] # Dest[event[t]])'
    BY <1>1, <1>9, <2>2 DEF UInv, StopBehindAll
  <2>6. (\A u \in Service : \A k \in DOMAIN queue[u] : queue[u][k] \in Stop =>
           /\ k = Len(queue[u]) /\ IdOf[u] \in stopping
           /\ \A e \in Event : Travels(e) => Dest[e] # IdOf[u])'
    BY <1>1, <1>7, <2>3 DEF UInv, StopBehindAll
  <2> QED BY <2>4, <2>5, <2>6 DEF StopBehindAll
<1>11. SyncAlone'
  BY <1>1 DEF UInv, SyncAlone
<1> QED BY <1>4, <1>5, <1>6, <1>8, <1>10, <1>11 DEF UInv
\* Sending through the hub: nothing for this id is behind a STOP.
LEMMA SendKeeps ==
  ASSUME Orderly, UInv, NEW c \in Client, NEW e \in Event, send(c, e), UNCHANGED conduct
  PROVE  UInv'
<1>1. /\ pc[c] = "idle" /\ e \notin Sync /\ hub' = Append(hub, e)
      /\ c \in Senders[Dest[e]] /\ Dest[e] \notin stopping
      /\ \E s \in looping : IdOf[s] = Dest[e]
      /\ stopping' = IF e \in Stop THEN stopping \cup {Dest[e]} ELSE stopping
      /\ UNCHANGED <<queue, list, live, pc, event, target, mgt, looping, quit>>
  BY DEF send, MaySend, dt_send_event, Orderly, services, threads, manager
<1>2. /\ DOMAIN hub' = 1 .. Len(hub) + 1 /\ DOMAIN hub = 1 .. Len(hub) /\ Len(hub) \in Nat
      /\ \A k \in DOMAIN hub : hub'[k] = hub[k] /\ hub[k] \in Event
      /\ hub'[Len(hub) + 1] = e
  BY <1>1 DEF UInv, Types
<1>3. Types'
  BY <1>1, Apart DEF UInv, Types
<1>4. Owned' /\ Hands'
  BY <1>1 DEF UInv, Owned, Hands
<1>5. \A f \in Event : Travels(f)' <=> Travels(f) \/ f = e
  BY <1>1, <1>2 DEF Travels
<1>6. Expected'
  BY <1>1, <1>5 DEF UInv, Expected
<1>7. StopBehindAll'
  <2>1. (\A k \in DOMAIN hub : hub[k] \in Stop =>
           /\ Dest[hub[k]] \in stopping
           /\ \A l \in DOMAIN hub : l > k => Dest[hub[l]] # Dest[hub[k]])'
    BY <1>1, <1>2 DEF UInv, StopBehindAll
  <2>2. (\A t \in Thread : event[t] \in Stop =>
           /\ t = Transport /\ Dest[event[t]] \in stopping
           /\ \A k \in DOMAIN hub : Dest[hub[k]] # Dest[event[t]])'
    BY <1>1, <1>2 DEF UInv, StopBehindAll
  <2>3. (\A s \in Service : \A k \in DOMAIN queue[s] : queue[s][k] \in Stop =>
           /\ k = Len(queue[s]) /\ IdOf[s] \in stopping
           /\ \A f \in Event : Travels(f) => Dest[f] # IdOf[s])'
    BY <1>1, <1>5 DEF UInv, StopBehindAll
  <2> QED BY <2>1, <2>2, <2>3 DEF StopBehindAll
<1>8. SyncAlone'
  <2>1. event[c] = None
    BY <1>1, Apart DEF UInv, Hands
  <2>2. ASSUME NEW d \in Client, event[d] # None PROVE Dest[event[d]] # Dest[e]
    <3>1. d # c /\ d \in Senders[Dest[event[d]]] /\ event[d] \in Event
      BY <2>1, <2>2, Apart DEF UInv, SyncAlone
    <3>2. Dest[e] \in Id
      BY Apart
    <3> QED BY <1>1, <3>1, <3>2 DEF Orderly
  <2> QED BY <1>1, <2>2 DEF UInv, SyncAlone
<1> QED BY <1>3, <1>4, <1>6, <1>7, <1>8 DEF UInv

\* Sending past the hub: the sender has not sent STOP, nor has anyone else.
LEMMA SendSyncKeeps ==
  ASSUME Orderly, UInv, NEW c \in Client, NEW e \in Event, send_sync(c, e),
         UNCHANGED conduct
  PROVE  UInv'
<1>1. /\ pc[c] = "idle" /\ e \in Sync
      /\ c \in Senders[Dest[e]] /\ Dest[e] \notin stopping
      /\ \E s \in looping : IdOf[s] = Dest[e]
      /\ event' = [event EXCEPT ![c] = e] /\ pc' = [pc EXCEPT ![c] = "lock"]
      /\ UNCHANGED <<hub, queue, list, live, target, mgt, looping, quit, stopping>>
  BY DEF send_sync, MaySend, dt_send_event_sync, Orderly, queues, services, manager, uservars
<1>2. /\ c \in Thread /\ c # Transport /\ e # None /\ e \notin Stop
      /\ event[c] = None /\ target[c] = None
  BY <1>1, Apart DEF UInv, Hands, Types
<1>3. Types'
  BY <1>1, <1>2 DEF UInv, Types
<1>4. Owned'
  BY <1>1 DEF UInv, Owned
<1>5. /\ event'[c] = e /\ pc'[c] = "lock"
      /\ \A t \in Thread : t # c => event'[t] = event[t] /\ pc'[t] = pc[t]
  BY <1>1, <1>2 DEF UInv, Types
<1>6. Hands'
  BY <1>1, <1>2, <1>5 DEF UInv, Hands
<1>7. \A f \in Event : Travels(f)' => Travels(f) \/ f = e
  BY <1>1, <1>5 DEF Travels
<1>8. Expected'
  BY <1>1, <1>7 DEF UInv, Expected
<1>9. StopBehindAll'
  <2>1. (\A t \in Thread : event[t] \in Stop =>
           /\ t = Transport /\ Dest[event[t]] \in stopping
           /\ \A k \in DOMAIN hub : Dest[hub[k]] # Dest[event[t]])'
    BY <1>1, <1>2, <1>5 DEF UInv, StopBehindAll
  <2>2. (\A s \in Service : \A k \in DOMAIN queue[s] : queue[s][k] \in Stop =>
           /\ k = Len(queue[s]) /\ IdOf[s] \in stopping
           /\ \A f \in Event : Travels(f) => Dest[f] # IdOf[s])'
    BY <1>1, <1>7 DEF UInv, StopBehindAll
  <2> QED BY <1>1, <2>1, <2>2 DEF UInv, StopBehindAll
<1>10. SyncAlone'
  BY <1>1, <1>5, Apart DEF UInv, SyncAlone
<1> QED BY <1>3, <1>4, <1>6, <1>8, <1>9, <1>10 DEF UInv

\* The owner takes its oldest event; a STOP is the last there is.
LEMMA HandleKeeps ==
  ASSUME Orderly, UInv, NEW s \in Service, handle_event(s), UNCHANGED conduct
  PROVE  UInv'
<1> DEFINE stop == Head(queue[s]) \in Stop
<1>1. /\ s \in looping /\ queue[s] # <<>> /\ queue' = [queue EXCEPT ![s] = Tail(@)]
      /\ looping' = IF stop THEN looping \ {s} ELSE looping
      /\ quit' = IF stop THEN quit \cup {s} ELSE quit
      /\ UNCHANGED <<hub, list, live, pc, event, target, mgt, stopping>>
  BY DEF handle_event, dt_get_event, services, threads, manager
<1>2. /\ queue[s] \in Seq(Event) /\ Len(queue[s]) \in Nat /\ Len(queue[s]) >= 1
      /\ queue'[s] = Tail(queue[s]) /\ queue'[s] \in Seq(Event)
      /\ Len(queue'[s]) = Len(queue[s]) - 1
      /\ DOMAIN queue'[s] = 1 .. Len(queue[s]) - 1 /\ DOMAIN queue[s] = 1 .. Len(queue[s])
      /\ \A k \in 1 .. Len(queue[s]) - 1 : queue'[s][k] = queue[s][k + 1]
      /\ \A u \in Service : u # s => queue'[u] = queue[u]
  BY <1>1 DEF UInv, Types
<1>3. stop => queue'[s] = <<>> /\ \A e \in Event : Travels(e) => Dest[e] # IdOf[s]
  <2> SUFFICES ASSUME stop
               PROVE  queue'[s] = <<>> /\ \A e \in Event : Travels(e) => Dest[e] # IdOf[s]
    OBVIOUS
  <2>1. 1 \in DOMAIN queue[s] /\ queue[s][1] \in Stop
    BY <1>2
  <2>2. Len(queue[s]) = 1 /\ \A e \in Event : Travels(e) => Dest[e] # IdOf[s]
    BY <2>1 DEF UInv, StopBehindAll
  <2> QED BY <1>2, <2>2
<1> HIDE DEF stop
<1>4. Types'
  BY <1>1, <1>2 DEF UInv, Types
<1>5. Owned'
  BY <1>1 DEF UInv, Owned
<1>6. Hands'
  <2>1. ASSUME NEW t \in Thread, stop, target[t] # None PROVE target[t] # s
    <3>1. event[t] \in Event
      BY <2>1 DEF UInv, Hands, Types
    <3>2. Travels(event[t])
      BY <3>1 DEF Travels
    <3> QED BY <1>3, <2>1, <3>1, <3>2 DEF UInv, Hands
  <2> QED BY <1>1, <2>1 DEF UInv, Hands
<1>7. \A e \in Event : Travels(e)' = Travels(e)
  BY <1>1 DEF Travels
<1>8. Expected'
  <2>1. ASSUME NEW e \in Event, Travels(e) PROVE \E u \in looping' : IdOf[u] = Dest[e]
    BY <1>1, <1>3, <2>1 DEF UInv, Expected
  <2>2. ASSUME NEW u \in Service PROVE queue'[u] # <<>> => u \in looping'
    BY <1>1, <1>2, <1>3 DEF UInv, Expected
  <2>3. ASSUME NEW u \in Service, NEW k \in DOMAIN queue'[u]
        PROVE  Dest[queue'[u][k]] = IdOf[u]
    <3>1. CASE u # s
      BY <1>2, <2>3, <3>1 DEF UInv, Expected
    <3>2. CASE u = s
      <4>1. k \in 1 .. Len(queue[s]) - 1 /\ queue'[s][k] = queue[s][k + 1]
        BY <1>2, <2>3, <3>2
      <4>2. k + 1 \in DOMAIN queue[s]
        BY <1>2, <4>1
      <4> QED BY <3>2, <4>1, <4>2 DEF UInv, Expected
    <3> QED BY <3>1, <3>2
  <2> QED BY <1>7, <2>1, <2>2, <2>3 DEF Expected
<1>9. StopBehindAll'
  <2>1. ASSUME NEW u \in Service, NEW k \in DOMAIN queue'[u], queue'[u][k] \in Stop
        PROVE  /\ k = Len(queue'[u]) /\ IdOf[u] \in stopping
               /\ \A e \in Event : Travels(e) => Dest[e] # IdOf[u]
    <3>1. CASE u # s
      BY <1>2, <2>1, <3>1 DEF UInv, StopBehindAll
    <3>2. CASE u = s
      <4>1. k \in 1 .. Len(queue[s]) - 1 /\ queue[s][k + 1] \in Stop
        BY <1>2, <2>1, <3>2
      <4>2. k + 1 \in DOMAIN queue[s]
        BY <1>2, <4>1
      <4>3. /\ k + 1 = Len(queue[s]) /\ IdOf[s] \in stopping
            /\ \A e \in Event : Travels(e) => Dest[e] # IdOf[s]
        BY <4>1, <4>2 DEF UInv, StopBehindAll
      <4>4. k = Len(queue'[s])
        BY <1>2, <4>1, <4>3
      <4> QED BY <3>2, <4>3, <4>4
    <3> QED BY <3>1, <3>2
  <2> QED BY <1>1, <1>7, <2>1 DEF UInv, StopBehindAll
<1>10. SyncAlone'
  BY <1>1 DEF UInv, SyncAlone
<1> QED BY <1>4, <1>5, <1>6, <1>8, <1>9, <1>10 DEF UInv
\* A sequence without one of its entries.
LEMMA Without ==
  ASSUME NEW q \in Seq(Service), NEW n \in 1 .. Len(q)
  PROVE  /\ RemoveAt(q, n) \in Seq(Service)
         /\ DOMAIN RemoveAt(q, n) = 1 .. Len(q) - 1
         /\ \A k \in 1 .. Len(q) - 1 : RemoveAt(q, n)[k] = IF k < n THEN q[k] ELSE q[k + 1]
<1> DEFINE before == SubSeq(q, 1, n - 1)
           behind == SubSeq(q, n + 1, Len(q))
<1>1. Len(q) \in Nat /\ \A k \in 1 .. Len(q) : q[k] \in Service
  OBVIOUS
<1>2. /\ before \in Seq(Service) /\ Len(before) = n - 1
      /\ \A k \in 1 .. n - 1 : before[k] = q[k]
  BY <1>1, SubSeqProperties
<1>3. /\ behind \in Seq(Service) /\ Len(behind) = Len(q) - n
      /\ \A k \in 1 .. Len(q) - n : behind[k] = q[n + k]
  <2>1. n + 1 \in Int /\ Len(q) \in Int /\ \A k \in n + 1 .. Len(q) : q[k] \in Service
    BY <1>1
  <2>2. /\ behind \in Seq(Service)
        /\ Len(behind) = IF n + 1 <= Len(q) THEN Len(q) - (n + 1) + 1 ELSE 0
        /\ \A k \in 1 .. Len(q) - (n + 1) + 1 : behind[k] = q[(n + 1) + k - 1]
    BY <2>1, SubSeqProperties
  <2>3. \A k \in 1 .. Len(q) - n : k \in 1 .. Len(q) - (n + 1) + 1 /\ (n + 1) + k - 1 = n + k
    BY <1>1
  <2> HIDE DEF behind
  <2>4. Len(behind) = Len(q) - n
    BY <1>1, <2>2
  <2>5. \A k \in 1 .. Len(q) - n : behind[k] = q[n + k]
    BY <2>2, <2>3
  <2> QED BY <2>2, <2>4, <2>5
<1>4. RemoveAt(q, n) = before \o behind
  BY DEF RemoveAt
<1> HIDE DEF before, behind
<1>5. /\ before \o behind \in Seq(Service)
      /\ Len(before \o behind) = Len(q) - 1
      /\ \A k \in 1 .. Len(q) - 1 :
           (before \o behind)[k] = IF k <= n - 1 THEN before[k] ELSE behind[k - (n - 1)]
  BY <1>1, <1>2, <1>3
<1>6. ASSUME NEW k \in 1 .. Len(q) - 1
      PROVE  (before \o behind)[k] = IF k < n THEN q[k] ELSE q[k + 1]
  <2>1. CASE k < n
    BY <1>2, <1>5, <2>1
  <2>2. CASE k >= n
    <3>1. k - (n - 1) \in 1 .. Len(q) - n /\ n + (k - (n - 1)) = k + 1
      BY <1>1, <2>2
    <3>2. ~(k <= n - 1) /\ ~(k < n)
      BY <1>1, <2>2
    <3>3. (before \o behind)[k] = behind[k - (n - 1)]
      BY <1>5, <3>2
    <3>4. behind[k - (n - 1)] = q[n + (k - (n - 1))]
      BY <1>3, <3>1
    <3> QED BY <3>1, <3>2, <3>3, <3>4
  <2>3. k < n \/ k >= n
    BY <1>1
  <2> QED BY <2>1, <2>2, <2>3
<1>7. DOMAIN (before \o behind) = 1 .. Len(q) - 1
  BY <1>5
<1> QED BY <1>4, <1>5, <1>6, <1>7

\* dt_remove_service: the entry it unlinks is the one of the service it frees.
LEMMA RemoveKeeps ==
  ASSUME Orderly, UInv, NEW s \in Service, remove_service(s), UNCHANGED conduct
  PROVE  UInv'
<1> DEFINE n == First(IdOf[s])
<1>1. /\ s \in quit /\ s \in live /\ mgt = "up"
      /\ queue' = [queue EXCEPT ![s] = <<>>]
      /\ live' = live \ {s} /\ quit' = quit \ {s}
      /\ UNCHANGED <<hub, pc, event, target, mgt, looping, stopping>>
  BY DEF remove_service, dt_remove_service, threads, manager
<1>2. n \in DOMAIN list /\ list[n] = s /\ list' = RemoveAt(list, n)
  BY <1>1, Found DEF remove_service, dt_remove_service, UInv
<1> HIDE DEF n
<1>3. list \in Seq(Service) /\ n \in 1 .. Len(list) /\ DOMAIN list = 1 .. Len(list)
  BY <1>2 DEF UInv, Types
<1>4. /\ list' \in Seq(Service) /\ DOMAIN list' = 1 .. Len(list) - 1
      /\ \A k \in 1 .. Len(list) - 1 : list'[k] = IF k < n THEN list[k] ELSE list[k + 1]
  BY <1>2, <1>3, Without
<1>5. Types'
  BY <1>1, <1>4 DEF UInv, Types
<1>6. Owned'
  <2>1. (looping \cap quit = {})' /\ (live = looping \cup quit)' /\ (mgt # "up" => live = {})'
    BY <1>1 DEF UInv, Owned
  <2>2. ASSUME NEW k \in DOMAIN list', NEW l \in DOMAIN list', IdOf[list'[k]] = IdOf[list'[l]]
        PROVE  k = l
    <3> DEFINE was(i) == IF i < n THEN i ELSE i + 1
    <3>1. /\ was(k) \in DOMAIN list /\ list'[k] = list[was(k)]
          /\ was(l) \in DOMAIN list /\ list'[l] = list[was(l)]
      BY <1>3, <1>4, <2>2
    <3>2. was(k) = was(l)
      BY <2>2, <3>1 DEF UInv, Owned
    <3> QED BY <1>3, <1>4, <2>2, <3>2
  <2>3. ASSUME NEW k \in DOMAIN list' PROVE list'[k] \in live'
    <3> DEFINE w == IF k < n THEN k ELSE k + 1
    <3>1. w \in DOMAIN list /\ w # n /\ list'[k] = list[w]
      BY <1>3, <1>4, <2>3
    <3> HIDE DEF w
    <3>2. list[w] \in Service /\ list[w] \in live
      BY <1>3, <3>1 DEF UInv, Owned
    <3>3. list[w] # s
      BY <1>2, <3>1 DEF UInv, Owned
    <3> QED BY <1>1, <3>1, <3>2, <3>3
  <2>4. ASSUME NEW u \in live' PROVE \E k \in DOMAIN list' : list'[k] = u
    <3>1. u \in Service /\ u \in live /\ u # s
      BY <1>1, <2>4 DEF UInv, Owned, Types
    <3>2. PICK w \in DOMAIN list : list[w] = u
      BY <3>1 DEF UInv, Owned
    <3>3. w # n
      BY <1>2, <3>1, <3>2
    <3>4. CASE w < n
      <4>1. w \in DOMAIN list' /\ list'[w] = u
        BY <1>3, <1>4, <3>2, <3>4
      <4> QED BY <4>1
    <3>5. CASE w > n
      <4>1. w - 1 \in DOMAIN list' /\ list'[w - 1] = u
        BY <1>3, <1>4, <3>2, <3>5
      <4> QED BY <4>1
    <3> QED BY <1>3, <3>2, <3>3, <3>4, <3>5
  <2> QED BY <2>1, <2>2, <2>3, <2>4 DEF Owned
<1>7. Hands' /\ SyncAlone'
  BY <1>1 DEF UInv, Hands, SyncAlone
<1>8. \A e \in Event : Travels(e)' = Travels(e)
  BY <1>1 DEF Travels
<1>9. queue' = queue
  <2>1. s \notin looping
    BY <1>1 DEF UInv, Owned
  <2>2. queue[s] = <<>>
    BY <2>1 DEF UInv, Expected
  <2> QED BY <1>1, <2>2 DEF UInv, Types
<1>10. Expected' /\ StopBehindAll'
  BY <1>1, <1>8, <1>9 DEF UInv, Expected, StopBehindAll
<1> QED BY <1>5, <1>6, <1>7, <1>10 DEF UInv

\* event_transport_loop takes the oldest event of the hub.
LEMMA GetKeeps ==
  ASSUME Orderly, UInv, transport_get, UNCHANGED <<uservars, conduct>>
  PROVE  UInv'
<1> DEFINE e == Head(hub)
<1>1. /\ pc[Transport] = "loop" /\ hub # <<>> /\ hub' = Tail(hub)
      /\ event' = [event EXCEPT ![Transport] = e] /\ pc' = [pc EXCEPT ![Transport] = "lock"]
      /\ UNCHANGED <<queue, list, live, target, mgt, looping, quit, stopping>>
  BY DEF transport_get, services, manager, uservars
<1>2. /\ hub \in Seq(Event) /\ Len(hub) \in Nat /\ Len(hub) >= 1 /\ hub' \in Seq(Event)
      /\ DOMAIN hub = 1 .. Len(hub) /\ DOMAIN hub' = 1 .. Len(hub) - 1
      /\ \A k \in 1 .. Len(hub) - 1 : hub'[k] = hub[k + 1]
      /\ e = hub[1] /\ e \in Event
  BY <1>1 DEF UInv, Types
<1> HIDE DEF e
<1>3. Transport \in Thread /\ event[Transport] = None /\ target[Transport] = None /\ e # None
  BY <1>1, <1>2, Apart DEF UInv, Hands
<1>4. /\ event'[Transport] = e /\ pc'[Transport] = "lock"
      /\ \A t \in Thread : t # Transport => event'[t] = event[t] /\ pc'[t] = pc[t]
  BY <1>1, <1>3 DEF UInv, Types
<1>5. Types' /\ Owned'
  BY <1>1, <1>2, <1>3 DEF UInv, Types, Owned
<1>6. Hands'
  BY <1>1, <1>3, <1>4 DEF UInv, Hands
<1>7. ASSUME NEW k \in DOMAIN hub'
      PROVE  k \in Nat /\ k + 1 \in DOMAIN hub /\ k + 1 > 1 /\ hub'[k] = hub[k + 1]
  BY <1>2, <1>7
<1>8. \A f \in Event : Travels(f)' => Travels(f)
  <2>1. 1 \in DOMAIN hub
    BY <1>2
  <2> QED BY <1>2, <1>4, <1>7, <2>1 DEF Travels
<1>9. Expected'
  BY <1>1, <1>8 DEF UInv, Expected
<1>10. StopBehindAll'
  <2>1. ASSUME NEW k \in DOMAIN hub', hub'[k] \in Stop
        PROVE  /\ Dest[hub'[k]] \in stopping
               /\ \A l \in DOMAIN hub' : l > k => Dest[hub'[l]] # Dest[hub'[k]]
    <3>1. Dest[hub[k + 1]] \in stopping
          /\ \A l \in DOMAIN hub : l > k + 1 => Dest[hub[l]] # Dest[hub[k + 1]]
      BY <1>7, <2>1 DEF UInv, StopBehindAll
    <3>2. ASSUME NEW l \in DOMAIN hub', l > k PROVE Dest[hub'[l]] # Dest[hub'[k]]
      <4>1. l + 1 \in DOMAIN hub /\ l + 1 > k + 1
        BY <1>7, <3>2
      <4> QED BY <1>7, <3>1, <4>1
    <3> QED BY <1>7, <3>1, <3>2
  <2>2. ASSUME NEW t \in Thread, event'[t] \in Stop
        PROVE  /\ t = Transport /\ Dest[event'[t]] \in stopping
               /\ \A k \in DOMAIN hub' : Dest[hub'[k]] # Dest[event'[t]]
    <3>1. t = Transport
      BY <1>4, <2>2 DEF UInv, StopBehindAll
    <3>2. 1 \in DOMAIN hub /\ hub[1] \in Stop /\ event'[t] = hub[1]
      BY <1>2, <1>4, <2>2, <3>1
    <3>3. Dest[hub[1]] \in stopping /\ \A l \in DOMAIN hub : l > 1 => Dest[hub[l]] # Dest[hub[1]]
      BY <3>2 DEF UInv, StopBehindAll
    <3> QED BY <1>7, <3>1, <3>2, <3>3
  <2>3. (\A s \in Service : \A k \in DOMAIN queue[s] : queue[s][k] \in Stop =>
           /\ k = Len(queue[s]) /\ IdOf[s] \in stopping
           /\ \A f \in Event : Travels(f) => Dest[f] # IdOf[s])'
    BY <1>1, <1>8 DEF UInv, StopBehindAll
  <2> QED BY <1>1, <2>1, <2>2, <2>3 DEF StopBehindAll
<1>11. SyncAlone'
  BY <1>1, <1>4, Apart DEF UInv, SyncAlone
<1> QED BY <1>5, <1>6, <1>9, <1>10, <1>11 DEF UInv
\* dt_transport_event, the look-up: there is a service, and it is in its loop.
LEMMA FoundKeeps ==
  ASSUME Orderly, UInv, NEW t \in Thread, transport_found(t),
         UNCHANGED <<uservars, conduct>>
  PROVE  UInv'
<1>1. /\ pc[t] = "lock" /\ target' = [target EXCEPT ![t] = Lookup(Dest[event[t]])]
      /\ pc' = [pc EXCEPT ![t] = "add"]
      /\ UNCHANGED <<hub, queue, list, live, event, mgt, looping, quit, stopping>>
  BY DEF transport_found, queues, services, manager, uservars
<1>2. event[t] \in Event /\ event[t] # None
  BY <1>1, Apart DEF UInv, Hands, Types
<1>3. PICK s \in looping : IdOf[s] = Dest[event[t]]
  BY <1>2 DEF UInv, Expected, Travels
<1>4. s \in Service /\ s # None /\ Lookup(Dest[event[t]]) = s
  BY <1>3, Found, Apart DEF UInv, Owned, Types
<1>5. Types' /\ Owned'
  BY <1>1, <1>4 DEF UInv, Types, Owned
<1>6. /\ target'[t] = s /\ pc'[t] = "add"
      /\ \A u \in Thread : u # t => target'[u] = target[u] /\ pc'[u] = pc[u]
  BY <1>1, <1>4 DEF UInv, Types
<1>7. Hands'
  BY <1>1, <1>2, <1>3, <1>4, <1>6 DEF UInv, Hands
<1>8. \A e \in Event : Travels(e)' = Travels(e)
  BY <1>1 DEF Travels
<1>9. Expected' /\ StopBehindAll' /\ SyncAlone'
  BY <1>1, <1>8 DEF UInv, Expected, StopBehindAll, SyncAlone
<1> QED BY <1>5, <1>7, <1>9 DEF UInv

\* Somebody has the id of every event under way.
LEMMA NeverAstray ==
  ASSUME UInv, NEW t \in Thread
  PROVE  ~transport_not_found(t)
<1> SUFFICES ASSUME transport_not_found(t) PROVE FALSE
  OBVIOUS
<1>1. event[t] \in Event /\ Lookup(Dest[event[t]]) = None
  BY Apart DEF transport_not_found, UInv, Hands, Types
<1>2. PICK s \in looping : IdOf[s] = Dest[event[t]]
  BY <1>1 DEF UInv, Expected, Travels
<1>3. s \in Service /\ Lookup(Dest[event[t]]) = s
  BY <1>2, Found DEF UInv, Owned, Types
<1> QED BY <1>1, <1>3, Apart

\* dt_transport_event, the append.
LEMMA AddKeeps ==
  ASSUME Orderly, UInv, NEW t \in Thread, dt_add_event(t),
         UNCHANGED <<uservars, conduct>>
  PROVE  UInv'
<1> DEFINE s == target[t]
           e == event[t]
<1>1. /\ pc[t] = "add" /\ queue' = [queue EXCEPT ![s] = Append(@, e)]
      /\ event' = [event EXCEPT ![t] = None] /\ target' = [target EXCEPT ![t] = None]
      /\ pc' = [pc EXCEPT ![t] = Return(t)]
      /\ UNCHANGED <<hub, list, live, mgt, looping, quit, stopping>>
  BY DEF dt_add_event, services, manager, uservars
<1>2. /\ e \in Event /\ e # None /\ s \in Service /\ s \in looping /\ IdOf[s] = Dest[e]
      /\ Travels(e)
  BY <1>1, Apart DEF UInv, Hands, Types, Travels
<1>3. /\ queue[s] \in Seq(Event) /\ Len(queue[s]) \in Nat /\ queue'[s] \in Seq(Event)
      /\ DOMAIN queue[s] = 1 .. Len(queue[s]) /\ DOMAIN queue'[s] = 1 .. Len(queue[s]) + 1
      /\ Len(queue'[s]) = Len(queue[s]) + 1 /\ queue'[s][Len(queue[s]) + 1] = e
      /\ \A k \in 1 .. Len(queue[s]) : queue'[s][k] = queue[s][k]
      /\ \A u \in Service : u # s => queue'[u] = queue[u]
  BY <1>1, <1>2 DEF UInv, Types
<1>4. /\ event'[t] = None /\ target'[t] = None /\ pc'[t] \in {"loop", "idle"}
      /\ \A u \in Thread : u # t =>
           event'[u] = event[u] /\ target'[u] = target[u] /\ pc'[u] = pc[u]
  BY <1>1 DEF UInv, Types, Return
<1>5. Types'
  <2>1. queue' \in [Service -> Seq(Event)]
    BY <1>1, <1>2, <1>3 DEF UInv, Types
  <2>2. Return(t) \in {"loop", "idle"}
    BY DEF Return
  <2> QED BY <1>1, <2>1, <2>2 DEF UInv, Types
<1>6. Owned'
  BY <1>1 DEF UInv, Owned
<1>7. Hands'
  BY <1>1, <1>4 DEF UInv, Hands
<1>8. ASSUME NEW f \in Event, Travels(f)' PROVE Travels(f)
  BY <1>1, <1>2, <1>4, <1>8, Apart DEF Travels
<1>9. Expected'
  <2>1. ASSUME NEW u \in Service PROVE queue'[u] # <<>> => u \in looping
    BY <1>2, <1>3 DEF UInv, Expected
  <2>2. ASSUME NEW u \in Service, NEW k \in DOMAIN queue'[u] PROVE Dest[queue'[u][k]] = IdOf[u]
    <3>1. CASE u # s
      BY <1>3, <2>2, <3>1 DEF UInv, Expected
    <3>2. CASE u = s /\ k = Len(queue[s]) + 1
      BY <1>2, <1>3, <3>2
    <3>3. CASE u = s /\ k # Len(queue[s]) + 1
      <4>1. k \in 1 .. Len(queue[s])
        BY <1>3, <2>2, <3>3
      <4> QED BY <1>3, <3>3, <4>1 DEF UInv, Expected
    <3> QED BY <3>1, <3>2, <3>3
  <2> QED BY <1>1, <1>8, <2>1, <2>2 DEF UInv, Expected
\* No STOP is in the queue yet: e travels to it.
<1>10. \A k \in DOMAIN queue[s] : queue[s][k] \notin Stop
  BY <1>2 DEF UInv, StopBehindAll
\* And if e is one, nothing is left behind it.
<1>11. ASSUME e \in Stop, NEW f \in Event, Travels(f)' PROVE Dest[f] # Dest[e]
  <2>1. /\ t = Transport /\ Dest[e] \in stopping
        /\ \A k \in DOMAIN hub : Dest[hub[k]] # Dest[e]
    BY <1>11 DEF UInv, StopBehindAll
  <2>2. CASE \E k \in DOMAIN hub : hub[k] = f
    BY <2>1, <2>2
  <2>3. CASE \E u \in Thread : event'[u] = f
    <3>1. PICK u \in Thread : event'[u] = f
      BY <2>3
    <3>2. u # t /\ u \in Client /\ event[u] = f /\ f # None
      BY <1>4, <2>1, <3>1, Apart
    <3> QED BY <2>1, <3>2 DEF UInv, SyncAlone
  <2> QED BY <1>1, <1>11, <2>2, <2>3 DEF Travels
<1>12. StopBehindAll'
  <2>1. ASSUME NEW u \in Service, NEW k \in DOMAIN queue'[u], queue'[u][k] \in Stop
        PROVE  /\ k = Len(queue'[u]) /\ IdOf[u] \in stopping
               /\ \A f \in Event : Travels(f)' => Dest[f] # IdOf[u]
    <3>1. CASE u # s
      BY <1>3, <1>8, <2>1, <3>1 DEF UInv, StopBehindAll
    <3>2. CASE u = s
      <4>1. k = Len(queue[s]) + 1
        <5>1. k \notin 1 .. Len(queue[s])
          BY <1>3, <1>10, <2>1, <3>2
        <5> QED BY <1>3, <2>1, <3>2, <5>1
      <4>2. e \in Stop /\ k = Len(queue'[s])
        BY <1>3, <2>1, <3>2, <4>1
      <4>3. IdOf[s] \in stopping
        BY <1>2, <4>2 DEF UInv, StopBehindAll
      <4> QED BY <1>2, <1>11, <3>2, <4>2, <4>3
    <3> QED BY <3>1, <3>2
  <2>2. (\A u \in Thread : event[u] \in Stop =>
           /\ u = Transport /\ Dest[event[u]] \in stopping
           /\ \A k \in DOMAIN hub : Dest[hub[k]] # Dest[event[u]])'
    BY <1>1, <1>4, Apart DEF UInv, StopBehindAll, Types
  <2> QED BY <1>1, <2>1, <2>2 DEF UInv, StopBehindAll
<1>13. SyncAlone'
  BY <1>1, <1>4, Apart DEF UInv, SyncAlone
<1> QED BY <1>5, <1>6, <1>7, <1>9, <1>12, <1>13 DEF UInv

LEMMA TransportKeeps ==
  ASSUME Orderly, UInv, NEW t \in Thread, dt_transport_event(t),
         UNCHANGED <<uservars, conduct>>
  PROVE  UInv'
BY FoundKeeps, NeverAstray, AddKeeps DEF dt_transport_event

\* event_transport_loop leaves.
LEMMA QuitKeeps ==
  ASSUME Orderly, UInv, transport_quit, UNCHANGED <<uservars, conduct>>
  PROVE  UInv'
<1>1. /\ pc[Transport] = "loop" /\ pc' = [pc EXCEPT ![Transport] = "exited"]
      /\ UNCHANGED <<hub, queue, list, live, event, target, mgt, looping, quit, stopping>>
  BY DEF transport_quit, queues, services, manager, uservars
<1>2. Types' /\ Owned' /\ SyncAlone'
  BY <1>1 DEF UInv, Types, Owned, SyncAlone
<1>3. Hands'
  BY <1>1 DEF UInv, Types, Hands
<1>4. Expected' /\ StopBehindAll'
  BY <1>1 DEF UInv, Expected, StopBehindAll, Travels
<1> QED BY <1>2, <1>3, <1>4 DEF UInv

\* dt_service_release begins when no service is left.
LEMMA ReleaseKeeps ==
  ASSUME Orderly, UInv, NEW c \in Client, release_service(c), UNCHANGED conduct
  PROVE  UInv'
<1>1. /\ pc[c] = "idle" /\ pc' = [pc EXCEPT ![c] = "join"] /\ mgt' = "joining"
      /\ looping \cup quit = {}
      /\ UNCHANGED <<hub, queue, list, live, event, target, looping, quit, stopping>>
  BY DEF release_service, release_begin, queues, services, uservars
<1>2. Types' /\ Owned' /\ SyncAlone'
  BY <1>1 DEF UInv, Types, Owned, SyncAlone
<1>3. Hands'
  BY <1>1 DEF UInv, Types, Hands
<1>4. Expected' /\ StopBehindAll'
  BY <1>1 DEF UInv, Expected, StopBehindAll, Travels
<1> QED BY <1>2, <1>3, <1>4 DEF UInv

LEMMA FreedKeeps ==
  ASSUME Orderly, UInv, NEW c \in Client, finish_release(c), UNCHANGED conduct
  PROVE  UInv'
<1>1. /\ pc[c] = "join" /\ pc' = [pc EXCEPT ![c] = "idle"] /\ mgt' = "freed"
      /\ list' = <<>> /\ live' = live \ ToSet(list) /\ hub' = <<>>
      /\ queue' = [s \in Service |-> IF Registered(s) THEN <<>> ELSE queue[s]]
      /\ UNCHANGED <<event, target, looping, quit, stopping>>
  BY DEF finish_release, release_end, uservars
<1>2. live = {} /\ live' = {} /\ looping = {} /\ quit = {}
  <2>1. mgt # "up"
    BY <1>1, Apart DEF UInv, Hands
  <2> QED BY <1>1, <2>1 DEF UInv, Owned
<1>3. Types'
  <2>1. /\ queue' \in [Service -> Seq(Event)] /\ hub' \in Seq(Event) /\ list' \in Seq(Service)
    BY <1>1 DEF UInv, Types
  <2>2. pc' \in [Thread -> {"idle", "loop", "lock", "add", "join", "exited"}]
    BY <1>1 DEF UInv, Types
  <2> QED BY <1>1, <2>1, <2>2 DEF UInv, Types
<1>4. Owned'
  <2>1. DOMAIN list' = {}
    BY <1>1
  <2> QED BY <1>1, <1>2, <2>1 DEF Owned
<1>5. Hands' /\ SyncAlone'
  BY <1>1 DEF UInv, Types, Hands, SyncAlone
<1>6. \A s \in Service : queue'[s] = <<>>
  BY <1>1, <1>2 DEF UInv, Expected
<1>7. \A e \in Event : Travels(e)' => Travels(e)
  BY <1>1 DEF Travels
<1>8. Expected' /\ StopBehindAll'
  BY <1>1, <1>6, <1>7 DEF UInv, Expected, StopBehindAll
<1> QED BY <1>3, <1>4, <1>5, <1>8 DEF UInv
\* While the clients are orderly; that they are, or are not, never changes.
Tidy == Orderly => UInv /\ NothingLost

LEMMA UsersAlways == Spec => []Tidy
<1>1. UsersInit => Tidy
  BY UsersInitially DEF UsersInit, Init, NothingLost, Tidy
<1>2. Tidy /\ [UsersNext]_allvars => Tidy'
  <2> SUFFICES ASSUME Tidy, [UsersNext]_allvars, Orderly'
               PROVE  UInv' /\ NothingLost'
    BY DEF Tidy
  <2>0. UNCHANGED conduct /\ Orderly /\ UInv /\ NothingLost
    BY DEF Tidy, Orderly, UsersNext, allvars
  <2>1. ASSUME NEW s \in Service, start_service(s) PROVE UInv' /\ lost' = lost
    BY <2>0, <2>1, StartKeeps DEF start_service, dt_register_service, history
  <2>2. ASSUME NEW s \in Service, start_fails(s) PROVE FALSE
    BY <2>0, <2>2 DEF start_fails, Orderly
  <2>3. ASSUME NEW c \in Client, NEW e \in Event, send(c, e) PROVE UInv' /\ lost' = lost
    BY <2>0, <2>3, SendKeeps DEF send, dt_send_event
  <2>4. ASSUME NEW c \in Client, NEW e \in Event, send_sync(c, e) PROVE UInv' /\ lost' = lost
    BY <2>0, <2>4, SendSyncKeeps DEF send_sync, dt_send_event_sync, history
  <2>5. ASSUME NEW t \in Thread, dt_transport_event(t), UNCHANGED uservars
        PROVE  UInv' /\ lost' = lost
    <3>1. UInv'
      BY <2>0, <2>5, TransportKeeps
    <3>2. lost' = lost
      BY <2>0, <2>5, NeverAstray DEF dt_transport_event, transport_found, dt_add_event, history
    <3> QED BY <3>1, <3>2
  <2>6. ASSUME NEW c \in Client, finish_sync(c) PROVE UInv' /\ lost' = lost
    BY <2>5, <2>6, Apart DEF finish_sync
  <2>7. ASSUME NEW s \in Service, handle_event(s) PROVE UInv' /\ lost' = lost
    BY <2>0, <2>7, HandleKeeps DEF handle_event, dt_get_event
  <2>8. ASSUME NEW s \in Service, remove_service(s) PROVE UInv' /\ lost' = lost
    BY <2>0, <2>8, RemoveKeeps DEF remove_service, dt_remove_service
  <2>9. ASSUME NEW c \in Client, release_service(c) PROVE UInv' /\ lost' = lost
    BY <2>0, <2>9, ReleaseKeeps DEF release_service, release_begin, history
  <2>10. ASSUME NEW c \in Client, finish_release(c) PROVE UInv' /\ lost' = lost
    BY <2>0, <2>10, FreedKeeps DEF finish_release, release_end
  <2>11. ASSUME transport PROVE UInv' /\ lost' = lost
    <3>1. CASE transport_quit
      BY <2>0, <2>11, <3>1, QuitKeeps DEF transport, transport_quit, history
    <3>2. CASE transport_get
      BY <2>0, <2>11, <3>2, GetKeeps DEF transport, transport_get, history
    <3>3. CASE dt_transport_event(Transport)
      BY <2>5, <2>11, <3>3, Apart DEF transport
    <3> QED BY <2>11, <3>1, <3>2, <3>3 DEF transport, event_transport_loop
  <2>12. ASSUME UNCHANGED allvars PROVE UInv' /\ lost' = lost
    BY <2>0, <2>12 DEF allvars, vars, uservars, UInv, Types, Owned, Hands, Expected, Travels,
                 StopBehindAll, SyncAlone
  <2> QED BY <2>0, <2>1, <2>2, <2>3, <2>4, <2>6, <2>7, <2>8, <2>9, <2>10, <2>11, <2>12
          DEF UsersNext, NothingLost
<1> QED BY <1>1, <1>2, PTL DEF Spec

(* dt_remove_service takes no lock: still no thread appends to a service    *)
(* that was freed, and no freed service is listed, when each id has one     *)
(* sender that sends STOP last.                                             *)
THEOREM NeverDangles == Spec => []NoDanglingPointer
<1>1. Tidy => NoDanglingPointer
  BY DEF Tidy, UInv, Types, Owned, Hands, NoDanglingPointer
<1> QED BY UsersAlways, <1>1, PTL

-----------------------------------------------------------------------------
(* The order of the commands sent through the hub.                          *)

\* An event in the pipeline from the hub to its service.
Placed(e) == InQueue(e) \/ InHand(e) \/ InHub(e)

Ordered ==
  /\ order \subseteq Event \X Event
  /\ \A p \in order : Placed(p[1]) /\ Placed(p[2])
  /\ InOrder

\* A step after which the pipeline is what it was, with no more pairs.
LEMMA OrderStays ==
  ASSUME Ordered, hub' = hub, queue' = queue, event'[Transport] = event[Transport],
         order' \subseteq order
  PROVE  Ordered'
<1>1. \A e : (InHub(e)' <=> InHub(e)) /\ (InHand(e)' <=> InHand(e)) /\ (InQueue(e)' <=> InQueue(e))
  BY DEF InHub, InHand, InQueue
<1>2. \A e, f : Ahead(e, f)' <=> Ahead(e, f)
  BY <1>1 DEF Ahead, Precedes
<1> QED BY <1>1, <1>2 DEF Ordered, InOrder, Placed

\* A step that forgets some pairs and keeps the others in place and in order.
LEMMA OrderMoves ==
  ASSUME Ordered, order' \subseteq order,
         \A p \in order' : Placed(p[1]) /\ Placed(p[2]) => Placed(p[1])' /\ Placed(p[2])',
         \A p \in order' : Dest[p[1]] = Dest[p[2]] /\ Ahead(p[1], p[2]) => Ahead(p[1], p[2])'
  PROVE  Ordered'
BY DEF Ordered, InOrder

\* dt_send_event: the new event is behind everything.
LEMMA SendOrdered ==
  ASSUME UInv, Ordered, NEW c \in Client, NEW e \in Event, send(c, e)
  PROVE  Ordered'
<1>1. /\ hub' = Append(hub, e) /\ queue' = queue /\ event' = event
      /\ order' = order \cup ({p[1] : p \in order} \cup {e}) \X {e}
  BY DEF send, dt_send_event, Sent, threads
<1>2. /\ DOMAIN hub' = 1 .. Len(hub) + 1 /\ DOMAIN hub = 1 .. Len(hub) /\ Len(hub) \in Nat
      /\ \A k \in DOMAIN hub : hub'[k] = hub[k]
      /\ hub'[Len(hub) + 1] = e
  BY <1>1 DEF UInv, Types
<1>3. /\ \A f : InHub(f) => InHub(f)'
      /\ \A f : (InHand(f)' <=> InHand(f)) /\ (InQueue(f)' <=> InQueue(f))
      /\ InHub(e)'
  BY <1>1, <1>2 DEF InHub, InHand, InQueue
<1>4. \A f, g : Precedes(f, g, hub) => Precedes(f, g, hub')
  BY <1>2 DEF Precedes
<1>5. \A f, g : Ahead(f, g) => Ahead(f, g)'
  BY <1>1, <1>3, <1>4 DEF Ahead
<1>6. ASSUME NEW f \in Event, Placed(f) PROVE Ahead(f, e)'
  <2>1. CASE InQueue(f) \/ InHand(f)
    BY <1>3, <2>1 DEF Ahead
  <2>2. CASE InHub(f)
    <3>1. PICK k \in DOMAIN hub : hub[k] = f
      BY <2>2 DEF InHub
    <3>2. k < Len(hub) + 1 /\ k \in DOMAIN hub' /\ Len(hub) + 1 \in DOMAIN hub' /\ hub'[k] = f
      BY <1>2, <3>1
    <3>3. Precedes(f, e, hub')
      BY <1>2, <3>2 DEF Precedes
    <3> QED BY <3>3 DEF Ahead
  <2> QED BY <1>6, <2>1, <2>2 DEF Placed
<1>7. ASSUME NEW p \in order', p \notin order
      PROVE  p[2] = e /\ (p[1] = e \/ (p[1] \in Event /\ Placed(p[1])))
  <2>1. p[2] = e /\ (p[1] = e \/ p[1] \in {q[1] : q \in order})
    BY <1>1, <1>7
  <2>2. \A q \in order : q[1] \in Event /\ Placed(q[1])
    BY DEF Ordered
  <2> QED BY <2>1, <2>2
<1>8. order' \subseteq Event \X Event
  BY <1>1 DEF Ordered
<1>9. \A f : Placed(f) => Placed(f)'
  BY <1>3 DEF Placed
<1>10. Placed(e)'
  BY <1>3 DEF Placed
<1>11. \A p \in order' : Placed(p[1])' /\ Placed(p[2])'
  BY <1>7, <1>9, <1>10 DEF Ordered
<1>12. InOrder'
  BY <1>5, <1>6, <1>7 DEF Ordered, InOrder
<1> QED BY <1>8, <1>11, <1>12 DEF Ordered

\* transport_get: the first of the hub is behind all that is in the queues and
\* ahead of all that is in the hub.
LEMMA GetOrdered ==
  ASSUME UInv, Ordered, transport_get
  PROVE  Ordered'
<1>1. /\ pc[Transport] = "loop" /\ hub # <<>> /\ hub' = Tail(hub)
      /\ event' = [event EXCEPT ![Transport] = Head(hub)] /\ queue' = queue /\ order' = order
  BY DEF transport_get, history
<1>2. /\ DOMAIN hub = 1 .. Len(hub) /\ DOMAIN hub' = 1 .. Len(hub) - 1 /\ Len(hub) \in Nat
      /\ \A k \in 1 .. Len(hub) - 1 : hub'[k] = hub[k + 1]
      /\ Head(hub) = hub[1]
  BY <1>1 DEF UInv, Types
<1>3. event[Transport] = None /\ event'[Transport] = hub[1]
  BY <1>1, <1>2, Apart DEF UInv, Hands, Types
<1>4. ASSUME NEW k \in DOMAIN hub, k # 1
      PROVE  k - 1 \in DOMAIN hub' /\ hub'[k - 1] = hub[k]
  <2>1. k - 1 \in 1 .. Len(hub) - 1 /\ (k - 1) + 1 = k
    BY <1>2, <1>4
  <2> QED BY <1>2, <2>1
<1>5. \A f : InQueue(f)' <=> InQueue(f)
  BY <1>1 DEF InQueue
<1>6. \A f \in Event : ~InHand(f)
  BY <1>3, Apart DEF InHand
<1>7. \A f : InHub(f) => InHand(f)' \/ InHub(f)'
  BY <1>3, <1>4 DEF InHub, InHand
<1>8. ASSUME NEW f \in Event, NEW g \in Event, Precedes(f, g, hub)
      PROVE  (InHand(f)' /\ InHub(g)') \/ Precedes(f, g, hub')
  <2>1. PICK j \in DOMAIN hub, k \in DOMAIN hub : j < k /\ hub[j] = f /\ hub[k] = g
    BY <1>8 DEF Precedes
  <2>2. k # 1 /\ k - 1 \in DOMAIN hub' /\ hub'[k - 1] = g
    BY <1>2, <1>4, <2>1
  <2>3. CASE j = 1
    BY <1>3, <2>1, <2>2, <2>3 DEF InHand, InHub
  <2>4. CASE j # 1
    <3>1. j - 1 \in DOMAIN hub' /\ hub'[j - 1] = f /\ j - 1 < k - 1
      BY <1>2, <1>4, <2>1, <2>4
    <3> QED BY <2>2, <3>1 DEF Precedes
  <2> QED BY <2>3, <2>4
<1>9. ASSUME NEW f \in Event, NEW g \in Event, Ahead(f, g) PROVE Ahead(f, g)'
  <2>1. CASE \E s \in Service : Precedes(f, g, queue[s])
    BY <1>1, <2>1 DEF Ahead
  <2>2. CASE InQueue(f) /\ (InHand(g) \/ InHub(g))
    BY <1>5, <1>6, <1>7, <2>2 DEF Ahead
  <2>3. CASE Precedes(f, g, hub)
    BY <1>8, <2>3 DEF Ahead
  <2> QED BY <1>6, <1>9, <2>1, <2>2, <2>3 DEF Ahead
<1>10. \A f \in Event : Placed(f) => Placed(f)'
  BY <1>5, <1>6, <1>7 DEF Placed
<1>11. order' \subseteq order /\ \A p \in order' : p[1] \in Event /\ p[2] \in Event
  BY <1>1 DEF Ordered
<1> QED BY <1>9, <1>10, <1>11, OrderMoves

\* dt_add_event: what the transport thread held is the last in the one queue its
\* service has.
LEMMA AddOrdered ==
  ASSUME UInv, Ordered, NEW t \in Thread, dt_add_event(t)
  PROVE  Ordered'
<1>0. event[t] \in Event /\ target[t] \in looping /\ target[t] \in Service
      /\ IdOf[target[t]] = Dest[event[t]]
  BY Apart DEF dt_add_event, UInv, Hands, Types
<1>e. PICK e \in Event : e = event[t]
  BY <1>0
<1>s. PICK s \in Service : s = target[t]
  BY <1>0
<1>1. /\ queue' = [queue EXCEPT ![s] = Append(@, e)]
      /\ event' = [event EXCEPT ![t] = None] /\ hub' = hub /\ order' = order
  BY <1>e, <1>s DEF dt_add_event, history
<1>2. s \in looping /\ IdOf[s] = Dest[e]
  BY <1>0, <1>e, <1>s
<1>3. /\ queue[s] \in Seq(Event) /\ Len(queue[s]) \in Nat
      /\ DOMAIN queue[s] = 1 .. Len(queue[s]) /\ DOMAIN queue'[s] = 1 .. Len(queue[s]) + 1
      /\ queue'[s][Len(queue[s]) + 1] = e
      /\ \A k \in 1 .. Len(queue[s]) : queue'[s][k] = queue[s][k]
      /\ \A u \in Service : u # s => queue'[u] = queue[u]
  BY <1>1, <1>2 DEF UInv, Types
<1>4. \A u \in Service : \A k \in DOMAIN queue[u] : k \in DOMAIN queue'[u] /\ queue'[u][k] = queue[u][k]
  BY <1>3
<1>5. /\ \A f : InQueue(f) => InQueue(f)'
      /\ \A f, g : \A u \in Service : Precedes(f, g, queue[u]) => Precedes(f, g, queue'[u])
      /\ \A f : InHub(f)' <=> InHub(f)
      /\ InQueue(e)'
  <2>1. \A f : InQueue(f) => InQueue(f)'
    BY <1>4 DEF InQueue
  <2>2. \A f, g : \A u \in Service : Precedes(f, g, queue[u]) => Precedes(f, g, queue'[u])
    BY <1>4 DEF Precedes
  <2>3. InQueue(e)'
    BY <1>2, <1>3 DEF InQueue
  <2> QED BY <1>1, <2>1, <2>2, <2>3 DEF InHub
<1>6. \A f : InHand(f) => (t = Transport /\ f = e) \/ (t # Transport /\ InHand(f)')
  BY <1>1, <1>e, Apart DEF InHand, UInv, Types
<1>7. ASSUME t = Transport, NEW f \in Event, Dest[f] = Dest[e], InQueue(f)
      PROVE  Precedes(f, e, queue'[s])
  <2>1. PICK u \in Service : \E k \in DOMAIN queue[u] : queue[u][k] = f
    BY <1>7 DEF InQueue
  <2>2. PICK k \in DOMAIN queue[u] : queue[u][k] = f
    BY <2>1
  <2>3. queue[u] # <<>>
    BY <2>2
  <2>4. u \in looping /\ IdOf[u] = Dest[f]
    BY <2>2, <2>3 DEF UInv, Expected
  <2>5. u \in live /\ s \in live /\ IdOf[u] = IdOf[s]
    BY <1>2, <1>7, <2>4 DEF UInv, Owned
  <2>6. u = s
    <3>1. PICK m \in DOMAIN list : list[m] = u
      BY <2>1, <2>5 DEF UInv, Owned
    <3>2. PICK n \in DOMAIN list : list[n] = s
      BY <1>2, <2>5 DEF UInv, Owned
    <3> QED BY <2>5, <3>1, <3>2 DEF UInv, Owned
  <2>7. k \in DOMAIN queue'[s] /\ queue'[s][k] = f /\ k < Len(queue[s]) + 1
        /\ Len(queue[s]) + 1 \in DOMAIN queue'[s]
    BY <1>3, <2>2, <2>6
  <2> QED BY <1>3, <2>7 DEF Precedes
<1>8. ASSUME NEW f \in Event, NEW g \in Event, Dest[f] = Dest[g], Ahead(f, g) PROVE Ahead(f, g)'
  <2>1. CASE \E u \in Service : Precedes(f, g, queue[u])
    BY <1>5, <2>1 DEF Ahead
  <2>2. CASE InQueue(f) /\ InHub(g)
    BY <1>5, <2>2 DEF Ahead
  <2>3. CASE InQueue(f) /\ InHand(g)
    <3>1. CASE t = Transport
      <4>1. g = e
        BY <1>6, <2>3, <3>1
      <4>2. Precedes(f, g, queue'[s])
        BY <1>7, <1>8, <2>3, <3>1, <4>1
      <4> QED BY <1>2, <4>2 DEF Ahead
    <3>2. CASE t # Transport
      BY <1>5, <1>6, <2>3, <3>2 DEF Ahead
    <3> QED BY <3>1, <3>2
  <2>4. CASE InHand(f) /\ InHub(g)
    BY <1>5, <1>6, <2>4 DEF Ahead
  <2>5. CASE Precedes(f, g, hub)
    BY <1>1, <2>5 DEF Ahead
  <2> QED BY <1>8, <2>1, <2>2, <2>3, <2>4, <2>5 DEF Ahead
<1>9. \A f \in Event : Placed(f) => Placed(f)'
  BY <1>5, <1>6 DEF Placed
<1>10. order' \subseteq order /\ \A p \in order' : p[1] \in Event /\ p[2] \in Event
  BY <1>1 DEF Ordered
<1> QED BY <1>8, <1>9, <1>10, OrderMoves

\* dt_get_event: what is taken is forgotten, and was ahead of what is left.
LEMMA HandleOrdered ==
  ASSUME UInv, Ordered, NEW s \in Service, handle_event(s)
  PROVE  Ordered'
<1> DEFINE h == Head(queue[s])
<1>1. /\ queue[s] # <<>> /\ queue' = [queue EXCEPT ![s] = Tail(@)]
      /\ hub' = hub /\ event' = event
      /\ order' = {p \in order : p[1] \notin {h} /\ p[2] \notin {h}}
  BY DEF handle_event, dt_get_event, Forget, threads
<1>2. /\ queue[s] \in Seq(Event) /\ Len(queue[s]) \in Nat /\ h = queue[s][1]
      /\ DOMAIN queue[s] = 1 .. Len(queue[s]) /\ DOMAIN queue'[s] = 1 .. Len(queue[s]) - 1
      /\ \A k \in 1 .. Len(queue[s]) - 1 : queue'[s][k] = queue[s][k + 1]
      /\ \A u \in Service : u # s => queue'[u] = queue[u]
  BY <1>1 DEF UInv, Types
<1> HIDE DEF h
<1>3. ASSUME NEW k \in DOMAIN queue[s], queue[s][k] # h
      PROVE  k # 1 /\ k - 1 \in DOMAIN queue'[s] /\ queue'[s][k - 1] = queue[s][k]
  <2>1. k # 1
    BY <1>2, <1>3
  <2>2. k - 1 \in 1 .. Len(queue[s]) - 1 /\ (k - 1) + 1 = k
    BY <1>2, <1>3, <2>1
  <2> QED BY <1>2, <2>1, <2>2
<1>4. /\ \A f : InHub(f)' <=> InHub(f)
      /\ \A f : InHand(f)' <=> InHand(f)
  BY <1>1 DEF InHub, InHand
<1>5. ASSUME NEW f \in Event, f # h, InQueue(f) PROVE InQueue(f)'
  <2>1. PICK u \in Service : \E k \in DOMAIN queue[u] : queue[u][k] = f
    BY <1>5 DEF InQueue
  <2>2. PICK k \in DOMAIN queue[u] : queue[u][k] = f
    BY <2>1
  <2>3. CASE u = s
    BY <1>3, <1>5, <2>2, <2>3 DEF InQueue
  <2>4. CASE u # s
    BY <1>2, <2>2, <2>4 DEF InQueue
  <2> QED BY <2>3, <2>4
<1>6. ASSUME NEW f \in Event, NEW g \in Event, f # h, g # h, NEW u \in Service,
             Precedes(f, g, queue[u])
      PROVE  Precedes(f, g, queue'[u])
  <2>1. CASE u # s
    BY <1>2, <1>6, <2>1
  <2>2. CASE u = s
    <3>1. PICK j \in DOMAIN queue[s], k \in DOMAIN queue[s] :
            j < k /\ queue[s][j] = f /\ queue[s][k] = g
      BY <1>6, <2>2 DEF Precedes
    <3>2. j - 1 \in DOMAIN queue'[s] /\ queue'[s][j - 1] = f
      BY <1>3, <1>6, <3>1
    <3>3. k - 1 \in DOMAIN queue'[s] /\ queue'[s][k - 1] = g
      BY <1>3, <1>6, <3>1
    <3>4. j - 1 < k - 1
      BY <1>2, <3>1
    <3> QED BY <2>2, <3>2, <3>3, <3>4 DEF Precedes
  <2> QED BY <2>1, <2>2
<1>7. ASSUME NEW f \in Event, NEW g \in Event, f # h, g # h, Ahead(f, g) PROVE Ahead(f, g)'
  <2>1. CASE \E u \in Service : Precedes(f, g, queue[u])
    BY <1>6, <1>7, <2>1 DEF Ahead
  <2>2. CASE InQueue(f) /\ (InHand(g) \/ InHub(g))
    BY <1>4, <1>5, <1>7, <2>2 DEF Ahead
  <2>3. CASE InHand(f) /\ InHub(g)
    BY <1>4, <2>3 DEF Ahead
  <2>4. CASE Precedes(f, g, hub)
    BY <1>1, <2>4 DEF Ahead
  <2> QED BY <1>7, <2>1, <2>2, <2>3, <2>4 DEF Ahead
<1>8. \A f \in Event : f # h /\ Placed(f) => Placed(f)'
  BY <1>4, <1>5 DEF Placed
<1>9. order' \subseteq order /\ \A p \in order' : p[1] \in Event /\ p[2] \in Event /\ p[1] # h /\ p[2] # h
  BY <1>1 DEF Ordered
<1> QED BY <1>7, <1>8, <1>9, OrderMoves

\* The steps of services and of the manager, which find the queues empty.
LEMMA ServiceOrdered ==
  ASSUME UInv, Ordered,
         \/ \E s \in Service : start_service(s) \/ remove_service(s)
         \/ \E c \in Client : release_service(c) \/ finish_release(c)
  PROVE  Ordered'
<1>1. ASSUME NEW s \in Service, start_service(s) PROVE Ordered'
  <2>1. s \notin live /\ queue' = [queue EXCEPT ![s] = <<>>]
        /\ UNCHANGED <<hub, event, order>>
    BY <1>1 DEF start_service, dt_register_service, threads, history
  <2>2. queue[s] = <<>>
    BY <2>1 DEF UInv, Expected, Owned
  <2>3. queue' = queue
    BY <2>1, <2>2 DEF UInv, Types
  <2> QED BY <2>1, <2>3, OrderStays
<1>2. ASSUME NEW s \in Service, remove_service(s) PROVE Ordered'
  <2>1. s \in quit /\ queue' = [queue EXCEPT ![s] = <<>>] /\ UNCHANGED <<hub, event>>
        /\ order' \subseteq order
    BY <1>2 DEF remove_service, dt_remove_service, threads, Forget
  <2>2. queue[s] = <<>>
    BY <2>1 DEF UInv, Expected, Owned
  <2>3. queue' = queue
    BY <2>1, <2>2 DEF UInv, Types
  <2> QED BY <2>1, <2>3, OrderStays
<1>3. ASSUME NEW c \in Client, release_service(c) PROVE Ordered'
  <2>1. UNCHANGED <<hub, queue, event, order>>
    BY <1>3 DEF release_service, release_begin, queues, history
  <2> QED BY <2>1, OrderStays
<1>4. ASSUME NEW c \in Client, finish_release(c) PROVE Ordered'
  <2>1. pc[c] = "join" /\ order' \subseteq order
    BY <1>4 DEF finish_release, release_end, Forget
  <2>2. looping = {}
    BY <2>1, Apart DEF UInv, Hands, Owned
  <2>3. \A e \in Event : ~Placed(e)
    BY <2>2, Apart DEF UInv, Expected, Travels, Placed, InHub, InHand, InQueue
  <2>4. order' = {}
    BY <2>1, <2>3 DEF Ordered
  <2> QED BY <2>4 DEF Ordered, InOrder
<1> QED BY <1>1, <1>2, <1>3, <1>4

LEMMA OrderedStep ==
  ASSUME Orderly, UInv, Ordered, [UsersNext]_allvars
  PROVE  Ordered'
<1>1. ASSUME NEW t \in Thread, dt_transport_event(t) PROVE Ordered'
  <2>1. CASE transport_found(t)
    <3>1. UNCHANGED <<hub, queue, event, order>>
      BY <2>1 DEF transport_found, queues, history
    <3> QED BY <3>1, OrderStays
  <2>2. CASE dt_add_event(t)
    BY <2>2, AddOrdered
  <2> QED BY <1>1, <2>1, <2>2, NeverAstray DEF dt_transport_event
<1>2. ASSUME NEW c \in Client, NEW e \in Event, send_sync(c, e) PROVE Ordered'
  <2>1. UNCHANGED <<hub, queue, order>> /\ event' = [event EXCEPT ![c] = e]
    BY <1>2 DEF send_sync, dt_send_event_sync, queues, history
  <2>2. event'[Transport] = event[Transport]
    BY <2>1, Apart DEF UInv, Types
  <2> QED BY <2>1, <2>2, OrderStays
<1>3. CASE transport
  <2>1. CASE transport_quit
    <3>1. UNCHANGED <<hub, queue, event, order>>
      BY <2>1 DEF transport_quit, queues, history
    <3> QED BY <3>1, OrderStays
  <2>2. CASE transport_get
    BY <2>2, GetOrdered
  <2>3. CASE dt_transport_event(Transport)
    BY <1>1, <2>3, Apart
  <2> QED BY <1>3, <2>1, <2>2, <2>3 DEF transport, event_transport_loop
<1>4. CASE UNCHANGED allvars
  <2>1. UNCHANGED <<hub, queue, event, order>>
    BY <1>4 DEF allvars, vars
  <2> QED BY <2>1, OrderStays
<1>5. ASSUME NEW s \in Service PROVE ~start_fails(s)
  BY DEF start_fails, Orderly
<1>6. ASSUME NEW c \in Client, finish_sync(c) PROVE Ordered'
  BY <1>1, <1>6, Apart DEF finish_sync
<1> QED BY <1>2, <1>3, <1>4, <1>5, <1>6, SendOrdered, HandleOrdered, ServiceOrdered DEF UsersNext

(* HubOrder (dt_event.c): commands reach a service in the order they were   *)
(* sent, for any number of services, clients and events, when each id has   *)
(* one sender that sends STOP last.                                         *)
THEOREM CommandsInOrder == Spec => []HubOrder
<1> DEFINE Sorted == Orderly => Ordered
<1>1. UsersInit => Sorted
  BY DEF UsersInit, Init, Ordered, InOrder
<1>2. Tidy /\ Sorted /\ [UsersNext]_allvars => Sorted'
  <2> SUFFICES ASSUME Tidy, Sorted, [UsersNext]_allvars, Orderly'
               PROVE  Ordered'
    OBVIOUS
  <2>1. Orderly
    BY DEF Orderly, UsersNext, allvars
  <2> QED BY <2>1, OrderedStep DEF Tidy
<1>3. Sorted => HubOrder
  BY DEF Ordered, HubOrder
<1> QED BY <1>1, <1>2, <1>3, UsersAlways, PTL DEF Spec

-----------------------------------------------------------------------------
(* Where an event is, whatever the clients do: for services that are not    *)
(* started again after they were stopped and removed.                       *)

\* A thread holds an event while it transports it, and a service while it is
\* about to append to it.
HandsFull ==
  \A t \in Thread : /\ event[t] # None <=> pc[t] \in {"lock", "add"}
                    /\ target[t] # None <=> pc[t] = "add"

General == Types /\ HandsFull /\ unsent \subseteq Event /\ lost \subseteq Event

Handed(e) == \E t \in Thread : event[t] = e

\* Every event is somewhere, and in no two places.
OnePlace ==
  \A e \in Event :
    /\ e \in unsent \/ e \in lost \/ InHub(e) \/ Handed(e) \/ InQueue(e)
    /\ e \in unsent => e \notin lost /\ ~InHub(e) /\ ~Handed(e) /\ ~InQueue(e)
    /\ e \in lost => ~InHub(e) /\ ~Handed(e) /\ ~InQueue(e)
    /\ InHub(e) => ~Handed(e) /\ ~InQueue(e)
    /\ Handed(e) => ~InQueue(e)

\* It is nowhere twice.
HubOnce == \A j, k \in DOMAIN hub : hub[j] = hub[k] => j = k
HandOnce == \A t, u \in Thread : event[t] # None /\ event[t] = event[u] => t = u
QueueOnce ==
  \A s, u \in Service : \A j \in DOMAIN queue[s] : \A k \in DOMAIN queue[u] :
    queue[s][j] = queue[u][k] => s = u /\ j = k

Home == OnePlace /\ HubOnce /\ HandOnce /\ QueueOnce

\* Whether s may still receive events although it was freed.
Past(s) == IdOf[s] \in started \ (Restarts \cup MayFail)
Kept(s) == s \in live \/ Past(s) \/ mgt # "up"

\* Who is listed, pointed to or has events queued is still there or is not started
\* again.
Met(s) == queue[s] # <<>> \/ Registered(s) \/ \E t \in Thread : target[t] = s

NotAgain ==
  /\ \A s \in Service : Met(s) => Kept(s)
  /\ \A t \in Thread : \A s \in Service : target[t] = s => IdOf[s] = Dest[event[t]]
  /\ \A s \in Service : \A k \in DOMAIN queue[s] : Dest[queue[s][k]] = IdOf[s]
  /\ \A s \in looping : IdOf[s] \in started
  /\ \A s \in quit : Past(s)

-----------------------------------------------------------------------------
\* The least of a set of numbers: the look-up finds the first entry.
LEMMA Least ==
  ASSUME NEW S \in SUBSET Nat, S # {}
  PROVE  \E x \in S : \A y \in S : x <= y
<1> DEFINE below(n) == 0 .. n - 1
           T == {below(n) : n \in S}
<1>1. \A n \in S : IsFiniteSet(below(n)) /\ below(n) \subseteq Nat
  BY FS_Interval
<1>2. T \subseteq FiniteSubsetsOf(Nat) /\ T # {}
  BY <1>1 DEF FiniteSubsetsOf
<1> HIDE DEF T
<1>3. PICK t \in T : \A u \in T : ~ (<<u, t>> \in StrictSubsetOrdering(Nat))
  BY <1>2, FS_StrictSubsetOrderingWellFounded, WFMin
<1>4. PICK x \in S : t = below(x)
  BY DEF T
<1>5. ASSUME NEW y \in S, y < x
      PROVE  FALSE
  <2>1. below(y) \in T
    BY DEF T
  <2>2. below(y) \subseteq below(x) /\ below(y) # below(x)
    <3>1. y \in below(x) /\ y \notin below(y)
      BY <1>5
    <3> QED BY <1>5, <3>1
  <2>3. <<below(y), below(x)>> \in StrictSubsetOrdering(Nat)
    BY <1>1, <2>2 DEF StrictSubsetOrdering
  <2> QED BY <1>3, <1>4, <2>1, <2>3
<1> QED BY <1>5

LEMMA FirstListed ==
  ASSUME Types, NEW i, Entries(i) # {}
  PROVE  First(i) \in DOMAIN list /\ list[First(i)] \in Service /\ IdOf[list[First(i)]] = i
<1>1. Entries(i) \subseteq DOMAIN list /\ DOMAIN list \subseteq Nat
  BY DEF Types, Entries
<1>2. \E k \in Entries(i) : \A j \in Entries(i) : k <= j
  BY <1>1, Least
<1>3. First(i) \in Entries(i)
  BY <1>2 DEF First
<1> QED BY <1>1, <1>3 DEF Entries, Types

LEMMA LookedUp ==
  ASSUME Types, NEW i, Lookup(i) # None
  PROVE  /\ Lookup(i) \in Service /\ IdOf[Lookup(i)] = i
         /\ \E k \in DOMAIN list : list[k] = Lookup(i)
BY FirstListed DEF Lookup

\* Nothing of what holds events changes.
LEMMA HomeStays ==
  ASSUME Home, unsent' = unsent, lost' = lost, hub' = hub, event' = event, queue' = queue
  PROVE  Home'
<1>1. \A e : (InHub(e)' <=> InHub(e)) /\ (Handed(e)' <=> Handed(e)) /\ (InQueue(e)' <=> InQueue(e))
  BY DEF InHub, Handed, InQueue
<1> QED BY <1>1 DEF Home, OnePlace, HubOnce, HandOnce, QueueOnce

\* What a thread holds.
LEMMA HandFacts ==
  ASSUME General, NEW t \in Thread
  PROVE  /\ event[t] \in Event \cup {None} /\ target[t] \in Service \cup {None}
         /\ pc[t] \in {"lock", "add"} => event[t] \in Event
         /\ pc[t] = "add" => target[t] \in Service
         /\ pc[t] \in {"idle", "loop"} => event[t] = None
BY Apart DEF General, Types, HandsFull

(* dt_send_event: from the free events to the end of the hub.               *)
LEMMA SendHome ==
  ASSUME General, Home, NEW c \in Client, NEW e \in Event, send(c, e), UNCHANGED conduct
  PROVE  General' /\ Home'
<1>1. /\ e \in unsent /\ unsent' = unsent \ {e} /\ hub' = Append(hub, e)
      /\ UNCHANGED <<queue, event, pc, target, lost, list, looping, quit>>
      /\ stopping' \subseteq stopping \cup {Dest[e]}
  BY DEF send, dt_send_event, services, threads
<1>2. /\ DOMAIN hub' = 1 .. Len(hub) + 1 /\ DOMAIN hub = 1 .. Len(hub) /\ Len(hub) \in Nat
      /\ \A k \in DOMAIN hub : hub'[k] = hub[k]
      /\ hub'[Len(hub) + 1] = e /\ hub' \in Seq(Event)
  BY <1>1 DEF General, Types
<1>3. General'
  <2>1. Dest[e] \in Id
    BY Apart
  <2> QED BY <1>1, <1>2, <2>1 DEF General, Types, HandsFull
<1>4. /\ \A f : InHub(f)' <=> InHub(f) \/ f = e
      /\ \A f : (Handed(f)' <=> Handed(f)) /\ (InQueue(f)' <=> InQueue(f))
  <2>1. \A k \in DOMAIN hub' : k \in DOMAIN hub \/ k = Len(hub) + 1
    BY <1>2
  <2> QED BY <1>1, <1>2, <2>1 DEF InHub, Handed, InQueue
<1>5. ~InHub(e) /\ ~Handed(e) /\ ~InQueue(e) /\ e \notin lost
  BY <1>1 DEF Home, OnePlace
<1>6. HubOnce'
  <2>1. \A k \in DOMAIN hub : hub[k] # e
    BY <1>5 DEF InHub
  <2>2. \A k \in DOMAIN hub' : k \in DOMAIN hub \/ k = Len(hub) + 1
    BY <1>2
  <2> QED BY <1>2, <2>1, <2>2 DEF Home, HubOnce
<1>7. OnePlace'
  BY <1>1, <1>4, <1>5 DEF Home, OnePlace
<1>8. HandOnce' /\ QueueOnce'
  BY <1>1 DEF Home, HandOnce, QueueOnce
<1> QED BY <1>3, <1>6, <1>7, <1>8 DEF Home

(* dt_send_event_sync: from the free events to the hand of the sender.      *)
LEMMA SyncHome ==
  ASSUME General, Home, NEW c \in Client, NEW e \in Event, send_sync(c, e),
         UNCHANGED conduct
  PROVE  General' /\ Home'
<1>1. /\ e \in unsent /\ unsent' = unsent \ {e} /\ pc[c] = "idle"
      /\ event' = [event EXCEPT ![c] = e] /\ pc' = [pc EXCEPT ![c] = "lock"]
      /\ UNCHANGED <<hub, queue, target, lost, list, looping, quit, stopping>>
  BY DEF send_sync, dt_send_event_sync, services, queues, history, uservars
<1>2. c \in Thread /\ event[c] = None /\ e # None /\ target[c] = None
  BY <1>1, Apart DEF General, HandsFull
<1>3. /\ event'[c] = e /\ pc'[c] = "lock" /\ event' \in [Thread -> Event \cup {None}]
      /\ pc' \in [Thread -> {"idle", "loop", "lock", "add", "join", "exited"}]
      /\ \A t \in Thread : t # c => event'[t] = event[t] /\ pc'[t] = pc[t]
  BY <1>1, <1>2 DEF General, Types
<1>4. General'
  BY <1>1, <1>2, <1>3 DEF General, Types, HandsFull
<1>5. /\ \A f \in Event : Handed(f)' <=> Handed(f) \/ f = e
      /\ \A f : (InHub(f)' <=> InHub(f)) /\ (InQueue(f)' <=> InQueue(f))
  <2>1. \A f \in Event : Handed(f)' <=> Handed(f) \/ f = e
    BY <1>2, <1>3, Apart DEF Handed
  <2> QED BY <1>1, <2>1 DEF InHub, InQueue
<1>6. ~InHub(e) /\ ~Handed(e) /\ ~InQueue(e) /\ e \notin lost
  BY <1>1 DEF Home, OnePlace
<1>7. HandOnce'
  <2>1. \A t \in Thread : event[t] # e
    BY <1>6 DEF Handed
  <2> QED BY <1>3, <2>1 DEF Home, HandOnce
<1>8. OnePlace'
  BY <1>1, <1>5, <1>6 DEF Home, OnePlace
<1>9. HubOnce' /\ QueueOnce'
  BY <1>1 DEF Home, HubOnce, QueueOnce
<1> QED BY <1>4, <1>7, <1>8, <1>9 DEF Home

(* transport_get: from the head of the hub to the hand of the transport     *)
(* thread.                                                                  *)
LEMMA GetHome ==
  ASSUME General, Home, transport_get, UNCHANGED <<uservars, conduct>>
  PROVE  General' /\ Home'
<1>1. /\ pc[Transport] = "loop" /\ hub # <<>> /\ hub' = Tail(hub)
      /\ event' = [event EXCEPT ![Transport] = Head(hub)] /\ pc' = [pc EXCEPT ![Transport] = "lock"]
      /\ UNCHANGED <<queue, target, lost, unsent, list, looping, quit, stopping>>
  BY DEF transport_get, services, history, uservars
<1>2. /\ DOMAIN hub = 1 .. Len(hub) /\ DOMAIN hub' = 1 .. Len(hub) - 1 /\ Len(hub) \in Nat
      /\ \A k \in 1 .. Len(hub) - 1 : hub'[k] = hub[k + 1]
      /\ Head(hub) = hub[1] /\ 1 \in DOMAIN hub /\ hub[1] \in Event /\ hub' \in Seq(Event)
  BY <1>1 DEF General, Types
<1>0. PICK e \in Event : e = hub[1]
  BY <1>2
<1>3. Transport \in Thread /\ event[Transport] = None /\ e # None /\ target[Transport] = None
  BY <1>1, Apart DEF General, HandsFull
<1>4. /\ event'[Transport] = e /\ pc'[Transport] = "lock" /\ event' \in [Thread -> Event \cup {None}]
      /\ pc' \in [Thread -> {"idle", "loop", "lock", "add", "join", "exited"}]
      /\ \A t \in Thread : t # Transport => event'[t] = event[t] /\ pc'[t] = pc[t]
  BY <1>0, <1>1, <1>2, <1>3 DEF General, Types
<1>5. General'
  BY <1>1, <1>2, <1>3, <1>4 DEF General, Types, HandsFull
<1>6. \A k \in DOMAIN hub' : k + 1 \in DOMAIN hub /\ k + 1 # 1 /\ hub'[k] = hub[k + 1]
  BY <1>2
<1>7. ASSUME NEW k \in DOMAIN hub, k # 1
      PROVE  k - 1 \in DOMAIN hub' /\ hub'[k - 1] = hub[k]
  <2>1. k - 1 \in 1 .. Len(hub) - 1 /\ (k - 1) + 1 = k
    BY <1>2, <1>7
  <2> QED BY <1>2, <2>1
<1>8. /\ \A f : InHub(f)' <=> InHub(f) /\ f # e
      /\ \A f \in Event : Handed(f)' <=> Handed(f) \/ f = e
      /\ \A f : InQueue(f)' <=> InQueue(f)
  <2>1. ASSUME NEW f PROVE InHub(f)' <=> InHub(f) /\ f # e
    <3>1. ASSUME InHub(f)' PROVE InHub(f) /\ f # e
      BY <1>0, <1>2, <1>6, <3>1 DEF InHub, Home, HubOnce
    <3>2. ASSUME InHub(f), f # e PROVE InHub(f)'
      BY <1>0, <1>7, <3>2 DEF InHub
    <3> QED BY <3>1, <3>2
  <2>2. \A f \in Event : Handed(f)' <=> Handed(f) \/ f = e
    BY <1>3, <1>4, Apart DEF Handed
  <2> QED BY <1>1, <2>1, <2>2 DEF InQueue
<1>9. InHub(e) /\ ~Handed(e) /\ ~InQueue(e) /\ e \notin lost /\ e \notin unsent
  <2>1. InHub(e)
    BY <1>0, <1>2 DEF InHub
  <2> QED BY <2>1 DEF Home, OnePlace
<1>10. HandOnce'
  <2>1. \A t \in Thread : event[t] # e
    BY <1>9 DEF Handed
  <2> QED BY <1>4, <2>1 DEF Home, HandOnce
<1>11. HubOnce'
  <2> SUFFICES ASSUME NEW j \in DOMAIN hub', NEW k \in DOMAIN hub', hub'[j] = hub'[k] PROVE j = k
    BY DEF HubOnce
  <2>1. j + 1 = k + 1
    BY <1>6 DEF Home, HubOnce
  <2> QED BY <1>2, <2>1
<1>12. OnePlace'
  BY <1>1, <1>8, <1>9 DEF Home, OnePlace
<1>13. QueueOnce'
  BY <1>1 DEF Home, QueueOnce
<1> QED BY <1>5, <1>10, <1>11, <1>12, <1>13 DEF Home

(* transport_not_found: what was in the hand is lost.                       *)
LEMMA LostHome ==
  ASSUME General, Home, NEW t \in Thread, transport_not_found(t),
         UNCHANGED <<uservars, conduct>>
  PROVE  General' /\ Home'
<1>1. /\ pc[t] = "lock" /\ lost' = lost \cup {event[t]} /\ event' = [event EXCEPT ![t] = None]
      /\ pc' = [pc EXCEPT ![t] = Return(t)]
      /\ UNCHANGED <<hub, queue, target, unsent, list, looping, quit, stopping>>
  BY DEF transport_not_found, queues, services, uservars
<1>2. event[t] \in Event /\ Return(t) \in {"idle", "loop"}
  BY <1>1, HandFacts DEF Return
<1>0. PICK e \in Event : e = event[t]
  BY <1>2
<1>3. /\ event'[t] = None /\ pc'[t] \in {"idle", "loop"} /\ event' \in [Thread -> Event \cup {None}]
      /\ pc' \in [Thread -> {"idle", "loop", "lock", "add", "join", "exited"}]
      /\ \A u \in Thread : u # t => event'[u] = event[u] /\ pc'[u] = pc[u]
  BY <1>1, <1>2 DEF General, Types
<1>4. General'
  <2>1. target[t] = None
    BY <1>1 DEF General, HandsFull
  <2> QED BY <1>1, <1>2, <1>3, <2>1 DEF General, Types, HandsFull
<1>5. /\ \A f \in Event : Handed(f)' <=> Handed(f) /\ f # e
      /\ \A f : (InHub(f)' <=> InHub(f)) /\ (InQueue(f)' <=> InQueue(f))
      /\ Handed(e)
  <2>1. \A u \in Thread : event[u] = e => u = t
    BY <1>0, Apart DEF Home, HandOnce
  <2>2. ASSUME NEW f \in Event PROVE Handed(f)' <=> Handed(f) /\ f # e
    BY <1>0, <1>3, <2>1, Apart DEF Handed
  <2>3. Handed(e)
    BY <1>0 DEF Handed
  <2> QED BY <1>1, <2>2, <2>3 DEF InHub, InQueue
<1>6. OnePlace'
  <2>1. lost' = lost \cup {e}
    BY <1>0, <1>1
  <2> QED BY <1>1, <1>5, <2>1 DEF Home, OnePlace
<1>7. HandOnce'
  BY <1>3 DEF Home, HandOnce
<1>8. HubOnce' /\ QueueOnce'
  BY <1>1 DEF Home, HubOnce, QueueOnce
<1> QED BY <1>4, <1>6, <1>7, <1>8 DEF Home

(* transport_found: a pointer to the service.                               *)
LEMMA FoundHome ==
  ASSUME General, Home, NEW t \in Thread, transport_found(t),
         UNCHANGED <<uservars, conduct>>
  PROVE  General' /\ Home'
<1>1. /\ pc[t] = "lock" /\ target' = [target EXCEPT ![t] = Lookup(Dest[event[t]])]
      /\ pc' = [pc EXCEPT ![t] = "add"] /\ Lookup(Dest[event[t]]) # None
      /\ UNCHANGED <<hub, queue, event, unsent, lost, list, looping, quit, stopping>>
  BY DEF transport_found, queues, services, history, uservars
<1>2. Lookup(Dest[event[t]]) \in Service
  BY <1>1, LookedUp DEF General
<1>3. General'
  BY <1>1, <1>2 DEF General, Types, HandsFull
<1> QED BY <1>1, <1>3, HomeStays

(* dt_add_event: from the hand to the end of a queue.                       *)
LEMMA AddHome ==
  ASSUME General, Home, NEW t \in Thread, dt_add_event(t),
         UNCHANGED <<uservars, conduct>>
  PROVE  General' /\ Home'
<1>e. PICK e \in Event : e = event[t]
  BY HandFacts DEF dt_add_event
<1>s. PICK s \in Service : s = target[t]
  BY HandFacts DEF dt_add_event
<1>1. /\ pc[t] = "add" /\ queue' = [queue EXCEPT ![s] = Append(@, e)]
      /\ event' = [event EXCEPT ![t] = None] /\ target' = [target EXCEPT ![t] = None]
      /\ pc' = [pc EXCEPT ![t] = Return(t)]
      /\ UNCHANGED <<hub, unsent, lost, list, looping, quit, stopping>>
  BY <1>e, <1>s DEF dt_add_event, services, history, uservars
<1>2. Return(t) \in {"idle", "loop"}
  BY DEF Return
<1>3. /\ event'[t] = None /\ pc'[t] \in {"idle", "loop"} /\ event' \in [Thread -> Event \cup {None}]
      /\ target'[t] = None /\ target' \in [Thread -> Service \cup {None}]
      /\ pc' \in [Thread -> {"idle", "loop", "lock", "add", "join", "exited"}]
      /\ \A u \in Thread : u # t => event'[u] = event[u] /\ pc'[u] = pc[u] /\ target'[u] = target[u]
  BY <1>1, <1>2 DEF General, Types
<1>4. /\ queue[s] \in Seq(Event) /\ Len(queue[s]) \in Nat /\ queue'[s] \in Seq(Event)
      /\ DOMAIN queue[s] = 1 .. Len(queue[s]) /\ DOMAIN queue'[s] = 1 .. Len(queue[s]) + 1
      /\ queue'[s][Len(queue[s]) + 1] = e
      /\ \A k \in 1 .. Len(queue[s]) : queue'[s][k] = queue[s][k]
      /\ \A u \in Service : u # s => queue'[u] = queue[u]
      /\ queue' \in [Service -> Seq(Event)]
  BY <1>1 DEF General, Types
<1>5. General'
  BY <1>1, <1>3, <1>4 DEF General, Types, HandsFull
<1>6. \A u \in Service : \A k \in DOMAIN queue'[u] :
        \/ k \in DOMAIN queue[u] /\ queue'[u][k] = queue[u][k]
        \/ u = s /\ k = Len(queue[s]) + 1 /\ queue'[u][k] = e
  BY <1>4
<1>7. \A u \in Service : \A k \in DOMAIN queue[u] : k \in DOMAIN queue'[u] /\ queue'[u][k] = queue[u][k]
  BY <1>4
<1>8. /\ \A f \in Event : Handed(f)' <=> Handed(f) /\ f # e
      /\ \A f : InHub(f)' <=> InHub(f)
      /\ \A f : InQueue(f)' <=> InQueue(f) \/ f = e
      /\ Handed(e)
  <2>1. \A u \in Thread : event[u] = e => u = t
    BY <1>e, Apart DEF Home, HandOnce
  <2>2. ASSUME NEW f \in Event PROVE Handed(f)' <=> Handed(f) /\ f # e
    BY <1>e, <1>3, <2>1, Apart DEF Handed
  <2>3. Handed(e)
    BY <1>e DEF Handed
  <2>4. ASSUME NEW f PROVE InQueue(f)' <=> InQueue(f) \/ f = e
    <3>1. InQueue(f)' => InQueue(f) \/ f = e
      BY <1>6 DEF InQueue
    <3>2. InQueue(f) => InQueue(f)'
      BY <1>7 DEF InQueue
    <3>3. InQueue(e)'
      <4>1. Len(queue[s]) + 1 \in DOMAIN queue'[s]
        BY <1>4
      <4> QED BY <1>4, <4>1 DEF InQueue
    <3> QED BY <3>1, <3>2, <3>3
  <2> QED BY <1>1, <2>2, <2>3, <2>4 DEF InHub
<1>9. OnePlace'
  BY <1>1, <1>8 DEF Home, OnePlace
<1>10. HandOnce'
  BY <1>3 DEF Home, HandOnce
<1>11. QueueOnce'
  <2>1. \A u \in Service : \A k \in DOMAIN queue[u] : queue[u][k] # e
    BY <1>8 DEF Home, OnePlace, InQueue
  <2> QED BY <1>6, <2>1 DEF Home, QueueOnce
<1>12. HubOnce'
  BY <1>1 DEF Home, HubOnce
<1> QED BY <1>5, <1>9, <1>10, <1>11, <1>12 DEF Home

(* dt_get_event: from the head of a queue to the free events.               *)
LEMMA HandleHome ==
  ASSUME General, Home, NEW s \in Service, handle_event(s), UNCHANGED conduct
  PROVE  General' /\ Home'
<1>1. /\ queue[s] # <<>> /\ queue' = [queue EXCEPT ![s] = Tail(@)]
      /\ unsent' = unsent \cup {Head(queue[s])}
      /\ UNCHANGED <<hub, event, pc, target, lost, list, stopping>>
      /\ s \in looping /\ looping' \subseteq looping /\ quit' \subseteq quit \cup {s}
  BY DEF handle_event, dt_get_event, services, threads
<1>2. /\ queue[s] \in Seq(Event) /\ Len(queue[s]) \in Nat /\ Head(queue[s]) = queue[s][1]
      /\ 1 \in DOMAIN queue[s] /\ queue[s][1] \in Event /\ queue'[s] \in Seq(Event)
      /\ DOMAIN queue[s] = 1 .. Len(queue[s]) /\ DOMAIN queue'[s] = 1 .. Len(queue[s]) - 1
      /\ \A k \in 1 .. Len(queue[s]) - 1 : queue'[s][k] = queue[s][k + 1]
      /\ \A u \in Service : u # s => queue'[u] = queue[u]
      /\ queue' \in [Service -> Seq(Event)]
  BY <1>1 DEF General, Types
<1>0. PICK e \in Event : e = queue[s][1]
  BY <1>2
<1>3. General'
  <2>1. looping' \subseteq Service /\ quit' \subseteq Service
    BY <1>1 DEF General, Types
  <2> QED BY <1>1, <1>2, <2>1 DEF General, Types, HandsFull
\* Where an entry was before.
<1>4. \A k \in DOMAIN queue'[s] : k + 1 \in DOMAIN queue[s] /\ k + 1 # 1 /\ queue'[s][k] = queue[s][k + 1]
  BY <1>2
<1>5. ASSUME NEW k \in DOMAIN queue[s], k # 1
      PROVE  k - 1 \in DOMAIN queue'[s] /\ queue'[s][k - 1] = queue[s][k]
  <2>1. k - 1 \in 1 .. Len(queue[s]) - 1 /\ (k - 1) + 1 = k
    BY <1>2, <1>5
  <2> QED BY <1>2, <2>1
<1>6. \A u \in Service : \A k \in DOMAIN queue[u] : queue[u][k] = e => u = s /\ k = 1
  BY <1>0, <1>2 DEF Home, QueueOnce
<1>7. /\ \A f : InQueue(f)' <=> InQueue(f) /\ f # e
      /\ InQueue(e)
      /\ \A f : (InHub(f)' <=> InHub(f)) /\ (Handed(f)' <=> Handed(f))
  <2>1. ASSUME NEW f, InQueue(f)' PROVE InQueue(f) /\ f # e
    <3>1. PICK u \in Service : \E k \in DOMAIN queue'[u] : queue'[u][k] = f
      BY <2>1 DEF InQueue
    <3>2. PICK k \in DOMAIN queue'[u] : queue'[u][k] = f
      BY <3>1
    <3>3. CASE u = s
      <4>1. k + 1 \in DOMAIN queue[s] /\ k + 1 # 1 /\ queue[s][k + 1] = f
        BY <1>4, <3>2, <3>3
      <4> QED BY <1>6, <4>1 DEF InQueue
    <3>4. CASE u # s
      BY <1>2, <1>6, <3>2, <3>4 DEF InQueue
    <3> QED BY <3>3, <3>4
  <2>2. ASSUME NEW f, InQueue(f), f # e PROVE InQueue(f)'
    <3>1. PICK u \in Service : \E k \in DOMAIN queue[u] : queue[u][k] = f
      BY <2>2 DEF InQueue
    <3>2. PICK k \in DOMAIN queue[u] : queue[u][k] = f
      BY <3>1
    <3>3. CASE u = s
      <4>1. k - 1 \in DOMAIN queue'[s] /\ queue'[s][k - 1] = f
        BY <1>0, <1>5, <2>2, <3>2, <3>3
      <4> QED BY <4>1 DEF InQueue
    <3>4. CASE u # s
      BY <1>2, <3>2, <3>4 DEF InQueue
    <3> QED BY <3>3, <3>4
  <2>3. InQueue(e)
    BY <1>0, <1>2 DEF InQueue
  <2> QED BY <1>1, <2>1, <2>2, <2>3 DEF InHub, Handed
<1>8. OnePlace'
  <2>1. unsent' = unsent \cup {e}
    BY <1>0, <1>1, <1>2
  <2> QED BY <1>1, <1>7, <2>1 DEF Home, OnePlace
<1>9. QueueOnce'
  <2> SUFFICES ASSUME NEW u \in Service, NEW v \in Service, NEW j \in DOMAIN queue'[u],
                      NEW k \in DOMAIN queue'[v], queue'[u][j] = queue'[v][k]
               PROVE  u = v /\ j = k
    BY DEF QueueOnce
  <2>1. PICK i \in DOMAIN queue[u] : queue[u][i] = queue'[u][j] /\ i = IF u = s THEN j + 1 ELSE j
    BY <1>2, <1>4
  <2>2. PICK l \in DOMAIN queue[v] : queue[v][l] = queue'[v][k] /\ l = IF v = s THEN k + 1 ELSE k
    BY <1>2, <1>4
  <2>3. u = v /\ i = l
    BY <2>1, <2>2 DEF Home, QueueOnce
  <2>4. CASE u = s
    BY <1>2, <2>1, <2>2, <2>3, <2>4
  <2>5. CASE u # s
    BY <2>1, <2>2, <2>3, <2>5
  <2> QED BY <2>4, <2>5
<1>10. HubOnce' /\ HandOnce'
  BY <1>1 DEF Home, HubOnce, HandOnce
<1> QED BY <1>3, <1>8, <1>9, <1>10 DEF Home

\* The queues of some services are emptied and what was in them is free.
LEMMA EmptiedHome ==
  ASSUME General, Home, NEW S \in SUBSET Service,
         queue' = [s \in Service |-> IF s \in S THEN <<>> ELSE queue[s]],
         UNCHANGED <<event, lost>>,
         hub' = hub \/ hub' = <<>>,
         NEW freed,
         freed = (IF hub' = hub THEN {} ELSE ToSet(hub)) \cup UNION {ToSet(queue[s]) : s \in S},
         unsent' = unsent \cup freed
  PROVE  /\ Home' /\ freed \subseteq Event
         /\ queue' \in [Service -> Seq(Event)] /\ hub' \in Seq(Event)
<1>1. \A s \in Service : queue'[s] = IF s \in S THEN <<>> ELSE queue[s]
  OBVIOUS
<1>2. \A s \in Service : ToSet(queue[s]) = {queue[s][k] : k \in DOMAIN queue[s]}
  BY DEF ToSet
<1>3. ToSet(hub) = {hub[k] : k \in DOMAIN hub}
  BY DEF ToSet
<1>4. ASSUME NEW f \in freed
      PROVE  f \in Event /\ (InHub(f) \/ InQueue(f)) /\ ~InHub(f)' /\ ~InQueue(f)'
  <2>1. CASE f \in ToSet(hub) /\ hub' # hub
    <3>1. InHub(f) /\ f \in Event
      BY <1>3, <2>1 DEF InHub, General, Types
    <3>2. ~InQueue(f)
      BY <3>1 DEF Home, OnePlace
    <3>3. ~InQueue(f)'
      BY <1>1, <3>2 DEF InQueue
    <3>4. ~InHub(f)'
      BY <2>1 DEF InHub
    <3> QED BY <3>1, <3>3, <3>4
  <2>2. CASE \E s \in S : f \in ToSet(queue[s])
    <3>1. PICK s \in S : f \in ToSet(queue[s])
      BY <2>2
    <3>2. PICK k \in DOMAIN queue[s] : queue[s][k] = f
      BY <1>2, <3>1
    <3>3. InQueue(f) /\ f \in Event
      BY <3>2 DEF InQueue, General, Types
    <3>4. ~InHub(f)
      BY <3>3 DEF Home, OnePlace
    <3>5. ~InHub(f)'
      BY <3>4 DEF InHub
    <3>6. ~InQueue(f)'
      <4>1. \A u \in Service : \A j \in DOMAIN queue[u] : queue[u][j] = f => u = s
        BY <3>2 DEF Home, QueueOnce
      <4> QED BY <1>1, <4>1 DEF InQueue
    <3> QED BY <3>3, <3>5, <3>6
  <2> QED BY <1>4, <2>1, <2>2
<1>5. ASSUME NEW f \in Event, f \notin freed
      PROVE  (InHub(f)' <=> InHub(f)) /\ (InQueue(f)' <=> InQueue(f))
  <2>1. InHub(f)' <=> InHub(f)
    BY <1>3, <1>5 DEF InHub
  <2>2. InQueue(f) => InQueue(f)'
    <3> SUFFICES ASSUME InQueue(f) PROVE InQueue(f)'
      OBVIOUS
    <3>1. PICK s \in Service : \E k \in DOMAIN queue[s] : queue[s][k] = f
      BY DEF InQueue
    <3>2. f \in ToSet(queue[s])
      BY <1>2, <3>1
    <3>3. s \notin S
      BY <1>5, <3>2
    <3> QED BY <1>1, <3>1, <3>3 DEF InQueue
  <2>3. InQueue(f)' => InQueue(f)
    BY <1>1 DEF InQueue
  <2> QED BY <2>1, <2>2, <2>3
<1>6. \A f : Handed(f)' <=> Handed(f)
  BY DEF Handed
<1>7. OnePlace'
  <2> SUFFICES ASSUME NEW f \in Event
               PROVE  /\ f \in unsent' \/ f \in lost \/ InHub(f)' \/ Handed(f)' \/ InQueue(f)'
                      /\ f \in unsent' => f \notin lost /\ ~InHub(f)' /\ ~Handed(f)' /\ ~InQueue(f)'
                      /\ f \in lost => ~InHub(f)' /\ ~Handed(f)' /\ ~InQueue(f)'
                      /\ InHub(f)' => ~Handed(f)' /\ ~InQueue(f)'
                      /\ Handed(f)' => ~InQueue(f)'
    BY DEF OnePlace
  <2>1. CASE f \in freed
    BY <1>4, <1>6, <2>1 DEF Home, OnePlace
  <2>2. CASE f \notin freed
    BY <1>5, <1>6, <2>2 DEF Home, OnePlace
  <2> QED BY <2>1, <2>2
<1>8. HubOnce' /\ HandOnce'
  BY DEF Home, HubOnce, HandOnce
<1>9. QueueOnce'
  BY <1>1 DEF Home, QueueOnce
<1>10. queue' \in [Service -> Seq(Event)] /\ hub' \in Seq(Event)
  <2>1. hub \in Seq(Event) /\ <<>> \in Seq(Event)
    BY DEF General, Types
  <2>2. \A s \in Service : queue[s] \in Seq(Event)
    BY DEF General, Types
  <2>3. \A s \in Service : (IF s \in S THEN <<>> ELSE queue[s]) \in Seq(Event)
    BY <2>1, <2>2
  <2> QED BY <2>1, <2>3
<1>11. freed \subseteq Event
  BY <1>4
<1> QED BY <1>7, <1>8, <1>9, <1>10, <1>11 DEF Home

(* dt_remove_service: what is left in the queue is freed with it.           *)
LEMMA RemoveHome ==
  ASSUME General, Home, NEW s \in Service, remove_service(s), UNCHANGED conduct
  PROVE  General' /\ Home'
<1>1. /\ unsent' = unsent \cup ToSet(queue[s]) /\ queue' = [queue EXCEPT ![s] = <<>>]
      /\ list' = IF Entries(IdOf[s]) = {} THEN list ELSE RemoveAt(list, First(IdOf[s]))
      /\ quit' = quit \ {s} /\ UNCHANGED <<hub, event, pc, target, lost, looping, stopping>>
  BY DEF remove_service, dt_remove_service, threads
<1>2. list' \in Seq(Service)
  <2>1. CASE Entries(IdOf[s]) = {}
    BY <1>1, <2>1 DEF General, Types
  <2>2. CASE Entries(IdOf[s]) # {}
    <3>1. list \in Seq(Service) /\ DOMAIN list = 1 .. Len(list) /\ Types
      BY DEF General, Types
    <3>2. First(IdOf[s]) \in 1 .. Len(list)
      BY <2>2, <3>1, FirstListed
    <3> QED BY <1>1, <2>2, <3>1, <3>2, Without
  <2> QED BY <2>1, <2>2
<1>3. queue' = [u \in Service |-> IF u \in {s} THEN <<>> ELSE queue[u]]
  BY <1>1 DEF General, Types
<1>4. ToSet(queue[s]) = (IF hub' = hub THEN {} ELSE ToSet(hub)) \cup UNION {ToSet(queue[u]) : u \in {s}}
  BY <1>1
<1>5. /\ Home' /\ ToSet(queue[s]) \subseteq Event
      /\ queue' \in [Service -> Seq(Event)] /\ hub' \in Seq(Event)
  BY <1>1, <1>3, <1>4, EmptiedHome
<1> QED BY <1>1, <1>2, <1>5 DEF General, Types, HandsFull

(* dt_service_release: the hub and every listed service.                    *)
LEMMA ReleaseHome ==
  ASSUME General, Home, NEW c \in Client, finish_release(c), UNCHANGED conduct
  PROVE  General' /\ Home'
<1> DEFINE S == ToSet(list)
           freed == ToSet(hub) \cup UNION {ToSet(queue[s]) : s \in S}
<1>1. /\ pc[c] = "join" /\ hub' = <<>> /\ list' = <<>>
      /\ queue' = [s \in Service |-> IF Registered(s) THEN <<>> ELSE queue[s]]
      /\ unsent' = unsent \cup freed
      /\ pc' = [pc EXCEPT ![c] = "idle"]
      /\ UNCHANGED <<event, target, lost, looping, quit, stopping>>
  BY DEF finish_release, release_end, uservars
<1>2. S \in SUBSET Service /\ \A s : s \in S <=> Registered(s)
  BY DEF ToSet, Registered, General, Types
<1>3. queue' = [s \in Service |-> IF s \in S THEN <<>> ELSE queue[s]]
  BY <1>1, <1>2
<1>4. freed = (IF hub' = hub THEN {} ELSE ToSet(hub)) \cup UNION {ToSet(queue[s]) : s \in S}
  <2>1. hub = <<>> => ToSet(hub) = {}
    BY DEF ToSet
  <2> QED BY <1>1, <2>1
<1> HIDE DEF S, freed
<1>5. /\ Home' /\ freed \subseteq Event
      /\ queue' \in [Service -> Seq(Event)] /\ hub' \in Seq(Event)
  BY <1>1, <1>2, <1>3, <1>4, EmptiedHome
<1>6. list' \in Seq(Service)
  BY <1>1
<1> QED BY <1>1, <1>5, <1>6 DEF General, Types, HandsFull

(* dt_register_service, of a service whose queue is empty.                  *)
LEMMA RegisterHome ==
  ASSUME General, Home, NEW s \in Service, start_service(s) \/ start_fails(s), queue[s] = <<>>,
         UNCHANGED conduct
  PROVE  General' /\ Home'
<1>1. /\ queue' = [queue EXCEPT ![s] = <<>>]
      /\ list' = IF SameIdFound(s) THEN list ELSE Append(list, s)
      /\ UNCHANGED <<hub, event, pc, target, lost, unsent, quit>>
      /\ looping' \subseteq looping \cup {s} /\ stopping' \subseteq stopping
  BY DEF start_service, start_fails, dt_register_service, threads, history, uservars
<1>2. queue' = queue
  BY <1>1 DEF General, Types
<1>3. list' \in Seq(Service)
  BY <1>1 DEF General, Types
<1>4. General'
  BY <1>1, <1>2, <1>3 DEF General, Types, HandsFull
<1> QED BY <1>1, <1>2, <1>4, HomeStays

LEMMA InitHome == UsersInit => General /\ Home
<1> SUFFICES ASSUME UsersInit PROVE General /\ Home
  OBVIOUS
<1> USE DEF UsersInit, Init
<1>1. Types
  BY UsersInitially DEF UInv
<1>2. HandsFull /\ unsent = Event /\ lost = {}
  BY Apart DEF HandsFull
<1>3. \A e \in Event : ~InHub(e) /\ ~Handed(e) /\ ~InQueue(e)
  BY Apart DEF InHub, Handed, InQueue
<1>4. OnePlace
  BY <1>2, <1>3 DEF OnePlace
<1>5. HubOnce /\ HandOnce /\ QueueOnce
  BY Apart DEF HubOnce, HandOnce, QueueOnce
<1> QED BY <1>1, <1>2, <1>4, <1>5 DEF General, Home

(* Every step, when only services with an empty queue are registered.       *)
LEMMA HomeStep ==
  ASSUME General, Home, [UsersNext]_allvars,
         \A s \in Service : start_service(s) \/ start_fails(s) => queue[s] = <<>>
  PROVE  General' /\ Home'
<1>0. UNCHANGED conduct
  BY DEF UsersNext, allvars
<1>1. ASSUME NEW t \in Thread, dt_transport_event(t), UNCHANGED uservars
      PROVE  General' /\ Home'
  BY <1>0, <1>1, FoundHome, LostHome, AddHome DEF dt_transport_event
<1>2. ASSUME UNCHANGED <<hub, queue, event, target, unsent, lost, list, looping, quit, stopping>>,
             NEW t \in Thread, NEW to \in {"join", "exited"}, pc[t] \in {"idle", "loop"},
             pc' = [pc EXCEPT ![t] = to]
      PROVE  General' /\ Home'
  <2>1. General'
    BY <1>0, <1>2 DEF General, Types, HandsFull
  <2> QED BY <1>2, <2>1, HomeStays
<1>3. CASE transport
  <2>1. CASE transport_quit
    <3>1. /\ UNCHANGED <<hub, queue, event, target, unsent, lost, list, looping, quit, stopping>>
          /\ Transport \in Thread /\ pc[Transport] \in {"idle", "loop"}
          /\ pc' = [pc EXCEPT ![Transport] = "exited"]
      BY <1>3, <2>1, Apart DEF transport, transport_quit, queues, services, history, uservars
    <3> QED BY <1>2, <3>1
  <2>2. CASE transport_get
    BY <1>0, <1>3, <2>2, GetHome DEF transport
  <2>3. CASE dt_transport_event(Transport)
    BY <1>1, <1>3, <2>3, Apart DEF transport
  <2> QED BY <1>3, <2>1, <2>2, <2>3 DEF transport, event_transport_loop
<1>4. ASSUME NEW c \in Client, release_service(c) PROVE General' /\ Home'
  <2>1. /\ UNCHANGED <<hub, queue, event, target, unsent, lost, list, looping, quit, stopping>>
        /\ c \in Thread /\ pc[c] \in {"idle", "loop"} /\ pc' = [pc EXCEPT ![c] = "join"]
    BY <1>4, Apart DEF release_service, release_begin, queues, services, history, uservars
  <2> QED BY <1>2, <2>1
<1>5. CASE UNCHANGED allvars
  <2>1. UNCHANGED <<hub, queue, event, target, unsent, lost, list, looping, quit, stopping, pc>>
    BY <1>5 DEF allvars, vars, uservars
  <2>2. General'
    BY <1>0, <2>1 DEF General, Types, HandsFull
  <2> QED BY <2>1, <2>2, HomeStays
<1>6. ASSUME NEW c \in Client, finish_sync(c) PROVE General' /\ Home'
  BY <1>1, <1>6, Apart DEF finish_sync
<1> QED BY <1>0, <1>3, <1>4, <1>5, <1>6, SendHome, SyncHome, HandleHome, RemoveHome, ReleaseHome, RegisterHome
    DEF UsersNext

-----------------------------------------------------------------------------
\* Registering is for a service with an empty queue, because what was stopped and
\* removed is not started again ...
LEMMA LastingRegisters ==
  ASSUME NotAgain, NEW s \in Service, start_service(s) \/ start_fails(s),
         UNCHANGED conduct
  PROVE  queue[s] = <<>>
<1>1. s \notin live /\ mgt = "up" /\ (IdOf[s] \in started => IdOf[s] \in Restarts \cup MayFail)
  BY DEF start_service, start_fails, dt_register_service
<1> QED BY <1>1 DEF NotAgain, Kept, Past, Met

LEMMA NotAgainInit == UsersInit => NotAgain
<1> SUFFICES ASSUME UsersInit PROVE NotAgain
  OBVIOUS
<1>1. \A s \in Service : ~Met(s)
  BY Apart DEF UsersInit, Init, Met, Registered
<1> QED BY <1>1, Apart DEF UsersInit, Init, NotAgain

\* A service that is kept is kept.
LEMMA KeptStays ==
  ASSUME started \subseteq started', UNCHANGED conduct,
         \/ mgt' # "up"
         \/ mgt' = mgt /\ \A u \in live : u \in live' \/ Past(u)
  PROVE  /\ \A s : Past(s) => Past(s)'
         /\ \A s : Kept(s) => Kept(s)'
BY DEF Kept, Past

\* A step after which no more is met.
LEMMA NotAgainStays ==
  ASSUME NotAgain, General,
         \A s : Past(s) => Past(s)',
         \A s : Kept(s) => Kept(s)',
         \A s \in Service : Met(s)' => Met(s) \/ Kept(s)',
         \A t \in Thread : target'[t] = None \/ (target'[t] = target[t] /\ event'[t] = event[t]),
         \A s \in Service : queue'[s] = queue[s] \/ queue'[s] = <<>>,
         \A s \in looping' : s \in looping \/ IdOf[s] \in started',
         started \subseteq started',
         quit' \subseteq quit
  PROVE  NotAgain'
<1>1. \A s \in Service : Met(s)' => Kept(s)'
  BY DEF NotAgain
<1>2. \A t \in Thread : \A s \in Service : target'[t] = s => IdOf[s] = Dest[event'[t]]
  BY Apart DEF NotAgain
<1>3. \A s \in Service : \A k \in DOMAIN queue'[s] : Dest[queue'[s][k]] = IdOf[s]
  BY DEF NotAgain
<1>4. (\A s \in looping' : IdOf[s] \in started') /\ (\A s \in quit' : Past(s)')
  BY DEF NotAgain
<1> QED BY <1>1, <1>2, <1>3, <1>4 DEF NotAgain

(* A service comes up.                                                      *)
LEMMA StartNotAgain ==
  ASSUME NotAgain, General, NEW s \in Service, start_service(s) \/ start_fails(s),
         UNCHANGED conduct
  PROVE  NotAgain'
<1>1. /\ live' = live \cup {s} /\ queue' = [queue EXCEPT ![s] = <<>>] /\ mgt' = mgt
      /\ list' = list \/ list' = Append(list, s)
      /\ UNCHANGED <<event, target, quit>>
      /\ \/ looping' = looping /\ started' = started
         \/ looping' = looping \cup {s} /\ started' = started \cup {IdOf[s]}
  BY DEF start_service, start_fails, dt_register_service, threads, manager, uservars
<1>2. /\ \A u : Past(u) => Past(u)'
      /\ \A u : Kept(u) => Kept(u)'
  BY <1>1, KeptStays
<1>3. Kept(s)'
  BY <1>1 DEF Kept
<1>4. \A u \in Service : queue'[u] = queue[u] \/ queue'[u] = <<>>
  BY <1>1 DEF General, Types
<1>5. \A u \in Service : Registered(u)' => Registered(u) \/ u = s
  <2>1. list \in Seq(Service)
    BY DEF General, Types
  <2>2. \A k \in DOMAIN list' : (k \in DOMAIN list /\ list'[k] = list[k]) \/ list'[k] = s
    BY <1>1, <2>1
  <2> QED BY <2>2 DEF Registered
<1>6. \A u \in Service : Met(u)' => Met(u) \/ Kept(u)'
  BY <1>1, <1>3, <1>4, <1>5 DEF Met
<1> QED BY <1>1, <1>2, <1>4, <1>6, NotAgainStays

(* A service goes, or all do.                                               *)
LEMMA RemoveNotAgain ==
  ASSUME NotAgain, General, UNCHANGED conduct,
         \/ \E s \in Service : remove_service(s)
         \/ \E c \in Client : finish_release(c)
  PROVE  NotAgain'
<1>1. ASSUME NEW s \in Service, remove_service(s) PROVE NotAgain'
  <2>1. /\ s \in quit /\ live' = live \ {s} /\ quit' = quit \ {s}
        /\ queue' = [queue EXCEPT ![s] = <<>>]
        /\ list' = IF Entries(IdOf[s]) = {} THEN list ELSE RemoveAt(list, First(IdOf[s]))
        /\ UNCHANGED <<event, target, looping, started, mgt>>
    BY <1>1 DEF remove_service, dt_remove_service, threads, manager
  <2>2. Past(s)
    BY <2>1 DEF NotAgain
  <2>3. /\ \A u : Past(u) => Past(u)'
        /\ \A u : Kept(u) => Kept(u)'
    BY <2>1, <2>2, KeptStays
  <2>4. \A u \in Service : queue'[u] = queue[u] \/ queue'[u] = <<>>
    BY <2>1 DEF General, Types
  <2>5. \A u \in Service : Registered(u)' => Registered(u)
    <3>1. CASE Entries(IdOf[s]) = {}
      BY <2>1, <3>1 DEF Registered
    <3>2. CASE Entries(IdOf[s]) # {}
      <4>1. PICK n \in 1 .. Len(list) : n = First(IdOf[s])
        BY <3>2, FirstListed DEF General, Types
      <4>2. list \in Seq(Service) /\ list' = RemoveAt(list, n) /\ DOMAIN list = 1 .. Len(list)
        BY <2>1, <3>2, <4>1 DEF General, Types
      <4>3. /\ DOMAIN list' = 1 .. Len(list) - 1 /\ Len(list) \in Nat
            /\ \A k \in 1 .. Len(list) - 1 : list'[k] = IF k < n THEN list[k] ELSE list[k + 1]
        BY <4>2, Without
      <4>4. \A k \in DOMAIN list' : \E j \in DOMAIN list : list'[k] = list[j]
        <5> SUFFICES ASSUME NEW k \in DOMAIN list' PROVE \E j \in DOMAIN list : list'[k] = list[j]
          OBVIOUS
        <5>1. k \in DOMAIN list /\ k + 1 \in DOMAIN list
          BY <4>2, <4>3
        <5> QED BY <4>3, <5>1
      <4> QED BY <4>4 DEF Registered
    <3> QED BY <3>1, <3>2
  <2>6. \A u \in Service : Met(u)' => Met(u)
    BY <2>1, <2>4, <2>5 DEF Met
  <2> QED BY <2>1, <2>3, <2>4, <2>6, NotAgainStays
<1>2. ASSUME NEW c \in Client, finish_release(c) PROVE NotAgain'
  <2>1. /\ mgt' = "freed"
        /\ queue' = [s \in Service |-> IF Registered(s) THEN <<>> ELSE queue[s]]
        /\ UNCHANGED <<event, target, looping, started, quit>>
    BY <1>2 DEF finish_release, release_end, uservars
  <2>2. /\ \A u : Past(u) => Past(u)'
        /\ \A u : Kept(u)'
    BY <2>1, KeptStays DEF Kept
  <2>3. \A u \in Service : queue'[u] = queue[u] \/ queue'[u] = <<>>
    BY <2>1
  <2> QED BY <2>1, <2>2, <2>3, NotAgainStays
<1> QED BY <1>1, <1>2

(* An event goes from hand to hand.                                         *)
LEMMA TransportNotAgain ==
  ASSUME NotAgain, General, NEW t \in Thread, dt_transport_event(t),
         UNCHANGED <<uservars, conduct>>
  PROVE  NotAgain'
<1>1. UNCHANGED <<live, list, mgt, looping, quit, started>>
  BY DEF dt_transport_event, transport_found, transport_not_found, dt_add_event, services, manager,
         uservars
<1>2. \A u : (Past(u)' <=> Past(u)) /\ (Kept(u)' <=> Kept(u)) /\ (Registered(u)' <=> Registered(u))
  BY <1>1 DEF Past, Kept, Registered
<1>3. CASE transport_found(t)
  <2>1. /\ target' = [target EXCEPT ![t] = Lookup(Dest[event[t]])]
        /\ Lookup(Dest[event[t]]) # None /\ event' = event /\ queue' = queue
    BY <1>3 DEF transport_found, queues
  <2>2. PICK s \in Service : s = Lookup(Dest[event[t]]) /\ IdOf[s] = Dest[event[t]] /\ Registered(s)
    BY <2>1, LookedUp DEF General, Registered
  <2>3. \A u \in Thread : target'[u] = IF u = t THEN s ELSE target[u]
    BY <2>1, <2>2 DEF General, Types
  <2>4. \A u \in Service : Met(u)' => Met(u)
    BY <1>2, <2>1, <2>2, <2>3 DEF Met
  <2>5. \A u \in Thread : \A v \in Service : target'[u] = v => IdOf[v] = Dest[event'[u]]
    BY <2>1, <2>2, <2>3 DEF NotAgain
  <2>6. \A u \in Service : Met(u)' => Kept(u)'
    BY <1>2, <2>4 DEF NotAgain
  <2> QED BY <1>1, <1>2, <2>1, <2>5, <2>6 DEF NotAgain
<1>4. CASE transport_not_found(t)
  <2>1. /\ pc[t] = "lock" /\ event' = [event EXCEPT ![t] = None] /\ target' = target /\ queue' = queue
    BY <1>4 DEF transport_not_found, queues
  <2>2. target[t] = None
    BY <2>1 DEF General, HandsFull
  <2>3. \A u \in Thread : target'[u] = None \/ (target'[u] = target[u] /\ event'[u] = event[u])
    BY <2>1, <2>2 DEF General, Types
  <2>4. \A u \in Service : Met(u)' => Met(u)
    BY <1>2, <2>1 DEF Met
  <2> QED BY <1>1, <1>2, <2>1, <2>3, <2>4, NotAgainStays
<1>5. CASE dt_add_event(t)
  <2>e. PICK e \in Event : e = event[t]
    BY <1>5, HandFacts DEF dt_add_event
  <2>s. PICK s \in Service : s = target[t]
    BY <1>5, HandFacts DEF dt_add_event
  <2>1. /\ queue' = [queue EXCEPT ![s] = Append(@, e)]
        /\ event' = [event EXCEPT ![t] = None] /\ target' = [target EXCEPT ![t] = None]
    BY <1>5, <2>e, <2>s DEF dt_add_event
  <2>2. IdOf[s] = Dest[e] /\ Met(s)
    BY <2>e, <2>s DEF NotAgain, Met
  <2>3. \A u \in Thread : target'[u] = None \/ (target'[u] = target[u] /\ event'[u] = event[u])
    BY <2>1 DEF General, Types
  <2>4. \A u \in Service : u # s => queue'[u] = queue[u]
    BY <2>1 DEF General, Types
  <2>5. \A k \in DOMAIN queue'[s] : Dest[queue'[s][k]] = IdOf[s]
    <3>1. queue[s] \in Seq(Event) /\ queue'[s] = Append(queue[s], e)
      BY <2>1 DEF General, Types
    <3>2. \A k \in DOMAIN queue'[s] : (k \in DOMAIN queue[s] /\ queue'[s][k] = queue[s][k]) \/ queue'[s][k] = e
      BY <3>1
    <3> QED BY <2>2, <3>2 DEF NotAgain
  <2>6. \A u \in Service : Met(u)' => Met(u)
    BY <1>2, <2>2, <2>3, <2>4, Apart DEF Met
  <2>7. \A u \in Service : Met(u)' => Kept(u)'
    BY <1>2, <2>6 DEF NotAgain
  <2>8. \A u \in Thread : \A v \in Service : target'[u] = v => IdOf[v] = Dest[event'[u]]
    BY <2>3, Apart DEF NotAgain
  <2>9. \A u \in Service : \A k \in DOMAIN queue'[u] : Dest[queue'[u][k]] = IdOf[u]
    BY <2>4, <2>5 DEF NotAgain
  <2> QED BY <1>1, <1>2, <2>7, <2>8, <2>9 DEF NotAgain
<1> QED BY <1>3, <1>4, <1>5 DEF dt_transport_event

(* A service that leaves its loop was told to: it is not started again.     *)
LEMMA HandleNotAgain ==
  ASSUME Lasting, NotAgain, General, NEW s \in Service, handle_event(s),
         UNCHANGED conduct
  PROVE  NotAgain'
<1>1. /\ s \in looping /\ queue[s] # <<>> /\ queue' = [queue EXCEPT ![s] = Tail(@)]
      /\ looping' \subseteq looping
      /\ quit' = quit \/ (quit' = quit \cup {s} /\ Head(queue[s]) \in Stop)
      /\ UNCHANGED <<live, list, mgt, event, target, started>>
  BY DEF handle_event, dt_get_event, services, threads, manager
<1>2. /\ queue[s] \in Seq(Event) /\ Head(queue[s]) = queue[s][1] /\ 1 \in DOMAIN queue[s]
      /\ \A k \in DOMAIN queue'[s] : k + 1 \in DOMAIN queue[s] /\ queue'[s][k] = queue[s][k + 1]
      /\ \A u \in Service : u # s => queue'[u] = queue[u]
  BY <1>1 DEF General, Types
<1>3. \A u : (Past(u)' <=> Past(u)) /\ (Kept(u)' <=> Kept(u)) /\ (Registered(u)' <=> Registered(u))
  BY <1>1 DEF Past, Kept, Registered
<1>4. \A u \in Service : Met(u)' => Met(u)
  BY <1>1, <1>2, <1>3 DEF Met
<1>5. Head(queue[s]) \in Stop => Past(s)
  <2>1. Dest[queue[s][1]] = IdOf[s] /\ IdOf[s] \in started
    BY <1>1, <1>2 DEF NotAgain
  <2> QED BY <1>2, <2>1 DEF Lasting, Past
<1>6. \A u \in quit' : Past(u)'
  BY <1>1, <1>3, <1>5 DEF NotAgain
<1>7. \A u \in Service : \A k \in DOMAIN queue'[u] : Dest[queue'[u][k]] = IdOf[u]
  BY <1>2 DEF NotAgain
<1>8. \A u \in Service : Met(u)' => Kept(u)'
  BY <1>3, <1>4 DEF NotAgain
<1> QED BY <1>1, <1>6, <1>7, <1>8 DEF NotAgain

LEMMA NotAgainStep ==
  ASSUME Lasting, NotAgain, General, [UsersNext]_allvars
  PROVE  NotAgain'
<1>0. UNCHANGED conduct
  BY DEF UsersNext, allvars
<1>1. ASSUME UNCHANGED <<queue, live, list, looping, quit, started>>,
             mgt' = mgt \/ mgt' # "up",
             \A t \in Thread : target'[t] = None \/ (target'[t] = target[t] /\ event'[t] = event[t]),
             \A t \in Thread : target'[t] = target[t]
      PROVE  NotAgain'
  <2>1. (\A u : Past(u) => Past(u)') /\ (\A u : Kept(u) => Kept(u)')
    BY <1>0, <1>1 DEF Past, Kept
  <2>2. \A u \in Service : Met(u)' => Met(u)
    BY <1>1 DEF Met, Registered
  <2> QED BY <1>1, <2>1, <2>2, NotAgainStays
<1>2. ASSUME NEW c \in Client, NEW e \in Event, send(c, e) PROVE NotAgain'
  BY <1>1, <1>2 DEF send, dt_send_event, services, threads, manager
<1>3. ASSUME NEW c \in Client, NEW e \in Event, send_sync(c, e) PROVE NotAgain'
  <2>1. /\ UNCHANGED <<queue, live, list, looping, quit, started, mgt, target>>
        /\ pc[c] = "idle" /\ event' = [event EXCEPT ![c] = e]
    BY <1>3 DEF send_sync, dt_send_event_sync, queues, services, manager, uservars
  <2>2. target[c] = None
    BY <2>1, Apart DEF General, HandsFull
  <2>3. \A t \in Thread : target'[t] = None \/ (target'[t] = target[t] /\ event'[t] = event[t])
    BY <2>1, <2>2 DEF General, Types
  <2> QED BY <1>1, <2>1, <2>3
<1>4. ASSUME NEW c \in Client, release_service(c) PROVE NotAgain'
  <2>1. /\ UNCHANGED <<queue, live, list, looping, quit, started, target, event>> /\ mgt' = "joining"
    BY <1>4 DEF release_service, release_begin, queues, services, uservars
  <2> QED BY <1>1, <2>1
<1>5. CASE transport
  <2>1. CASE transport_quit
    <3>1. UNCHANGED <<queue, live, list, looping, quit, started, target, event, mgt>>
      BY <1>5, <2>1 DEF transport, transport_quit, queues, services, manager, uservars
    <3> QED BY <1>1, <3>1
  <2>2. CASE transport_get
    <3>1. /\ UNCHANGED <<queue, live, list, looping, quit, started, mgt, target>>
          /\ pc[Transport] = "loop" /\ event' = [event EXCEPT ![Transport] = Head(hub)]
      BY <1>5, <2>2 DEF transport, transport_get, services, manager, uservars
    <3>2. target[Transport] = None
      BY <3>1, Apart DEF General, HandsFull
    <3>3. \A t \in Thread : target'[t] = None \/ (target'[t] = target[t] /\ event'[t] = event[t])
      BY <3>1, <3>2 DEF General, Types
    <3> QED BY <1>1, <3>1, <3>3
  <2>3. CASE dt_transport_event(Transport)
    BY <1>0, <1>5, <2>3, TransportNotAgain, Apart DEF transport
  <2> QED BY <1>5, <2>1, <2>2, <2>3 DEF transport, event_transport_loop
<1>6. CASE UNCHANGED allvars
  <2>1. UNCHANGED <<queue, live, list, looping, quit, started, target, event, mgt>>
    BY <1>6 DEF allvars, vars, uservars
  <2> QED BY <1>1, <2>1
<1>7. ASSUME NEW c \in Client, finish_sync(c) PROVE NotAgain'
  BY <1>0, <1>7, TransportNotAgain, Apart DEF finish_sync
<1> QED BY <1>0, <1>2, <1>3, <1>4, <1>5, <1>6, <1>7, StartNotAgain, RemoveNotAgain, HandleNotAgain DEF UsersNext

\* ... or because nothing is under way to a service that is removed.
LEMMA OrderlyRegisters ==
  ASSUME Orderly, UInv, NEW s \in Service, start_service(s) \/ start_fails(s),
         UNCHANGED conduct
  PROVE  queue[s] = <<>>
BY DEF start_service, start_fails, dt_register_service, UInv, Expected, Owned

\* What is true of the two kinds of clients.
Placement ==
  /\ Orderly => General /\ Home
  /\ Lasting => NotAgain /\ General /\ Home

LEMMA HomeAlways == Spec => []Placement
<1>1. UsersInit => Placement
  BY InitHome, NotAgainInit DEF Placement
<1>2. Tidy /\ Placement /\ [UsersNext]_allvars => Placement'
  <2> SUFFICES ASSUME Tidy, Placement, [UsersNext]_allvars
               PROVE  Placement'
    OBVIOUS
  <2>1. UNCHANGED conduct
    BY DEF UsersNext, allvars
  <2>2. ASSUME Orderly' PROVE General' /\ Home'
    <3>1. Orderly
      BY <2>1, <2>2 DEF Orderly
    <3>2. UInv /\ General /\ Home
      BY <3>1 DEF Tidy, Placement
    <3> QED BY <2>1, <3>1, <3>2, OrderlyRegisters, HomeStep
  <2>3. ASSUME Lasting' PROVE NotAgain' /\ General' /\ Home'
    <3>1. Lasting
      BY <2>1, <2>3 DEF Lasting
    <3>2. NotAgain /\ General /\ Home
      BY <3>1 DEF Placement
    <3> QED BY <2>1, <3>1, <3>2, LastingRegisters, HomeStep, NotAgainStep
  <2> QED BY <2>2, <2>3 DEF Placement
<1> QED BY <1>1, <1>2, UsersAlways, PTL DEF Spec

\* One place each is one home each.
LEMMA HomeIsOne == General /\ Home => OneHome
<1>1. ASSUME General, Home, NEW e \in Event PROVE \E h : Homes(e) = {h}
  <2> DEFINE free == {<<"unsent">> : x \in unsent \cap {e}}
             gone == {<<"lost">> : x \in lost \cap {e}}
             hubs == {<<"hub", k>> : k \in {j \in DOMAIN hub : hub[j] = e}}
             hands == {<<"thread", t>> : t \in {u \in Thread : event[u] = e}}
             queued(s) == {<<"queue", s, k>> : k \in {j \in DOMAIN queue[s] : queue[s][j] = e}}
  <2>1. Homes(e) = free \cup gone \cup hubs \cup hands \cup UNION {queued(s) : s \in Service}
    BY DEF Homes
  <2>2. /\ e \notin unsent => free = {}
        /\ e \notin lost => gone = {}
        /\ ~InHub(e) => hubs = {}
        /\ ~Handed(e) => hands = {}
        /\ ~InQueue(e) => \A s \in Service : queued(s) = {}
    BY DEF InHub, Handed, InQueue
  <2>8. ~InQueue(e) => UNION {queued(s) : s \in Service} = {}
    BY <2>2
  <2> DEFINE none == UNION {queued(s) : s \in Service}
  <2>9. Homes(e) = free \cup gone \cup hubs \cup hands \cup none
    BY <2>1
  <2>3. CASE e \in unsent
    <3>1. free = {<<"unsent">>}
      BY <2>3
    <3>2. e \notin lost /\ ~InHub(e) /\ ~Handed(e) /\ ~InQueue(e)
      BY <1>1, <2>3 DEF Home, OnePlace
    <3>7. none = {}
      BY <2>8, <3>2
    <3> HIDE DEF free, gone, hubs, hands, none
    <3> QED BY <2>9, <2>2, <3>7, <3>1, <3>2
  <2>4. CASE e \in lost
    <3>1. gone = {<<"lost">>}
      BY <2>4
    <3>2. e \notin unsent /\ ~InHub(e) /\ ~Handed(e) /\ ~InQueue(e)
      BY <1>1, <2>4 DEF Home, OnePlace
    <3>7. none = {}
      BY <2>8, <3>2
    <3> HIDE DEF free, gone, hubs, hands, none
    <3> QED BY <2>9, <2>2, <3>7, <3>1, <3>2
  <2>5. CASE InHub(e)
    <3>1. PICK k \in DOMAIN hub : hub[k] = e
      BY <2>5 DEF InHub
    <3>2. hubs = {<<"hub", k>>}
      BY <1>1, <3>1 DEF Home, HubOnce
    <3>3. e \notin unsent /\ e \notin lost /\ ~Handed(e) /\ ~InQueue(e)
      BY <1>1, <2>5 DEF Home, OnePlace
    <3>7. none = {}
      BY <2>8, <3>3
    <3> HIDE DEF free, gone, hubs, hands, none
    <3> QED BY <2>9, <2>2, <3>7, <3>2, <3>3
  <2>6. CASE Handed(e)
    <3>1. PICK t \in Thread : event[t] = e
      BY <2>6 DEF Handed
    <3>2. hands = {<<"thread", t>>}
      BY <1>1, <3>1, Apart DEF Home, HandOnce
    <3>3. e \notin unsent /\ e \notin lost /\ ~InHub(e) /\ ~InQueue(e)
      BY <1>1, <2>6 DEF Home, OnePlace
    <3>7. none = {}
      BY <2>8, <3>3
    <3> HIDE DEF free, gone, hubs, hands, none
    <3> QED BY <2>9, <2>2, <3>7, <3>2, <3>3
  <2>7. CASE InQueue(e)
    <3>1. PICK s \in Service : \E k \in DOMAIN queue[s] : queue[s][k] = e
      BY <2>7 DEF InQueue
    <3>2. PICK k \in DOMAIN queue[s] : queue[s][k] = e
      BY <3>1
    <3>3. queued(s) = {<<"queue", s, k>>} /\ \A u \in Service : u # s => queued(u) = {}
      BY <1>1, <3>2 DEF Home, QueueOnce
    <3>4. e \notin unsent /\ e \notin lost /\ ~InHub(e) /\ ~Handed(e)
      BY <1>1, <2>7 DEF Home, OnePlace
    <3>5. UNION {queued(u) : u \in Service} = {<<"queue", s, k>>}
      BY <3>3
    <3> QED BY <2>1, <2>2, <3>4, <3>5
  <2> QED BY <1>1, <2>3, <2>4, <2>5, <2>6, <2>7 DEF Home, OnePlace
<1>2. General /\ Home => OneHome
  <2> SUFFICES ASSUME General, Home, NEW e \in Event PROVE Cardinality(Homes(e)) = 1
    BY DEF OneHome
  <2>1. PICK h : Homes(e) = {h}
    BY <1>1
  <2> QED BY <2>1, FS_Singleton
<1> QED BY <1>2

(* EventsKept (dt_event.c): an event is in exactly one place, free, in one  *)
(* list once, or in one thread's hands, for any number of services, clients *)
(* and events and whatever the clients send and when, as long as a service  *)
(* that was stopped is not started again, or the clients are orderly; so    *)
(* none is freed or handled twice.  While they are orderly none is left     *)
(* behind by a look-up either.                                              *)
THEOREM EventsAreKept == Spec => []EventsKept
<1>1. Tidy /\ Placement => EventsKept
  BY HomeIsOne DEF Tidy, Placement, EventsKept
<1> QED BY <1>1, UsersAlways, HomeAlways, PTL

-----------------------------------------------------------------------------
(* The lock of dt_event.c: for any number of threads, services and events,  *)
(* and whatever the clients send.                                           *)

LockTypeOK ==
  /\ pc \in [Thread -> {"idle", "loop", "lock", "add", "join", "exited"}]
  /\ service_lock \in Thread \cup {None}

LInv == LockTypeOK /\ LockHeld

(* The steps that leave the lock and every pc alone.                        *)
LEMMA Elsewhere ==
  ASSUME LInv, UNCHANGED <<pc, service_lock>>
  PROVE  LInv'
BY DEF LInv, LockTypeOK, LockHeld

(* A step that moves one thread between places outside the critical section. *)
LEMMA OutsideStep ==
  ASSUME LInv,
         NEW t \in Thread,
         NEW to \in {"idle", "loop", "lock", "exited"},
         pc[t] \in {"idle", "loop", "lock", "exited"},
         pc' = [pc EXCEPT ![t] = to],
         UNCHANGED service_lock
  PROVE  LInv'
BY DEF LInv, LockTypeOK, LockHeld

(* Taking the free lock, and giving it back.                                *)
LEMMA EnterStep ==
  ASSUME LInv,
         NEW t \in Thread,
         NEW to \in {"add", "join"},
         service_lock = None,
         pc' = [pc EXCEPT ![t] = to],
         service_lock' = t
  PROVE  LInv'
<1>1. None \notin Thread
  BY EventServiceAssumption DEF Thread
<1> QED
  BY <1>1 DEF LInv, LockTypeOK, LockHeld

LEMMA LeaveStep ==
  ASSUME LInv,
         NEW t \in Thread,
         NEW to \in {"idle", "loop"},
         pc[t] \in {"add", "join"},
         pc' = [pc EXCEPT ![t] = to],
         service_lock' = None
  PROVE  LInv'
<1>1. None \notin Thread
  BY EventServiceAssumption DEF Thread
<1> QED
  BY <1>1 DEF LInv, LockTypeOK, LockHeld

(* The three steps of dt_transport_event, for the transport thread and for  *)
(* a synchronous sender alike.                                              *)
LEMMA TransportStep ==
  ASSUME LInv, NEW t \in Thread, dt_transport_event(t)
  PROVE  LInv'
<1>1. Return(t) \in {"idle", "loop"}
  BY DEF Return
<1>2. CASE transport_found(t)
  BY <1>2, EnterStep DEF transport_found
<1>3. CASE transport_not_found(t)
  BY <1>1, <1>3, OutsideStep DEF transport_not_found
<1>4. CASE dt_add_event(t)
  BY <1>1, <1>4, LeaveStep DEF dt_add_event
<1> QED
  BY <1>2, <1>3, <1>4 DEF dt_transport_event

(* service_lock is held by exactly the threads between its lock and unlock. *)
THEOREM LockInvariant == Spec => []LockHeld
<1>1. UsersInit => LInv
  BY EventServiceAssumption
     DEF UsersInit, Init, LInv, LockTypeOK, LockHeld, Thread
<1>2. LInv /\ [UsersNext]_allvars => LInv'
  <2> SUFFICES ASSUME LInv, [UsersNext]_allvars
               PROVE  LInv'
    OBVIOUS
  <2> USE DEF Thread
  <2>1. ASSUME NEW s \in Service,
               start_service(s) \/ start_fails(s) \/ handle_event(s)
                 \/ remove_service(s)
        PROVE  LInv'
    BY <2>1, Elsewhere
       DEF start_service, start_fails, handle_event, remove_service,
           dt_register_service, dt_get_event, dt_remove_service, threads
  <2>2. ASSUME NEW c \in Client, NEW e \in Event, send(c, e)
        PROVE  LInv'
    BY <2>2, Elsewhere DEF send, dt_send_event, threads
  <2>3. ASSUME NEW c \in Client, NEW e \in Event, send_sync(c, e)
        PROVE  LInv'
    BY <2>3, OutsideStep DEF send_sync, dt_send_event_sync
  <2>4. ASSUME NEW c \in Client, finish_sync(c)
        PROVE  LInv'
    BY <2>4, TransportStep DEF finish_sync
  <2>5. ASSUME NEW c \in Client, release_service(c)
        PROVE  LInv'
    BY <2>5, EnterStep DEF release_service, release_begin
  <2>6. ASSUME NEW c \in Client, finish_release(c)
        PROVE  LInv'
    BY <2>6, LeaveStep DEF finish_release, release_end
  <2>7. CASE transport
    <3>1. CASE transport_quit
      BY <3>1, OutsideStep DEF transport_quit
    <3>2. CASE transport_get
      BY <3>2, OutsideStep DEF transport_get
    <3>3. CASE dt_transport_event(Transport)
      BY <3>3, TransportStep
    <3> QED
      BY <2>7, <3>1, <3>2, <3>3 DEF transport, event_transport_loop
  <2>8. CASE UNCHANGED allvars
    BY <2>8, Elsewhere DEF allvars, vars
  <2> QED
    BY <2>1, <2>2, <2>3, <2>4, <2>5, <2>6, <2>7, <2>8 DEF UsersNext
<1>3. LInv => LockHeld
  BY DEF LInv
<1> QED
  BY <1>1, <1>2, <1>3, PTL DEF Spec
=============================================================================
