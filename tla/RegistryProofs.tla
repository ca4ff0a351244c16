----------------------------- MODULE RegistryProofs -----------------------------
(***************************************************************************)
(* Theorems about Registry, for every set of resources, clients, aliases   *)
(* and histories, and for caches that lag behind as far as they like.      *)
(***************************************************************************)
EXTENDS Registry, SequenceTheorems, TLAPS

----------------------------------------------------------------------------
(* Names and writes. *)

LEMMA NothingType == Nothing \in Objects /\ Nothing.uid = 0 /\ Nothing.rv = 0
BY DEF Nothing, Objects

LEMMA NameType ==
  ASSUME NEW r \in Resources, NEW o, o.alias \in Names \cup {NoAlias}
  PROVE  ServiceName(r, o) \in Names
BY DEF ServiceName, Names, Keys

LEMMA CheckedType ==
  ASSUME NEW r \in Resources, NEW alias \in Writable(r)
  PROVE  /\ alias \in Names \cup {NoAlias}
         /\ Checked(r, alias) \subseteq Names
         /\ ServiceName(r, [alias |-> alias]) \in Checked(r, alias)
<1>1. alias \in Names \cup {NoAlias} /\ Full(r[2]) \in Names
  BY DEF Writable, V2Aliases, Names, ShortNames, Keys
<1>2. ServiceName(r, [alias |-> alias]) \in Names
  BY <1>1 DEF ServiceName
<1> QED BY <1>1, <1>2 DEF Checked

Event(r, o) == [key |-> r, obj |-> o, at |-> clock + 1]
EventRecords == [key: Resources, obj: Objects, at: Nat]

\* A write puts one event at the end of the log of its API.
LEMMA WriteLog ==
  ASSUME TypeOK, NEW r \in Resources, NEW o \in Objects, Write(r, o)
  PROVE  /\ clock \in Nat /\ clock' = clock + 1 /\ r[1] \in Apis
         /\ store' = [store EXCEPT ![r] = o]
         /\ events' \in [Apis -> Seq(EventRecords)]
         /\ events[r[1]] \in Seq(EventRecords)
         /\ Len(events'[r[1]]) = Len(events[r[1]]) + 1
         /\ \A i \in 1..Len(events[r[1]]) : events'[r[1]][i] = events[r[1]][i]
         /\ events'[r[1]][Len(events[r[1]]) + 1] = Event(r, o)
         /\ \A api \in Apis \ {r[1]} : events'[api] = events[api]
<1>1. r[1] \in Apis
  BY RegistryAssumption
<1>2. events \in [Apis -> Seq(EventRecords)] /\ clock \in Nat
  BY DEF TypeOK, EventRecords
<1>3. Event(r, o) \in EventRecords
  BY <1>2 DEF Event, EventRecords
<1>4. events' = [events EXCEPT ![r[1]] = Append(events[r[1]], Event(r, o))]
  BY <1>1, <1>2 DEF Write, Event
<1>5. /\ Append(events[r[1]], Event(r, o)) \in Seq(EventRecords)
      /\ Len(Append(events[r[1]], Event(r, o))) = Len(events[r[1]]) + 1
      /\ \A i \in 1..Len(events[r[1]]) : Append(events[r[1]], Event(r, o))[i] = events[r[1]][i]
      /\ Append(events[r[1]], Event(r, o))[Len(events[r[1]]) + 1] = Event(r, o)
  BY <1>1, <1>2, <1>3, AppendProperties
<1> QED BY <1>1, <1>2, <1>4, <1>5 DEF Write

----------------------------------------------------------------------------
(* Type correctness. *)

LEMMA WriteType ==
  ASSUME TypeOK, NEW r \in Resources, NEW o \in Objects, Write(r, o),
         o.rv <= clock + 1, o.uid <= o.rv
  PROVE  /\ clock' \in Nat /\ store' \in [Resources -> Objects]
         /\ events' \in [Apis -> Seq(EventRecords)]
         /\ \A s \in Resources : store'[s].rv <= clock' /\ store'[s].uid <= store'[s].rv
         /\ \A api \in Apis : \A i \in DOMAIN events'[api] :
              events'[api][i].key[1] = api /\ events'[api][i].at \in 1..clock'
<1>1. store' = [store EXCEPT ![r] = o] /\ clock' = clock + 1 /\ clock \in Nat
  BY WriteLog
<1>2. store' \in [Resources -> Objects]
  BY <1>1 DEF TypeOK
<1>3. \A s \in Resources : store'[s].rv <= clock' /\ store'[s].uid <= store'[s].rv
  <2> SUFFICES ASSUME NEW s \in Resources PROVE store'[s].rv <= clock' /\ store'[s].uid <= store'[s].rv
    OBVIOUS
  <2>1. CASE s = r
    BY <1>1, <2>1 DEF TypeOK
  <2>2. CASE s # r
    <3>1. store[s] \in Objects /\ store[s].rv <= clock /\ store[s].uid <= store[s].rv /\ store'[s] = store[s]
      BY <1>1, <2>2 DEF TypeOK
    <3>2. store[s].rv \in Nat
      BY <3>1 DEF Objects
    <3> QED BY <1>1, <3>1, <3>2
  <2> QED BY <2>1, <2>2
<1>4. \A api \in Apis : \A i \in DOMAIN events'[api] :
        events'[api][i].key[1] = api /\ events'[api][i].at \in 1..clock'
  <2> SUFFICES ASSUME NEW api \in Apis, NEW i \in DOMAIN events'[api]
               PROVE  events'[api][i].key[1] = api /\ events'[api][i].at \in 1..clock'
    OBVIOUS
  <2>1. events[api] \in Seq(EventRecords) /\ events'[api] \in Seq(EventRecords)
    BY WriteLog DEF TypeOK, EventRecords
  <2>2. /\ DOMAIN events[api] = 1..Len(events[api]) /\ Len(events[api]) \in Nat
        /\ i \in 1..Len(events'[api])
    BY <2>1, LenProperties
  <2>3. CASE api = r[1] /\ i = Len(events[api]) + 1
    <3>1. events'[api][i] = Event(r, o)
      BY <2>3, WriteLog
    <3> QED BY <1>1, <2>3, <3>1 DEF Event
  <2>4. CASE ~(api = r[1] /\ i = Len(events[api]) + 1)
    <3>1. i \in DOMAIN events[api] /\ events'[api][i] = events[api][i]
      BY <2>2, <2>4, WriteLog
    <3>2. events[api][i].key[1] = api /\ events[api][i].at \in 1..clock
      BY <3>1 DEF TypeOK
    <3> QED BY <1>1, <3>1, <3>2
  <2> QED BY <2>3, <2>4
<1>5. clock' \in Nat
  BY <1>1
<1> QED BY <1>2, <1>3, <1>4, <1>5, WriteLog

\* What stays: the parts of the state that no step of one kind touches.
LEMMA TypeOfRest ==
  ASSUME TypeOK, UNCHANGED <<server, events>>
  PROVE  /\ clock' \in Nat /\ store' \in [Resources -> Objects]
         /\ events' \in [Apis -> Seq(EventRecords)]
         /\ \A s \in Resources : store'[s].rv <= clock' /\ store'[s].uid <= store'[s].rv
         /\ \A api \in Apis : \A i \in DOMAIN events'[api] :
              events'[api][i].key[1] = api /\ events'[api][i].at \in 1..clock'
BY DEF TypeOK, server, EventRecords

\* The request of a client with one more list read or one name less to check.
RequestOK(q) == q \in Requests \cup {NoRequest} /\ (q # NoRequest => q.alias \in Writable(q.res))

LEMMA RequestType ==
  ASSUME TypeOK, NEW c \in Clients, NEW q, RequestOK(q), request' = [request EXCEPT ![c] = q]
  PROVE  /\ request' \in [Clients -> Requests \cup {NoRequest}]
         /\ \A d \in Clients : request'[d] # NoRequest => request'[d].alias \in Writable(request'[d].res)
BY DEF TypeOK, RequestOK

LEMMA InFlight ==
  ASSUME TypeOK, NEW c \in Clients, request[c].pc = "check"
  PROVE  /\ request[c] \in Requests /\ request[c] # NoRequest
         /\ request[c].alias \in Writable(request[c].res)
<1>1. request[c] # NoRequest
  BY DEF NoRequest
<1> QED BY <1>1 DEF TypeOK

LEMMA EntryType ==
  ASSUME TypeOK, NEW api, NEW n, NEW uid \in Entries(cache, api, n)
  PROVE  uid \in Nat
<1>1. \A r \in Resources : cache[r].uid \in Nat
  BY DEF TypeOK, Objects
<1> QED BY <1>1 DEF Entries, Users, Of

LEMMA SyncedType ==
  ASSUME TypeOK, NEW api \in Apis
  PROVE  Synced(api) \in Nat /\ Synced(api) <= clock
<1>1. clock \in Nat /\ events[api] \in Seq(EventRecords)
  BY DEF TypeOK, EventRecords
<1>2. CASE events[api] = <<>>
  BY <1>1, <1>2 DEF Synced
<1>3. CASE events[api] # <<>>
  <2>1. 1 \in DOMAIN events[api] /\ Head(events[api]) = events[api][1]
    BY <1>1, <1>3
  <2>2. Head(events[api]).at \in 1..clock
    BY <2>1 DEF TypeOK
  <2> QED BY <1>1, <1>3, <2>2 DEF Synced
<1> QED BY <1>2, <1>3

\* TypeOK in its parts.
ServerOK ==
  /\ clock \in Nat /\ store \in [Resources -> Objects]
  /\ events \in [Apis -> Seq(EventRecords)]
  /\ \A s \in Resources : store[s].rv <= clock /\ store[s].uid <= store[s].rv
  /\ \A api \in Apis : \A i \in DOMAIN events[api] :
       events[api][i].key[1] = api /\ events[api][i].at \in 1..clock
CountsOK == edits \in 0..MaxEdits /\ restarts \in 0..MaxRestarts
CacheOK == cache \in [Resources -> Objects]
RequestsOK ==
  /\ request \in [Clients -> Requests \cup {NoRequest}]
  /\ \A c \in Clients : request[c] # NoRequest => request[c].alias \in Writable(request[c].res)
QueueOK == queue \in [Apis -> SUBSET Resources] /\ \A api \in Apis : queue[api] \subseteq Of(api)
WorkerOK ==
  /\ worker \in [Apis -> [res: Resources, obj: Objects] \cup {Nothing}]
  /\ \A api \in Apis : worker[api] # Nothing => worker[api].res[1] = api
AdoptedOK == adopted \in [Resources -> [at: Nat, over: Nat, asOf: [Apis -> Nat]]]

AllOK == ServerOK /\ CountsOK /\ CacheOK /\ RequestsOK /\ QueueOK /\ WorkerOK /\ AdoptedOK

LEMMA TypeParts == (TypeOK <=> AllOK) /\ (TypeOK' <=> AllOK')
BY DEF AllOK, TypeOK, ServerOK, CountsOK, CacheOK, RequestsOK, QueueOK, WorkerOK, AdoptedOK, EventRecords

LEMMA Kept ==
  /\ ServerOK /\ UNCHANGED <<server, events>> => ServerOK'
  /\ CountsOK /\ UNCHANGED bounds => CountsOK'
  /\ CacheOK /\ UNCHANGED cache => CacheOK'
  /\ RequestsOK /\ UNCHANGED request => RequestsOK'
  /\ QueueOK /\ UNCHANGED queue => QueueOK'
  /\ WorkerOK /\ UNCHANGED worker => WorkerOK'
  /\ AdoptedOK /\ UNCHANGED adopted => AdoptedOK'
BY DEF ServerOK, CountsOK, CacheOK, RequestsOK, QueueOK, WorkerOK, AdoptedOK, server, bounds

LEMMA WriteOK ==
  ASSUME TypeOK, NEW r \in Resources, NEW o \in Objects, Write(r, o),
         o.rv <= clock + 1, o.uid <= o.rv
  PROVE  ServerOK'
BY WriteType DEF ServerOK

LEMMA RequestsKept ==
  ASSUME TypeOK, NEW c \in Clients, NEW q, RequestOK(q), request' = [request EXCEPT ![c] = q]
  PROVE  RequestsOK'
BY RequestType DEF RequestsOK

LEMMA NoRequestOK == RequestOK(NoRequest)
BY DEF RequestOK

LEMMA SubmitType ==
  ASSUME TypeOK, NEW c \in Clients, NEW r \in Resources, NEW alias, Submit(c, r, alias)
  PROVE  TypeOK'
<1> DEFINE q == [pc |-> "check", res |-> r, alias |-> alias, old |-> store[r],
                 left |-> Checked(r, alias), hits |-> <<>>, asOf |-> [api \in Apis |-> 0]]
<1>1. alias \in Writable(r) /\ request' = [request EXCEPT ![c] = q]
  BY DEF Submit
<1>2. q \in Requests
  <2>1. /\ alias \in Names \cup {NoAlias} /\ Checked(r, alias) \subseteq Names
        /\ store[r] \in Objects
    BY <1>1, CheckedType DEF TypeOK
  <2>2. <<>> \in Seq([name: Names, uid: Nat]) /\ [api \in Apis |-> 0] \in [Apis -> Nat]
    OBVIOUS
  <2> QED BY <2>1, <2>2 DEF Requests
<1>3. RequestOK(q)
  BY <1>1, <1>2 DEF RequestOK
<1> HIDE DEF q
<1>4. RequestsOK'
  BY <1>1, <1>3, RequestsKept
<1>5. CountsOK'
  BY RegistryAssumption DEF Submit, TypeOK, CountsOK
<1> QED BY <1>4, <1>5, TypeParts, Kept DEF AllOK, Submit, informers, reconcilers

LEMMA DeleteType == ASSUME TypeOK, NEW r \in Resources, Delete(r) PROVE TypeOK'
<1>1. ServerOK'
  <2>1. Write(r, Nothing) /\ clock \in Nat
    BY DEF Delete, TypeOK
  <2>2. Nothing.rv <= clock + 1 /\ Nothing.uid <= Nothing.rv
    BY <2>1, NothingType
  <2> QED BY <2>1, <2>2, NothingType, WriteOK
<1>2. CountsOK'
  BY RegistryAssumption DEF Delete, TypeOK, CountsOK
<1> QED BY <1>1, <1>2, TypeParts, Kept DEF AllOK, Delete, reconcilers

LEMMA PersistType == ASSUME TypeOK, NEW c \in Clients, Persist(c) PROVE TypeOK'
<1> DEFINE q == request[c]
           r == q.res
           o == [uid |-> IF Exists(q.old) THEN q.old.uid ELSE clock + 1, rv |-> clock + 1,
                 alias |-> q.alias, status |-> q.old.status]
<1>1. q \in Requests /\ q.alias \in Writable(r) /\ clock \in Nat
  BY InFlight DEF Persist, TypeOK
<1>2. r \in Resources /\ q.old \in Objects /\ q.alias \in Names \cup {NoAlias} /\ q.asOf \in [Apis -> Nat]
  BY <1>1 DEF Requests
<1>3. o \in Objects
  BY <1>1, <1>2 DEF Objects
<1>4. request' = [request EXCEPT ![c] = NoRequest] /\ UNCHANGED <<bounds, cache, reconcilers>>
  BY DEF Persist
<1>5. RequestsOK'
  BY <1>4, NoRequestOK, RequestsKept
<1>6. CASE store[r] = q.old
  <2>1. Write(r, o)
    BY <1>6 DEF Persist
  <2>2. o.rv = clock + 1 /\ o.uid <= o.rv
    <3>1. q.old.uid \in Nat /\ q.old.rv \in Nat /\ q.old.uid <= q.old.rv /\ q.old.rv <= clock
      BY <1>2, <1>6 DEF TypeOK, Objects
    <3> QED BY <1>1, <3>1
  <2>3. ServerOK'
    BY <1>1, <1>2, <1>3, <2>1, <2>2, WriteOK
  <2>4. AdoptedOK'
    <3>1. \/ UNCHANGED adopted
          \/ adopted' = [adopted EXCEPT ![r] = [at |-> clock + 1, asOf |-> q.asOf, over |-> q.old.rv]]
      BY <1>6 DEF Persist
    <3>2. [at |-> clock + 1, asOf |-> q.asOf, over |-> q.old.rv] \in [at: Nat, over: Nat, asOf: [Apis -> Nat]]
      BY <1>1, <1>2 DEF Objects
    <3>3. adopted \in [Resources -> [at: Nat, over: Nat, asOf: [Apis -> Nat]]]
      BY DEF TypeOK
    <3> QED BY <3>1, <3>2, <3>3 DEF AdoptedOK
  <2> QED BY <1>4, <1>5, <2>3, <2>4, TypeParts, Kept DEF AllOK, reconcilers
<1>7. CASE store[r] # q.old
  <2>1. UNCHANGED <<server, events, adopted>>
    BY <1>7 DEF Persist
  <2> QED BY <1>4, <1>5, <2>1, TypeParts, Kept DEF AllOK, reconcilers
<1> QED BY <1>6, <1>7

LEMMA WebhookType == ASSUME TypeOK, NEW c \in Clients, NEW n \in Names,
                            ListLegacy(c, n) \/ CheckLegacy(c, n) \/ CheckNew(c, n)
                     PROVE  TypeOK'
<1> DEFINE q == request[c]
<1>1. q \in Requests /\ q.alias \in Writable(q.res)
  BY InFlight DEF ListLegacy, CheckLegacy, CheckNew
<1>2. UNCHANGED <<server, bounds, informers, reconcilers, adopted>>
  BY DEF ListLegacy, CheckLegacy, CheckNew
<1>3. "legacy" \in Apis /\ "new" \in Apis
  BY DEF Apis
<1>4. CASE ListLegacy(c, n)
  <2>1. PICK uid \in Entries(cache, "legacy", n) :
          request' = [request EXCEPT ![c].hits = Append(@, [name |-> n, uid |-> uid]),
                        ![c].asOf["legacy"] =
                          IF n = ServiceName(q.res, q) THEN Synced("legacy") ELSE @]
    BY <1>4 DEF ListLegacy
  <2> DEFINE p == [q EXCEPT !.hits = Append(q.hits, [name |-> n, uid |-> uid]),
                            !.asOf["legacy"] = IF n = ServiceName(q.res, q) THEN Synced("legacy")
                                               ELSE q.asOf["legacy"]]
  <2>2. request' = [request EXCEPT ![c] = p]
    <3>1. request \in [Clients -> Requests \cup {NoRequest}]
      BY DEF TypeOK
    <3> QED BY <2>1, <3>1
  <2>3. Append(q.hits, [name |-> n, uid |-> uid]) \in Seq([name: Names, uid: Nat])
    BY <1>1, EntryType, AppendProperties DEF Requests
  <2>4. Synced("legacy") \in Nat
    BY <1>3, SyncedType
  <2>5. p \in Requests /\ p.alias = q.alias /\ p.res = q.res
    BY <1>1, <1>3, <2>3, <2>4 DEF Requests
  <2>6. RequestOK(p)
    BY <1>1, <2>5 DEF RequestOK
  <2> HIDE DEF p
  <2> QED BY <1>2, <2>2, <2>6, RequestsKept, TypeParts, Kept DEF AllOK, informers, reconcilers
<1>5. CASE CheckLegacy(c, n) \/ CheckNew(c, n)
  <2>1. PICK taken \in BOOLEAN : Verdict(c, n, taken)
    BY <1>5 DEF CheckLegacy, CheckNew, Taken
  <2> DEFINE p == [q EXCEPT !.left = q.left \ {n},
                            !.asOf["new"] = IF n = ServiceName(q.res, q) THEN Synced("new")
                                            ELSE q.asOf["new"]]
  <2>2. request' = [request EXCEPT ![c] = NoRequest] \/ request' = [request EXCEPT ![c] = p]
    <3>1. request \in [Clients -> Requests \cup {NoRequest}]
      BY DEF TypeOK
    <3> QED BY <2>1, <3>1 DEF Verdict
  <2>3. Synced("new") \in Nat
    BY <1>3, SyncedType
  <2>4. p \in Requests /\ p.alias = q.alias /\ p.res = q.res
    BY <1>1, <1>3, <2>3 DEF Requests
  <2>5. RequestOK(p)
    BY <1>1, <2>4 DEF RequestOK
  <2> HIDE DEF p
  <2> QED BY <1>2, <2>2, <2>5, NoRequestOK, RequestsKept, TypeParts, Kept DEF AllOK, informers, reconcilers
<1> QED BY <1>4, <1>5

\* The event an informer hands on, and the log that is left.
LEMMA LogTail ==
  ASSUME TypeOK, NEW api \in Apis, events[api] # <<>>
  PROVE  /\ events[api] \in Seq(EventRecords) /\ Len(events[api]) \in Nat \ {0}
         /\ Head(events[api]) = events[api][1] /\ events[api][1] \in EventRecords
         /\ events[api][1].key[1] = api /\ events[api][1].at \in 1..clock
         /\ Tail(events[api]) \in Seq(EventRecords)
         /\ Len(Tail(events[api])) = Len(events[api]) - 1
         /\ \A i \in 1..Len(Tail(events[api])) : Tail(events[api])[i] = events[api][i + 1]
<1>1. events[api] \in Seq(EventRecords)
  BY DEF TypeOK, EventRecords
<1>2. Len(events[api]) \in Nat \ {0} /\ Head(events[api]) = events[api][1]
  BY <1>1
<1>3. 1 \in DOMAIN events[api] /\ events[api][1] \in EventRecords
  BY <1>1, <1>2
<1>4. events[api][1].key[1] = api /\ events[api][1].at \in 1..clock
  BY <1>3 DEF TypeOK
<1> QED BY <1>1, <1>2, <1>3, <1>4, HeadTailProperties

LEMMA DeliverType == ASSUME TypeOK, NEW api \in Apis, Deliver(api) PROVE TypeOK'
<1> DEFINE e == Head(events[api])
<1>1. /\ e \in EventRecords /\ e.key[1] = api
      /\ cache' = [cache EXCEPT ![e.key] = e.obj]
      /\ queue' = [queue EXCEPT ![api] = @ \cup {e.key}]
      /\ events' = [events EXCEPT ![api] = Tail(@)]
      /\ UNCHANGED <<server, bounds, request, worker, adopted>>
  BY LogTail DEF Deliver
<1>2. e.key \in Resources /\ e.obj \in Objects /\ e.key \in Of(api)
  BY <1>1 DEF EventRecords, Of
<1> HIDE DEF e
<1>3. CacheOK'
  BY <1>1, <1>2 DEF CacheOK, TypeOK
<1>4. QueueOK'
  BY <1>1, <1>2 DEF QueueOK, TypeOK
<1>5. ServerOK'
  <2>1. events[api] # <<>> /\ events \in [Apis -> Seq(EventRecords)]
    BY DEF Deliver, TypeOK, EventRecords
  <2>2. events'[api] = Tail(events[api]) /\ \A b \in Apis \ {api} : events'[b] = events[b]
    BY <1>1, <2>1
  <2>3. events' \in [Apis -> Seq(EventRecords)]
    BY <1>1, <2>1, LogTail
  <2>4. ASSUME NEW i \in DOMAIN events'[api]
        PROVE  events'[api][i].key[1] = api /\ events'[api][i].at \in 1..clock
    <3>1. i \in 1..Len(Tail(events[api]))
      BY <2>1, <2>2, <2>3, <2>4, LogTail, LenProperties
    <3>2. events'[api][i] = events[api][i + 1] /\ i + 1 \in DOMAIN events[api]
      BY <2>1, <2>2, <3>1, LogTail, LenProperties
    <3> QED BY <3>2 DEF TypeOK
  <2>5. \A b \in Apis : \A i \in DOMAIN events'[b] :
          events'[b][i].key[1] = b /\ events'[b][i].at \in 1..clock
    <3> SUFFICES ASSUME NEW b \in Apis, NEW i \in DOMAIN events'[b]
                 PROVE  events'[b][i].key[1] = b /\ events'[b][i].at \in 1..clock
      OBVIOUS
    <3>1. CASE b = api
      BY <2>4, <3>1
    <3>2. CASE b # api
      BY <2>2, <3>2 DEF TypeOK
    <3> QED BY <3>1, <3>2
  <2>6. /\ clock' = clock /\ store' = store /\ clock \in Nat /\ store \in [Resources -> Objects]
        /\ \A s \in Resources : store[s].rv <= clock /\ store[s].uid <= store[s].rv
    BY <1>1 DEF server, TypeOK
  <2> QED BY <2>3, <2>5, <2>6 DEF ServerOK
<1> QED BY <1>1, <1>3, <1>4, <1>5, TypeParts, Kept DEF AllOK

LEMMA ReconcileType == ASSUME TypeOK, NEW r \in Resources, Reconcile(r) PROVE TypeOK'
<1>1. r[1] \in Apis /\ cache[r] \in Objects
  BY RegistryAssumption DEF TypeOK
<1>2. /\ queue' = [queue EXCEPT ![r[1]] = @ \ {r}]
      /\ \/ worker' = [worker EXCEPT ![r[1]] = [res |-> r, obj |-> cache[r]]]
         \/ worker' = [worker EXCEPT ![r[1]] = Nothing]
  BY DEF Reconcile
<1>3. QueueOK'
  BY <1>1, <1>2 DEF QueueOK, TypeOK
<1>4. WorkerOK'
  <2>1. WorkerOK
    BY TypeParts DEF AllOK
  <2>2. PICK w : worker' = [worker EXCEPT ![r[1]] = w] /\ w \in {[res |-> r, obj |-> cache[r]], Nothing}
    BY <1>2
  <2>3. /\ w \in [res: Resources, obj: Objects] \cup {Nothing}
        /\ w # Nothing => w.res[1] = r[1]
    BY <1>1, <2>2
  <2> QED BY <1>1, <2>1, <2>2, <2>3 DEF WorkerOK
<1> QED BY <1>3, <1>4, TypeParts, Kept DEF AllOK, Reconcile, informers

\* The status of an object that is read is written back into the same object.
LEMMA StatusWrite ==
  ASSUME TypeOK, NEW r \in Resources, NEW o \in Objects
  PROVE  LET p == [store[r] EXCEPT !.status = ServiceName(r, o), !.rv = clock + 1]
         IN /\ p \in Objects /\ p.rv = clock + 1 /\ p.uid = store[r].uid /\ p.uid <= p.rv
            /\ p.alias = store[r].alias /\ p.status = ServiceName(r, o)
<1>1. store[r] \in Objects /\ clock \in Nat /\ store[r].rv <= clock /\ store[r].uid <= store[r].rv
  BY DEF TypeOK
<1>2. ServiceName(r, o) \in Names
  BY NameType DEF Objects
<1> DEFINE p == [store[r] EXCEPT !.status = ServiceName(r, o), !.rv = clock + 1]
<1>3. /\ p.rv = clock + 1 /\ p.uid = store[r].uid
      /\ p.alias = store[r].alias /\ p.status = ServiceName(r, o)
  BY <1>1 DEF Objects
<1>4. p \in Objects
  <2>1. clock + 1 \in Nat /\ ServiceName(r, o) \in Names \cup {NoAlias}
    BY <1>1, <1>2
  <2>2. \A q \in Objects, v \in Nat, n \in Names \cup {NoAlias} :
          [q EXCEPT !.status = n, !.rv = v] \in Objects
    BY DEF Objects
  <2> QED BY <1>1, <2>1, <2>2
<1>5. store[r].uid \in Nat /\ store[r].rv \in Nat
  BY <1>1 DEF Objects
<1>6. p.uid <= p.rv
  BY <1>1, <1>3, <1>5
<1> QED BY <1>3, <1>4, <1>6

LEMMA UpdateStatusType == ASSUME TypeOK, NEW api \in Apis, UpdateStatus(api) PROVE TypeOK'
<1> DEFINE r == worker[api].res
           o == worker[api].obj
           p == [store[r] EXCEPT !.status = ServiceName(r, o), !.rv = clock + 1]
<1>1. r \in Resources /\ o \in Objects /\ r[1] = api
  BY DEF UpdateStatus, TypeOK
<1>2. \/ Write(r, p) /\ UNCHANGED queue
      \/ queue' = [queue EXCEPT ![api] = @ \cup {r}] /\ UNCHANGED <<server, events>>
  BY DEF UpdateStatus
<1>3. worker' = [worker EXCEPT ![api] = Nothing] /\ UNCHANGED <<bounds, cache, request, adopted>>
  BY DEF UpdateStatus
<1>4. p \in Objects /\ p.rv = clock + 1 /\ p.uid <= p.rv /\ clock \in Nat
  <2>1. clock \in Nat
    BY DEF TypeOK
  <2> QED BY <1>1, <2>1, StatusWrite
<1> HIDE DEF p
<1>5. ServerOK'
  BY <1>1, <1>2, <1>4, WriteOK, TypeParts, Kept DEF AllOK
<1>6. QueueOK'
  <2>1. QueueOK /\ r \in Of(api)
    BY <1>1, TypeParts DEF AllOK, Of
  <2>2. UNCHANGED queue \/ queue' = [queue EXCEPT ![api] = queue[api] \cup {r}]
    BY <1>2
  <2> HIDE DEF r
  <2> QED BY <1>1, <2>1, <2>2 DEF QueueOK
<1>7. WorkerOK'
  BY <1>3 DEF WorkerOK, TypeOK
<1> QED BY <1>3, <1>5, <1>6, <1>7, TypeParts, Kept DEF AllOK

LEMMA RestartType == ASSUME TypeOK, Restart PROVE TypeOK'
<1>1. ServerOK' /\ CacheOK' /\ CountsOK'
  BY RegistryAssumption DEF Restart, ServerOK, CacheOK, CountsOK, TypeOK, server
<1>2. QueueOK' /\ WorkerOK'
  BY DEF Restart, QueueOK, WorkerOK, Of
<1>3. RequestsOK'
  <2>1. \A c \in Clients : request'[c] \in {request[c], NoRequest}
    BY DEF Restart
  <2>2. request' = [c \in Clients |-> request'[c]]
    BY DEF Restart
  <2> QED BY <2>1, <2>2 DEF RequestsOK, TypeOK
<1> QED BY <1>1, <1>2, <1>3, TypeParts, Kept DEF AllOK, Restart

LEMMA TypeStep == TypeOK /\ [Next]_vars => TypeOK'
<1> SUFFICES ASSUME TypeOK, [Next]_vars PROVE TypeOK'
  OBVIOUS
<1>1. CASE UNCHANGED vars
  BY <1>1, TypeParts, Kept DEF AllOK, vars, informers, reconcilers
<1>2. ASSUME NEW c \in Clients, Client(c) PROVE TypeOK'
  BY <1>2, SubmitType, PersistType DEF Client
<1>3. ASSUME NEW c \in Clients, Webhook(c) PROVE TypeOK'
  BY <1>3, WebhookType DEF Webhook
<1>4. ASSUME NEW api \in Apis, Controller(api) PROVE TypeOK'
  BY <1>4, DeliverType, ReconcileType, UpdateStatusType DEF Controller, Of
<1> QED BY <1>1, <1>2, <1>3, <1>4, DeleteType, RestartType DEF Next

\* The place of a resource in a history.
LEMMA AtType ==
  ASSUME NEW h \in Histories, NEW r \in Resources
  PROVE  /\ Len(h) \in Nat /\ DOMAIN h = 1..Len(h) /\ At(h, r) \in 0..Len(h)
         /\ At(h, r) # 0 => /\ At(h, r) \in 1..Len(h) /\ h[At(h, r)].res = r
                            /\ h[At(h, r)].alias \in Names \cup {NoAlias}
                            /\ h[At(h, r)].seen \in 0..Len(h)
<1>1. h \in Seq([res: Resources, alias: Aliases \cup {NoAlias}, seen: Nat])
      /\ \A i \in DOMAIN h : h[i].seen <= Len(h)
  BY RegistryAssumption
<1>2. Len(h) \in Nat /\ DOMAIN h = 1..Len(h)
  BY <1>1
<1> DEFINE made == {i \in DOMAIN h : h[i].res = r}
<1>3. CASE made = {}
  BY <1>2, <1>3 DEF At
<1>4. CASE made # {}
  <2>1. At(h, r) \in made
    BY <1>4 DEF At
  <2>2. h[At(h, r)] \in [res: Resources, alias: Aliases \cup {NoAlias}, seen: Nat]
    BY <1>1, <1>2, <2>1, ElementOfSeq
  <2> QED BY <1>1, <1>2, <2>1, <2>2 DEF Names
<1> QED BY <1>3, <1>4

LEMMA TypeInit == Init => TypeOK
<1> SUFFICES ASSUME Init PROVE TypeOK
  OBVIOUS
<1>1. PICK h \in Histories :
        /\ store = Settled(h) /\ clock = Len(h)
        /\ adopted = [r \in Resources |->
             [at |-> At(h, r), over |-> 0,
              asOf |-> [api \in Apis |-> IF At(h, r) = 0 THEN 0 ELSE h[At(h, r)].seen]]]
  BY DEF Init
<1>2. \A r \in Resources : store[r] \in Objects /\ store[r].rv <= clock /\ store[r].uid <= store[r].rv
  <2> SUFFICES ASSUME NEW r \in Resources
               PROVE  store[r] \in Objects /\ store[r].rv <= clock /\ store[r].uid <= store[r].rv
    OBVIOUS
  <2>1. Len(h) \in Nat
    BY AtType
  <2>2. CASE At(h, r) = 0
    BY <1>1, <2>1, <2>2, NothingType DEF Settled
  <2>3. CASE At(h, r) # 0
    <3>1. ServiceName(r, h[At(h, r)]) \in Names
      BY <2>3, AtType, NameType
    <3> QED BY <1>1, <2>3, <3>1, AtType DEF Settled, Objects
  <2> QED BY <2>2, <2>3
<1>3. ServerOK
  <2>1. store \in [Resources -> Objects]
    BY <1>1, <1>2 DEF Settled
  <2>2. clock \in Nat
    BY <1>1, RegistryAssumption
  <2>3. \A api \in Apis : events[api] = <<>>
    BY DEF Init
  <2>4. events \in [Apis -> Seq(EventRecords)]
    BY DEF Init
  <2> QED BY <1>2, <2>1, <2>2, <2>3, <2>4 DEF ServerOK
<1>4. AdoptedOK
  <2> SUFFICES ASSUME NEW r \in Resources
               PROVE  [at |-> At(h, r), over |-> 0,
                       asOf |-> [api \in Apis |-> IF At(h, r) = 0 THEN 0 ELSE h[At(h, r)].seen]]
                        \in [at: Nat, over: Nat, asOf: [Apis -> Nat]]
    BY <1>1 DEF AdoptedOK
  <2> QED BY AtType
<1>5. CacheOK
  BY <1>3 DEF Init, CacheOK, ServerOK
<1>6. CountsOK /\ RequestsOK /\ QueueOK /\ WorkerOK
  BY RegistryAssumption DEF Init, CountsOK, RequestsOK, QueueOK, WorkerOK
<1> QED BY <1>3, <1>4, <1>5, <1>6, TypeParts DEF AllOK

\* Every variable keeps its type: what is stored, cached, queued and asked for is always
\* a resource, an object or a name, and no version is ahead of the clock.
THEOREM TypeCorrect == Spec => []TypeOK
BY TypeInit, TypeStep, PTL DEF Spec

----------------------------------------------------------------------------
(* The log of an API as a set of events. *)

Pending(api) == {events[api][i] : i \in 1..Len(events[api])}

LEMMA PendingType ==
  ASSUME TypeOK, NEW api \in Apis, NEW e \in Pending(api)
  PROVE  e \in EventRecords /\ e.key \in Resources /\ e.key[1] = api /\ e.at \in 1..clock
<1>1. events[api] \in Seq(EventRecords)
  BY DEF TypeOK, EventRecords
<1>2. PICK i \in DOMAIN events[api] : e = events[api][i]
  BY <1>1, LenProperties DEF Pending
<1>3. e \in EventRecords
  BY <1>1, <1>2, LenProperties
<1> QED BY <1>2, <1>3 DEF TypeOK, EventRecords

LEMMA PendingWrite ==
  ASSUME TypeOK, NEW r \in Resources, NEW o \in Objects, Write(r, o)
  PROVE  /\ Pending(r[1])' = Pending(r[1]) \cup {Event(r, o)}
         /\ \A api \in Apis \ {r[1]} : Pending(api)' = Pending(api)
<1>1. /\ Len(events[r[1]]) \in Nat
      /\ Len(events'[r[1]]) = Len(events[r[1]]) + 1
      /\ \A i \in 1..Len(events[r[1]]) : events'[r[1]][i] = events[r[1]][i]
      /\ events'[r[1]][Len(events[r[1]]) + 1] = Event(r, o)
      /\ \A api \in Apis \ {r[1]} : events'[api] = events[api]
  BY WriteLog, LenProperties
<1>2. 1..Len(events'[r[1]]) = 1..Len(events[r[1]]) \cup {Len(events[r[1]]) + 1}
  BY <1>1
<1> QED BY <1>1, <1>2 DEF Pending

LEMMA PendingDeliver ==
  ASSUME TypeOK, NEW api \in Apis, Deliver(api)
  PROVE  /\ Head(events[api]) \in Pending(api)
         /\ Pending(api) = Pending(api)' \cup {Head(events[api])}
         /\ \A b \in Apis \ {api} : Pending(b)' = Pending(b)
<1>1. /\ events[api] # <<>> /\ events' = [events EXCEPT ![api] = Tail(@)]
      /\ events \in [Apis -> Seq(EventRecords)]
  BY DEF Deliver, TypeOK, EventRecords
<1>2. events'[api] = Tail(events[api]) /\ \A b \in Apis \ {api} : events'[b] = events[b]
  BY <1>1
<1> DEFINE n == Len(events[api])
<1>3. /\ n \in Nat \ {0} /\ Len(events'[api]) = n - 1 /\ Head(events[api]) = events[api][1]
      /\ \A i \in 1..(n - 1) : events'[api][i] = events[api][i + 1]
  BY <1>1, <1>2, LogTail
<1> HIDE DEF n
<1>4. ASSUME NEW e \in Pending(api), e # events[api][1] PROVE e \in Pending(api)'
  <2>1. PICK i \in 1..n : e = events[api][i]
    BY DEF Pending, n
  <2>2. i - 1 \in 1..(n - 1) /\ (i - 1) + 1 = i
    BY <1>3, <1>4, <2>1
  <2>3. e = events'[api][i - 1]
    BY <1>3, <2>1, <2>2
  <2> QED BY <1>3, <2>2, <2>3 DEF Pending
<1>5. ASSUME NEW e \in Pending(api)' PROVE e \in Pending(api)
  <2>1. PICK i \in 1..(n - 1) : e = events'[api][i]
    BY <1>3 DEF Pending
  <2>2. i + 1 \in 1..n /\ e = events[api][i + 1]
    BY <1>3, <2>1
  <2> QED BY <2>2 DEF Pending, n
<1>6. 1 \in 1..n
  BY <1>3
<1>7. events[api][1] \in Pending(api)
  BY <1>6 DEF Pending, n
<1> QED BY <1>2, <1>3, <1>4, <1>5, <1>7 DEF Pending

----------------------------------------------------------------------------
(* The objects of a resource that are kept anywhere: in the server, in a    *)
(* cache, on the way there, in a reconciler or in an admission.  None of    *)
(* them is made up, so what holds of an object when it is stored holds of   *)
(* all its copies.                                                          *)

View(r, o) ==
  \/ o = store[r] \/ o = cache[r]
  \/ \E e \in Pending(r[1]) : e.key = r /\ e.obj = o
  \/ worker[r[1]] # Nothing /\ worker[r[1]].res = r /\ worker[r[1]].obj = o
  \/ \E c \in Clients : request[c] # NoRequest /\ request[c].res = r /\ request[c].old = o

\* The three writes: a resource is deleted, shows a status, is admitted with a name.
Erases(r) == Write(r, Nothing) /\ Exists(store[r]) /\ UNCHANGED <<cache, worker, request, adopted>>

Shows(r, o) ==
  /\ Write(r, o) /\ Exists(store[r]) /\ o \in Objects
  /\ o.uid = store[r].uid /\ o.rv = clock + 1 /\ o.alias = store[r].alias
  /\ o.status = ServiceName(r, worker[r[1]].obj)
  /\ worker[r[1]] # Nothing /\ worker[r[1]].res = r /\ Current(r, worker[r[1]].obj)
  /\ worker' = [worker EXCEPT ![r[1]] = Nothing]
  /\ UNCHANGED <<cache, request, adopted>>

Renamed(q, o) == ~ Exists(q.old) \/ ServiceName(q.res, o) # ServiceName(q.res, q.old)

Admits(c, o) ==
  LET q == request[c] IN
  /\ q \in Requests /\ q # NoRequest /\ q.left = {} /\ store[q.res] = q.old
  /\ Write(q.res, o) /\ o \in Objects
  /\ o.rv = clock + 1 /\ o.alias = q.alias /\ o.status = q.old.status
  /\ o.uid = IF Exists(q.old) THEN q.old.uid ELSE clock + 1
  /\ adopted' = IF Renamed(q, o)
                THEN [adopted EXCEPT ![q.res] = [at |-> clock + 1, asOf |-> q.asOf, over |-> q.old.rv]]
                ELSE adopted
  /\ request' = [request EXCEPT ![c] = NoRequest]
  /\ UNCHANGED <<cache, worker>>

LEMMA PersistWrites ==
  ASSUME TypeOK, NEW c \in Clients, Persist(c)
  PROVE  UNCHANGED <<server, events, adopted>> \/ \E o : Admits(c, o)
<1> DEFINE q == request[c]
           o == [uid |-> IF Exists(q.old) THEN q.old.uid ELSE clock + 1, rv |-> clock + 1,
                 alias |-> q.alias, status |-> q.old.status]
<1>1. q \in Requests /\ q # NoRequest /\ clock \in Nat
  BY InFlight DEF Persist, TypeOK
<1>2. CASE store[q.res] = q.old
  <2>1. o \in Objects
    <3>1. q.old \in Objects /\ q.alias \in Names \cup {NoAlias}
      BY <1>1 DEF Requests
    <3> QED BY <1>1, <3>1 DEF Objects
  <2>2. /\ Write(q.res, o) /\ q.left = {} /\ request' = [request EXCEPT ![c] = NoRequest]
        /\ UNCHANGED <<cache, worker>>
    BY <1>2 DEF Persist, reconcilers
  <2>3. adopted' = IF Renamed(q, o)
                   THEN [adopted EXCEPT ![q.res] = [at |-> clock + 1, asOf |-> q.asOf, over |-> q.old.rv]]
                   ELSE adopted
    BY <1>2 DEF Persist, Renamed
  <2>4. /\ o.rv = clock + 1 /\ o.alias = q.alias /\ o.status = q.old.status
        /\ o.uid = IF Exists(q.old) THEN q.old.uid ELSE clock + 1
    OBVIOUS
  <2> HIDE DEF o
  <2>5. Admits(c, o)
    BY <1>1, <1>2, <2>1, <2>2, <2>3, <2>4 DEF Admits
  <2> QED BY <2>5
<1>3. CASE store[q.res] # q.old
  BY <1>3 DEF Persist
<1> QED BY <1>2, <1>3

\* A reconciler holds an object only to give it a status.
WorkerLive == \A api \in Apis : worker[api] # Nothing => Exists(worker[api].obj)

LEMMA StatusWrites ==
  ASSUME TypeOK, WorkerLive, NEW api \in Apis, UpdateStatus(api)
  PROVE  UNCHANGED <<server, events, adopted>> \/ \E r \in Of(api) : \E o : Shows(r, o)
<1> DEFINE r == worker[api].res
           o == [store[r] EXCEPT !.status = ServiceName(r, worker[api].obj), !.rv = clock + 1]
<1>1. r \in Resources /\ r[1] = api /\ worker[api].obj \in Objects
  BY DEF UpdateStatus, TypeOK
<1>2. /\ o \in Objects /\ o.uid = store[r].uid /\ o.rv = clock + 1 /\ o.alias = store[r].alias
      /\ o.status = ServiceName(r, worker[api].obj)
  BY <1>1, StatusWrite
<1>3. CASE Current(r, worker[api].obj)
  <2>1. /\ Write(r, o) /\ worker[api] # Nothing /\ worker' = [worker EXCEPT ![api] = Nothing]
        /\ UNCHANGED <<cache, request, adopted>>
    BY <1>3 DEF UpdateStatus
  <2>2. Exists(store[r])
    BY <1>3, <2>1 DEF WorkerLive, Current, Exists
  <2> HIDE DEF o
  <2>3. Shows(r, o)
    BY <1>1, <1>2, <1>3, <2>1, <2>2 DEF Shows
  <2>4. r \in Of(api)
    BY <1>1 DEF Of
  <2> HIDE DEF r
  <2> QED BY <2>3, <2>4
<1>4. CASE ~Current(r, worker[api].obj)
  BY <1>4 DEF UpdateStatus
<1> QED BY <1>3, <1>4

LEMMA StepWrites ==
  ASSUME TypeOK, WorkerLive, [Next]_vars
  PROVE  \/ UNCHANGED <<server, adopted>>
         \/ \E r \in Resources : Erases(r)
         \/ \E r \in Resources : \E o : Shows(r, o)
         \/ \E c \in Clients : \E o : Admits(c, o)
<1>1. ASSUME NEW c \in Clients, Client(c)
      PROVE  UNCHANGED <<server, adopted>> \/ \E o : Admits(c, o)
  BY <1>1, PersistWrites DEF Client, Submit
<1>2. ASSUME NEW c \in Clients, Webhook(c) PROVE UNCHANGED <<server, adopted>>
  BY <1>2 DEF Webhook, ListLegacy, CheckLegacy, CheckNew
<1>3. ASSUME NEW r \in Resources, Delete(r) PROVE Erases(r)
  BY <1>3 DEF Delete, Erases, reconcilers
<1>4. ASSUME NEW api \in Apis, Controller(api)
      PROVE  UNCHANGED <<server, adopted>> \/ \E r \in Resources : \E o : Shows(r, o)
  BY <1>4, StatusWrites DEF Controller, Deliver, Reconcile, Of
<1>5. ASSUME Restart \/ UNCHANGED vars PROVE UNCHANGED <<server, adopted>>
  BY <1>5 DEF Restart, vars
<1> QED BY <1>1, <1>2, <1>3, <1>4, <1>5 DEF Next

\* A write leaves no copies behind but those of what it wrote.
LEMMA ViewWrite ==
  ASSUME TypeOK, NEW t \in Resources, NEW p \in Objects, Write(t, p), UNCHANGED cache,
         \A api \in Apis : worker'[api] # Nothing => worker'[api] = worker[api],
         \A c \in Clients : request'[c] # NoRequest => request'[c] = request[c],
         NEW r \in Resources, NEW o, View(r, o)'
  PROVE  View(r, o) \/ o = store'[r]
<1>1. r[1] \in Apis /\ store' = [store EXCEPT ![t] = p]
  BY RegistryAssumption, WriteLog
<1>2. \A e \in Pending(r[1])' : e \in Pending(r[1]) \/ (e = Event(t, p) /\ r[1] = t[1])
  BY <1>1, PendingWrite
<1>3. store'[t] = p
  BY <1>1 DEF TypeOK
<1>4. ASSUME NEW e \in Pending(r[1])', e.key = r, e.obj = o PROVE View(r, o) \/ o = store'[r]
  <2>1. CASE e = Event(t, p)
    BY <1>3, <1>4, <2>1 DEF Event
  <2>2. CASE e # Event(t, p)
    BY <1>2, <1>4, <2>2 DEF View
  <2> QED BY <2>1, <2>2
<1>5. ASSUME worker'[r[1]] # Nothing, worker'[r[1]].res = r, worker'[r[1]].obj = o PROVE View(r, o)
  BY <1>1, <1>5 DEF View
<1>6. ASSUME NEW c \in Clients, request'[c] # NoRequest, request'[c].res = r, request'[c].old = o
      PROVE  View(r, o)
  BY <1>6 DEF View
<1>7. cache'[r] = o => View(r, o)
  BY DEF View
<1> QED BY <1>4, <1>5, <1>6, <1>7 DEF View

LEMMA ViewStep ==
  ASSUME TypeOK, WorkerLive, [Next]_vars, NEW r \in Resources, NEW o, View(r, o)'
  PROVE  View(r, o) \/ o = store'[r]
<1>1. r[1] \in Apis
  BY RegistryAssumption
<1>2. ASSUME NEW t \in Resources, Erases(t) PROVE View(r, o) \/ o = store'[r]
  BY <1>2, ViewWrite, NothingType DEF Erases
<1>3. ASSUME NEW t \in Resources, NEW p, Shows(t, p) PROVE View(r, o) \/ o = store'[r]
  <2>1. t[1] \in Apis /\ \A api \in Apis : worker'[api] # Nothing => worker'[api] = worker[api]
    BY <1>3, RegistryAssumption DEF Shows, TypeOK
  <2> QED BY <1>3, <2>1, ViewWrite DEF Shows
<1>4. ASSUME NEW c \in Clients, NEW p, Admits(c, p) PROVE View(r, o) \/ o = store'[r]
  <2>1. \A d \in Clients : request'[d] # NoRequest => request'[d] = request[d]
    BY <1>4 DEF Admits, TypeOK
  <2>2. request[c].res \in Resources
    BY <1>4 DEF Admits, Requests
  <2> QED BY <1>4, <2>1, <2>2, ViewWrite DEF Admits
<1>5. ASSUME UNCHANGED <<store, events>>,
             cache' = cache \/ cache' = store,
             \/ worker'[r[1]] = worker[r[1]] \/ worker'[r[1]] = Nothing
             \/ worker'[r[1]].res = r => worker'[r[1]].obj = cache[r],
             \A c \in Clients : request'[c] # NoRequest =>
               \/ /\ request[c] # NoRequest
                  /\ request'[c].res = request[c].res /\ request'[c].old = request[c].old
               \/ request'[c].old = store[request'[c].res]
      PROVE  View(r, o)
  <2>1. Pending(r[1])' = Pending(r[1])
    BY <1>5 DEF Pending
  <2>2. cache'[r] = o => View(r, o)
    BY <1>5 DEF View
  <2>3. worker'[r[1]] # Nothing /\ worker'[r[1]].res = r /\ worker'[r[1]].obj = o => View(r, o)
    BY <1>5 DEF View
  <2>4. ASSUME NEW c \in Clients, request'[c] # NoRequest, request'[c].res = r, request'[c].old = o
        PROVE  View(r, o)
    BY <1>5, <2>4 DEF View
  <2>5. store'[r] = o => View(r, o)
    BY <1>5 DEF View
  <2> QED BY <2>1, <2>2, <2>3, <2>4, <2>5 DEF View
<1>6. ASSUME NEW c \in Clients, NEW t \in Resources, NEW a, Submit(c, t, a) PROVE View(r, o)
  <2>1. \A d \in Clients : request'[d] # NoRequest =>
          request'[d] = request[d] \/ request'[d].old = store[request'[d].res]
    BY <1>6 DEF Submit, TypeOK
  <2> QED BY <1>5, <1>6, <2>1 DEF Submit, server, informers, reconcilers
<1>7. ASSUME NEW c \in Clients, Persist(c) PROVE View(r, o) \/ o = store'[r]
  <2>1. CASE UNCHANGED <<server, events, adopted>>
    <3>1. \A d \in Clients : request'[d] # NoRequest => request'[d] = request[d]
      BY <1>7 DEF Persist, TypeOK
    <3> QED BY <1>5, <1>7, <2>1, <3>1 DEF Persist, server, reconcilers
  <2> QED BY <1>4, <1>7, <2>1, PersistWrites
<1>8. ASSUME NEW c \in Clients, Webhook(c) PROVE View(r, o)
  <2>1. UNCHANGED <<store, events, cache, worker>>
    BY <1>8 DEF Webhook, ListLegacy, CheckLegacy, CheckNew, server, informers, reconcilers
  <2>2. ASSUME NEW d \in Clients, request'[d] # NoRequest
        PROVE  /\ request[d] # NoRequest
               /\ request'[d].res = request[d].res /\ request'[d].old = request[d].old
    <3>1. request[c] \in Requests /\ request[c] # NoRequest
      BY <1>8, InFlight DEF Webhook, ListLegacy, CheckLegacy, CheckNew
    <3>2. CASE d = c
      <4>1. PICK n \in Names : ListLegacy(c, n) \/ CheckLegacy(c, n) \/ CheckNew(c, n)
        BY <1>8 DEF Webhook
      <4>2. ASSUME NEW taken, Verdict(c, n, taken)
            PROVE  request'[d].res = request[d].res /\ request'[d].old = request[d].old
        BY <2>2, <3>1, <3>2, <4>2 DEF Verdict, Requests, TypeOK
      <4>3. ASSUME ListLegacy(c, n)
            PROVE  request'[d].res = request[d].res /\ request'[d].old = request[d].old
        BY <2>2, <3>1, <3>2, <4>3 DEF ListLegacy, Requests, TypeOK
      <4> QED BY <3>1, <3>2, <4>1, <4>2, <4>3 DEF CheckLegacy, CheckNew
    <3>3. CASE d # c
      <4>1. request'[d] = request[d]
        BY <1>8, <3>3 DEF Webhook, ListLegacy, CheckLegacy, CheckNew, Verdict, TypeOK
      <4> QED BY <2>2, <4>1
    <3> QED BY <3>2, <3>3
  <2> QED BY <1>5, <2>1, <2>2
<1>9. ASSUME NEW api \in Apis, Deliver(api) PROVE View(r, o)
  <2> DEFINE e == Head(events[api])
  <2>1. /\ e \in Pending(api) /\ cache' = [cache EXCEPT ![e.key] = e.obj]
        /\ UNCHANGED <<store, worker, request>>
    BY <1>9, PendingDeliver DEF Deliver, server
  <2>2. \A f \in Pending(r[1])' : f \in Pending(r[1])
    BY <1>1, <1>9, PendingDeliver
  <2>3. e.key \in Of(api) /\ e.key \in Resources
    BY <2>1, PendingType DEF Of
  <2>4. cache'[r] = o => View(r, o)
    <3>1. CASE e.key = r
      BY <2>1, <2>3, <3>1 DEF View, TypeOK, Of
    <3>2. CASE e.key # r
      BY <2>1, <3>2 DEF View, TypeOK
    <3> QED BY <3>1, <3>2
  <2> QED BY <2>1, <2>2, <2>4 DEF View
<1>10. ASSUME NEW t \in Resources, Reconcile(t) PROVE View(r, o)
  <2>1. \/ worker'[r[1]] = worker[r[1]] \/ worker'[r[1]] = Nothing
        \/ worker'[r[1]].res = r => worker'[r[1]].obj = cache[r]
    BY <1>1, <1>10 DEF Reconcile, TypeOK
  <2> QED BY <1>5, <1>10, <2>1 DEF Reconcile, server, informers
<1>11. ASSUME NEW api \in Apis, UpdateStatus(api) PROVE View(r, o) \/ o = store'[r]
  <2>1. CASE UNCHANGED <<server, events, adopted>>
    <3>1. worker'[r[1]] = worker[r[1]] \/ worker'[r[1]] = Nothing
      BY <1>1, <1>11 DEF UpdateStatus, TypeOK
    <3> QED BY <1>5, <1>11, <2>1, <3>1 DEF UpdateStatus, server
  <2> QED BY <1>3, <1>11, <2>1, StatusWrites DEF Of
<1>12. ASSUME Restart PROVE View(r, o)
  <2>1. Pending(r[1])' = {} /\ cache' = store /\ store' = store /\ worker'[r[1]] = Nothing
    BY <1>1, <1>12 DEF Restart, Pending, server
  <2>2. \A c \in Clients : request'[c] # NoRequest => request'[c] = request[c]
    BY <1>12 DEF Restart
  <2> QED BY <2>1, <2>2 DEF View
<1>13. CASE UNCHANGED vars
  BY <1>5, <1>13 DEF vars, server, informers, reconcilers
<1> QED BY <1>2, <1>6, <1>7, <1>8, <1>9, <1>10, <1>11, <1>12, <1>13
        DEF Next, Client, Controller, Delete, Erases, reconcilers, Of

----------------------------------------------------------------------------
(* Versions.  Two copies of a resource of the same version are the same,    *)
(* which is what the API server goes by when it takes a status.             *)

VersionInv ==
  /\ WorkerLive
  /\ \A r \in Resources, o \in Objects : View(r, o) =>
       /\ o.rv <= clock /\ o.uid <= o.rv
       /\ Exists(store[r]) /\ o.rv = store[r].rv => o = store[r]

\* What a step does to a resource in the server.
LEMMA StoreStep ==
  ASSUME TypeOK, WorkerLive, [Next]_vars, NEW r \in Resources
  PROVE  /\ clock \in Nat /\ clock' \in {clock, clock + 1}
         /\ \/ store'[r] = store[r]
            \/ clock' = clock + 1 /\ store'[r] = Nothing
            \/ clock' = clock + 1 /\ store'[r].rv = clock + 1
<1>1. clock \in Nat /\ store \in [Resources -> Objects]
  BY DEF TypeOK
<1>2. ASSUME NEW t \in Resources, NEW o \in Objects, Write(t, o), o = Nothing \/ o.rv = clock + 1
      PROVE  /\ clock' = clock + 1
             /\ \/ store'[r] = store[r] \/ store'[r] = Nothing \/ store'[r].rv = clock + 1
  BY <1>1, <1>2 DEF Write
<1>3. CASE UNCHANGED server
  BY <1>1, <1>3 DEF server
<1>4. ASSUME NEW t \in Resources, Erases(t)
      PROVE  /\ clock' = clock + 1
             /\ \/ store'[r] = store[r] \/ store'[r] = Nothing \/ store'[r].rv = clock + 1
  BY <1>2, <1>4, NothingType DEF Erases
<1>5. ASSUME NEW t \in Resources, NEW o, Shows(t, o)
      PROVE  /\ clock' = clock + 1
             /\ \/ store'[r] = store[r] \/ store'[r] = Nothing \/ store'[r].rv = clock + 1
  BY <1>2, <1>5 DEF Shows
<1>6. ASSUME NEW c \in Clients, NEW o, Admits(c, o)
      PROVE  /\ clock' = clock + 1
             /\ \/ store'[r] = store[r] \/ store'[r] = Nothing \/ store'[r].rv = clock + 1
  BY <1>2, <1>6 DEF Admits, Requests
<1> QED BY <1>1, <1>3, <1>4, <1>5, <1>6, StepWrites

LEMMA VersionStep == TypeOK /\ VersionInv /\ [Next]_vars => VersionInv'
<1> SUFFICES ASSUME TypeOK, VersionInv, [Next]_vars PROVE VersionInv'
  OBVIOUS
<1>1. WorkerLive
  BY DEF VersionInv
<1>2. TypeOK'
  BY TypeStep
<1>3. WorkerLive'
  <2> SUFFICES ASSUME NEW api \in Apis, worker'[api] # Nothing PROVE Exists(worker'[api].obj)
    BY DEF WorkerLive
  <2>1. worker'[api] = worker[api] => Exists(worker'[api].obj)
    BY <1>1 DEF WorkerLive
  <2>2. ASSUME NEW r \in Resources, Reconcile(r) PROVE Exists(worker'[api].obj)
    <3>1. CASE r[1] = api
      BY <2>2, <3>1 DEF Reconcile, Stale, TypeOK
    <3>2. CASE r[1] # api
      BY <2>1, <2>2, <3>2 DEF Reconcile, TypeOK
    <3> QED BY <3>1, <3>2
  <2>3. ASSUME NEW b \in Apis, UpdateStatus(b) PROVE worker'[api] = worker[api]
    BY <2>3 DEF UpdateStatus, TypeOK
  <2>4. CASE Restart
    BY <2>4 DEF Restart
  <2> QED BY <2>1, <2>2, <2>3, <2>4 DEF Next, Client, Submit, Persist, Webhook, ListLegacy, CheckLegacy,
            CheckNew, Delete, Controller, Deliver, vars, reconcilers, Of
<1>4. ASSUME NEW r \in Resources, NEW o \in Objects, View(r, o)'
      PROVE  /\ o.rv <= clock' /\ o.uid <= o.rv
             /\ Exists(store'[r]) /\ o.rv = store'[r].rv => o = store'[r]
  <2>1. o.rv \in Nat /\ o.uid \in Nat
    BY DEF Objects
  <2>2. CASE o = store'[r]
    BY <1>2, <2>2 DEF TypeOK
  <2>3. CASE View(r, o)
    <3>1. /\ o.rv <= clock /\ o.uid <= o.rv
          /\ Exists(store[r]) /\ o.rv = store[r].rv => o = store[r]
      BY <2>3 DEF VersionInv
    <3>2. clock \in Nat /\ clock' \in {clock, clock + 1}
      BY <1>1, StoreStep
    <3>3. CASE store'[r] = store[r]
      BY <2>1, <3>1, <3>2, <3>3
    <3>4. CASE clock' = clock + 1 /\ store'[r] = Nothing
      BY <2>1, <3>1, <3>2, <3>4, NothingType DEF Exists
    <3>5. CASE clock' = clock + 1 /\ store'[r].rv = clock + 1
      BY <2>1, <3>1, <3>2, <3>5
    <3> QED BY <1>1, <3>3, <3>4, <3>5, StoreStep
  <2> QED BY <1>1, <1>4, <2>2, <2>3, ViewStep
<1> QED BY <1>3, <1>4 DEF VersionInv

LEMMA VersionInit == Init => VersionInv
<1> SUFFICES ASSUME Init PROVE VersionInv
  OBVIOUS
<1>1. TypeOK
  BY TypeInit
<1>2. WorkerLive
  BY DEF Init, WorkerLive
<1>3. ASSUME NEW r \in Resources, NEW o, View(r, o) PROVE o = store[r]
  <2>1. r[1] \in Apis
    BY RegistryAssumption
  <2>2. Pending(r[1]) = {} /\ worker[r[1]] = Nothing /\ cache = store
    BY <2>1 DEF Init, Pending
  <2>3. \A c \in Clients : request[c] = NoRequest
    BY DEF Init
  <2> QED BY <1>3, <2>2, <2>3 DEF View
<1> QED BY <1>1, <1>2, <1>3 DEF VersionInv, TypeOK

\* A reconciler never writes a name the resource had before, nor one of a resource that
\* is gone or was made anew: what it read an arbitrary time ago is what is stored.
THEOREM StatusesAreCurrent == Spec => StatusIsCurrent
<1>1. TypeOK /\ VersionInv /\ [Next]_vars =>
        [\A r \in Resources :
           store'[r].status # store[r].status /\ store'[r].uid = store[r].uid =>
             Exists(store[r]) /\ store'[r].status = ServiceName(r, store[r])]_store
  <2> SUFFICES ASSUME TypeOK, VersionInv, [Next]_vars, NEW r \in Resources,
                      store'[r].status # store[r].status, store'[r].uid = store[r].uid
               PROVE  Exists(store[r]) /\ store'[r].status = ServiceName(r, store[r])
    OBVIOUS
  <2>1. ~UNCHANGED server
    BY DEF server
  <2>2. store \in [Resources -> Objects] /\ clock \in Nat
        /\ \A s \in Resources : store[s].uid <= store[s].rv /\ store[s].rv <= clock
    BY DEF TypeOK
  <2>3. ASSUME NEW t \in Resources, Erases(t) PROVE FALSE
    <3>1. t = r /\ store'[r] = Nothing
      BY <2>2, <2>3 DEF Erases, Write
    <3> QED BY <2>3, <3>1, NothingType DEF Erases, Exists
  <2>4. ASSUME NEW c \in Clients, NEW o, Admits(c, o) PROVE FALSE
    <3> DEFINE q == request[c]
    <3>1. /\ store' = [store EXCEPT ![q.res] = o] /\ store[q.res] = q.old
          /\ o.status = q.old.status
          /\ o.uid = IF Exists(q.old) THEN q.old.uid ELSE clock + 1
      BY <2>4 DEF Admits, Write
    <3>2. q.res = r /\ store'[r] = o
      BY <2>2, <3>1
    <3> QED BY <3>1, <3>2
  <2>5. ASSUME NEW t \in Resources, NEW o, Shows(t, o)
        PROVE  Exists(store[r]) /\ store'[r].status = ServiceName(r, store[r])
    <3>1. /\ store' = [store EXCEPT ![t] = o] /\ Exists(store[t])
          /\ o.status = ServiceName(t, worker[t[1]].obj)
          /\ Current(t, worker[t[1]].obj) /\ worker[t[1]] # Nothing /\ worker[t[1]].res = t
      BY <2>5 DEF Shows, Write
    <3>2. t = r /\ store'[r] = o
      BY <2>2, <3>1
    <3>3. t[1] \in Apis
      BY RegistryAssumption
    <3>4. worker[t[1]].obj \in Objects /\ View(t, worker[t[1]].obj)
      BY <3>1, <3>3 DEF View, TypeOK
    <3>5. worker[t[1]].obj = store[t]
      BY <3>1, <3>4 DEF VersionInv, Current
    <3> QED BY <3>1, <3>2, <3>5
  <2>6. WorkerLive
    BY DEF VersionInv
  <2> QED BY <2>1, <2>3, <2>4, <2>5, <2>6, StepWrites
<1> QED BY TypeInit, TypeStep, VersionInit, VersionStep, <1>1, PTL DEF Spec, StatusIsCurrent

----------------------------------------------------------------------------
(* Uids.  The webhooks compare uids, so no uid may ever belong to two       *)
(* resources, in whatever copy it is met.                                   *)

Owns(owner) ==
  /\ DOMAIN owner = 1..clock
  /\ \A r \in Resources, o \in Objects : View(r, o) /\ Exists(o) => o.uid \in 1..clock /\ owner[o.uid] = r

UidInv == \E owner : Owns(owner)

LEMMA UidStep == TypeOK /\ WorkerLive /\ UidInv /\ [Next]_vars => UidInv'
<1> SUFFICES ASSUME TypeOK, WorkerLive, NEW owner, Owns(owner), [Next]_vars PROVE \E w : Owns(w)'
  BY DEF UidInv
<1>1. TypeOK' /\ clock \in Nat /\ store \in [Resources -> Objects]
  BY TypeStep DEF TypeOK
<1>2. \A r \in Resources : View(r, store[r])
  BY DEF View
<1>3. ASSUME UNCHANGED clock, \A r \in Resources : store'[r] = store[r] PROVE Owns(owner)'
  BY <1>2, <1>3, ViewStep DEF Owns
<1>4. ASSUME NEW t \in Resources, NEW p \in Objects, Write(t, p),
             Exists(p) => p.uid = clock + 1 \/ (p.uid = store[t].uid /\ Exists(store[t]))
      PROVE  \E w : Owns(w)'
  <2> PICK w : w = [u \in 1..(clock + 1) |-> IF u = clock + 1 THEN t ELSE owner[u]]
    OBVIOUS
  <2>1. clock' = clock + 1 /\ store' = [store EXCEPT ![t] = p]
    BY <1>4 DEF Write
  <2>2. ASSUME NEW r \in Resources, NEW o \in Objects, View(r, o)', Exists(o)
        PROVE  o.uid \in 1..clock' /\ w[o.uid] = r
    <3>1. ASSUME View(r, o) PROVE o.uid \in 1..clock' /\ w[o.uid] = r
      <4>1. o.uid \in 1..clock /\ owner[o.uid] = r
        BY <2>2, <3>1 DEF Owns
      <4> QED BY <1>1, <2>1, <4>1
    <3>2. CASE o = store'[r] /\ r # t
      BY <1>1, <1>2, <2>1, <3>1, <3>2
    <3>3. CASE o = store'[r] /\ r = t
      <4>1. o = p
        BY <1>1, <2>1, <3>3
      <4>2. CASE p.uid = clock + 1
        BY <1>1, <2>1, <3>3, <4>1, <4>2
      <4>3. CASE p.uid = store[t].uid /\ Exists(store[t])
        <5>1. store[t].uid \in 1..clock /\ owner[store[t].uid] = t
          BY <1>1, <1>2, <4>3 DEF Owns
        <5> QED BY <1>1, <2>1, <3>3, <4>1, <4>3, <5>1
      <4> QED BY <1>4, <2>2, <4>1, <4>2, <4>3
    <3> QED BY <2>2, <3>1, <3>2, <3>3, ViewStep
  <2>3. DOMAIN w = 1..clock'
    BY <2>1
  <2>4. Owns(w)'
    BY <2>2, <2>3 DEF Owns
  <2> QED BY <2>4
<1>5. ASSUME NEW t \in Resources, Erases(t) PROVE \E w : Owns(w)'
  BY <1>4, <1>5, NothingType DEF Erases, Exists
<1>6. ASSUME NEW t \in Resources, NEW o, Shows(t, o) PROVE \E w : Owns(w)'
  BY <1>4, <1>6 DEF Shows
<1>7. ASSUME NEW c \in Clients, NEW o, Admits(c, o) PROVE \E w : Owns(w)'
  BY <1>4, <1>7 DEF Admits, Requests
<1>8. CASE UNCHANGED server
  BY <1>3, <1>8 DEF server
<1> QED BY <1>5, <1>6, <1>7, <1>8, StepWrites

LEMMA UidInit == Init => UidInv
<1> SUFFICES ASSUME Init PROVE \E w : Owns(w)
  BY DEF UidInv
<1>1. PICK h \in Histories : store = Settled(h) /\ clock = Len(h)
  BY DEF Init
<1> DEFINE w == [u \in 1..Len(h) |-> h[u].res]
<1>2. ASSUME NEW r \in Resources, NEW o, View(r, o) PROVE o = store[r]
  <2>1. r[1] \in Apis
    BY RegistryAssumption
  <2>2. Pending(r[1]) = {} /\ worker[r[1]] = Nothing /\ cache = store
    BY <2>1 DEF Init, Pending
  <2>3. \A c \in Clients : request[c] = NoRequest
    BY DEF Init
  <2> QED BY <1>2, <2>2, <2>3 DEF View
<1>3. ASSUME NEW r \in Resources, Exists(store[r]) PROVE store[r].uid \in 1..Len(h) /\ w[store[r].uid] = r
  <2>1. At(h, r) # 0 /\ store[r].uid = At(h, r)
    BY <1>1, <1>3, NothingType DEF Settled, Exists
  <2> QED BY <2>1, AtType
<1> HIDE DEF w
<1>4. DOMAIN w = 1..clock
  BY <1>1 DEF w
<1>5. Owns(w)
  BY <1>1, <1>2, <1>3, <1>4 DEF Owns
<1> QED BY <1>5

\* What the webhooks rely on.
LEMMA UidsApart ==
  ASSUME UidInv, NEW r \in Resources, NEW s \in Resources, NEW o \in Objects, NEW p \in Objects,
         View(r, o), View(s, p), Exists(o), o.uid = p.uid
  PROVE  r = s
BY DEF UidInv, Owns, Exists

----------------------------------------------------------------------------
(* Caches.  A cache has seen exactly the events up to Synced, in the order  *)
(* of the writes.                                                           *)

LogInv ==
  \A api \in Apis : \A i, j \in 1..Len(events[api]) : i < j => events[api][i].at < events[api][j].at

LEMMA LogWrite == ASSUME TypeOK, LogInv, NEW r \in Resources, NEW o \in Objects, Write(r, o) PROVE LogInv'
<1> SUFFICES ASSUME NEW api \in Apis, NEW i \in 1..Len(events'[api]), NEW j \in 1..Len(events'[api]), i < j
             PROVE  events'[api][i].at < events'[api][j].at
  BY DEF LogInv
<1> DEFINE n == Len(events[api])
<1>1. n \in Nat /\ events[api] \in Seq(EventRecords) /\ clock \in Nat
  <2>1. events[api] \in Seq(EventRecords) /\ clock \in Nat
    BY DEF TypeOK, EventRecords
  <2> QED BY <2>1, LenProperties
<1>2. CASE api # r[1]
  BY <1>2, WriteLog DEF LogInv
<1>3. CASE api = r[1]
  <2>1. i \in 1..(n + 1) /\ j \in 1..(n + 1) /\ i \in 1..n /\ events'[api][i] = events[api][i]
    BY <1>1, <1>3, WriteLog
  <2>2. CASE j = n + 1
    <3>1. events'[api][j] = Event(r, o)
      BY <1>3, <2>2, WriteLog
    <3>2. i \in DOMAIN events[api]
      BY <1>1, <2>1, LenProperties
    <3>3. events[api][i].at \in 1..clock
      BY <3>2 DEF TypeOK
    <3> QED BY <1>1, <2>1, <3>1, <3>3 DEF Event
  <2>3. CASE j # n + 1
    <3>1. j \in 1..n
      BY <1>1, <2>1, <2>3
    <3>2. events'[api][j] = events[api][j]
      BY <1>3, <3>1, WriteLog
    <3> QED BY <2>1, <3>1, <3>2 DEF LogInv
  <2> QED BY <2>2, <2>3
<1> QED BY <1>2, <1>3

LEMMA LogDeliver == ASSUME TypeOK, LogInv, NEW a \in Apis, Deliver(a) PROVE LogInv'
<1> SUFFICES ASSUME NEW api \in Apis, NEW i \in 1..Len(events'[api]), NEW j \in 1..Len(events'[api]), i < j
             PROVE  events'[api][i].at < events'[api][j].at
  BY DEF LogInv
<1>1. events[a] # <<>> /\ events' = [events EXCEPT ![a] = Tail(@)] /\ events \in [Apis -> Seq(EventRecords)]
  BY DEF Deliver, TypeOK, EventRecords
<1>2. CASE api = a
  <2> DEFINE n == Len(events[a])
  <2>1. /\ n \in Nat \ {0} /\ Len(events'[a]) = n - 1
        /\ \A k \in 1..(n - 1) : events'[a][k] = events[a][k + 1]
    BY <1>1, LogTail
  <2>2. i \in 1..(n - 1) /\ j \in 1..(n - 1)
    BY <1>2, <2>1
  <2>3. i + 1 \in 1..n /\ j + 1 \in 1..n /\ i + 1 < j + 1
    BY <2>1, <2>2
  <2> QED BY <1>2, <2>1, <2>2, <2>3 DEF LogInv
<1>3. CASE api # a
  BY <1>1, <1>3 DEF LogInv
<1> QED BY <1>2, <1>3

\* Steps by what they do to the server and to the caches.
LEMMA CacheSteps ==
  ASSUME TypeOK, WorkerLive, [Next]_vars
  PROVE  \/ UNCHANGED <<server, events, cache, adopted>>
         \/ UNCHANGED adopted /\ \E api \in Apis : Deliver(api)
         \/ UNCHANGED adopted /\ Restart
         \/ \E r \in Resources : Erases(r)
         \/ \E r \in Resources : \E o : Shows(r, o)
         \/ \E c \in Clients : \E o : Admits(c, o)
<1>1. ASSUME NEW c \in Clients, Client(c)
      PROVE  UNCHANGED <<server, events, cache, adopted>> \/ \E o : Admits(c, o)
  <2>1. UNCHANGED cache
    BY <1>1 DEF Client, Submit, Persist, informers
  <2> QED BY <1>1, <2>1, PersistWrites DEF Client, Submit, informers
<1>2. ASSUME NEW c \in Clients, Webhook(c) PROVE UNCHANGED <<server, events, cache, adopted>>
  BY <1>2 DEF Webhook, ListLegacy, CheckLegacy, CheckNew, informers
<1>3. ASSUME NEW r \in Resources, Delete(r) PROVE Erases(r)
  BY <1>3 DEF Delete, Erases, reconcilers
<1>4. ASSUME NEW api \in Apis, UpdateStatus(api)
      PROVE  UNCHANGED <<server, events, cache, adopted>> \/ \E r \in Resources : \E o : Shows(r, o)
  <2>1. UNCHANGED cache
    BY <1>4 DEF UpdateStatus
  <2> QED BY <1>4, <2>1, StatusWrites DEF Of
<1>5. ASSUME NEW r \in Resources, Reconcile(r) PROVE UNCHANGED <<server, events, cache, adopted>>
  BY <1>5 DEF Reconcile, informers
<1>6. ASSUME UNCHANGED vars PROVE UNCHANGED <<server, events, cache, adopted>>
  BY <1>6 DEF vars, informers
<1> QED BY <1>1, <1>2, <1>3, <1>4, <1>5, <1>6 DEF Next, Controller, Deliver, Restart, Of

LEMMA LogStep == TypeOK /\ WorkerLive /\ LogInv /\ [Next]_vars => LogInv'
<1> SUFFICES ASSUME TypeOK, WorkerLive, LogInv, [Next]_vars PROVE LogInv'
  OBVIOUS
<1>1. CASE UNCHANGED events
  BY <1>1 DEF LogInv
<1>2. CASE Restart
  BY <1>2 DEF Restart, LogInv
<1>3. ASSUME NEW r \in Resources, Erases(r) PROVE LogInv'
  BY <1>3, LogWrite, NothingType DEF Erases
<1>4. ASSUME NEW r \in Resources, NEW o, Shows(r, o) PROVE LogInv'
  BY <1>4, LogWrite DEF Shows
<1>5. ASSUME NEW c \in Clients, NEW o, Admits(c, o) PROVE LogInv'
  BY <1>5, LogWrite DEF Admits, Requests
<1> QED BY <1>1, <1>2, <1>3, <1>4, <1>5, CacheSteps, LogDeliver

LEMMA PendingAfter ==
  ASSUME TypeOK, LogInv, NEW api \in Apis, NEW e \in Pending(api)
  PROVE  e.at > Synced(api)
<1>1. events[api] \in Seq(EventRecords)
  BY DEF TypeOK, EventRecords
<1>2. PICK i \in 1..Len(events[api]) : e = events[api][i]
  BY DEF Pending
<1>3. /\ Len(events[api]) \in Nat \ {0} /\ events[api] # <<>>
      /\ Head(events[api]) = events[api][1] /\ events[api][1].at \in 1..clock
  BY <1>1, <1>2, LogTail
<1>4. e.at \in 1..clock
  BY PendingType
<1>5. i = 1 \/ events[api][1].at < e.at
  BY <1>2, <1>3 DEF LogInv
<1>6. clock \in Nat
  BY DEF TypeOK
<1> QED BY <1>2, <1>3, <1>4, <1>5, <1>6 DEF Synced

LEMMA SyncedWrite ==
  ASSUME TypeOK, NEW r \in Resources, NEW o \in Objects, Write(r, o), NEW api \in Apis
  PROVE  Synced(api)' = IF events[api] = <<>> /\ api # r[1] THEN clock + 1 ELSE Synced(api)
<1>1. events[api] \in Seq(EventRecords) /\ events'[api] \in Seq(EventRecords) /\ clock \in Nat
  BY WriteLog DEF TypeOK, EventRecords
<1>2. CASE api # r[1]
  <2>1. events'[api] = events[api] /\ clock' = clock + 1
    BY <1>2, WriteLog
  <2> QED BY <1>2, <2>1 DEF Synced
<1>3. CASE api = r[1]
  <2>1. /\ Len(events'[api]) = Len(events[api]) + 1 /\ Len(events[api]) \in Nat
        /\ events'[api][Len(events[api]) + 1] = Event(r, o)
        /\ \A i \in 1..Len(events[api]) : events'[api][i] = events[api][i]
    BY <1>1, <1>3, WriteLog
  <2>2. events'[api] # <<>> /\ Head(events'[api]) = events'[api][1]
    BY <1>1, <2>1
  <2>3. CASE events[api] = <<>>
    <3>1. Head(events'[api]) = Event(r, o)
      BY <2>1, <2>2, <2>3
    <3> QED BY <1>1, <1>3, <2>2, <2>3, <3>1 DEF Synced, Event
  <2>4. CASE events[api] # <<>>
    <3>1. Head(events[api]) = events[api][1] /\ 1 \in 1..Len(events[api])
      BY <1>1, <2>4
    <3> QED BY <1>3, <2>1, <2>2, <2>4, <3>1 DEF Synced
  <2> QED BY <2>3, <2>4
<1> QED BY <1>2, <1>3

LEMMA SyncedDeliver ==
  ASSUME TypeOK, LogInv, NEW api \in Apis, Deliver(api)
  PROVE  /\ Synced(api) = Head(events[api]).at - 1 /\ Head(events[api]).at <= Synced(api)'
         /\ Synced(api)' \in Nat /\ \A e \in Pending(api)' : e.at > Synced(api)'
         /\ \A b \in Apis \ {api} : Synced(b)' = Synced(b)
<1>1. /\ events[api] # <<>> /\ events' = [events EXCEPT ![api] = Tail(@)] /\ clock' = clock
      /\ events \in [Apis -> Seq(EventRecords)] /\ clock \in Nat
  BY DEF Deliver, TypeOK, EventRecords, server
<1>2. Synced(api) = Head(events[api]).at - 1 /\ Head(events[api]).at \in 1..clock
  BY <1>1, LogTail DEF Synced
<1>3. \A b \in Apis \ {api} : events'[b] = events[b]
  BY <1>1
<1> DEFINE n == Len(events[api])
<1>4. /\ n \in Nat \ {0} /\ Len(events'[api]) = n - 1 /\ events'[api] = Tail(events[api])
      /\ events'[api] \in Seq(EventRecords) /\ Head(events[api]) = events[api][1]
      /\ \A k \in 1..(n - 1) : events'[api][k] = events[api][k + 1]
  BY <1>1, LogTail
<1>5. CASE events'[api] = <<>>
  <2>1. Synced(api)' = clock
    BY <1>1, <1>5 DEF Synced
  <2>2. Pending(api)' = {}
    BY <1>5 DEF Pending
  <2>3. \A b \in Apis \ {api} : Synced(b)' = Synced(b)
    BY <1>1, <1>3 DEF Synced
  <2> QED BY <1>1, <1>2, <2>1, <2>2, <2>3
<1>6. CASE events'[api] # <<>>
  <2>1. 1 \in 1..(n - 1) /\ Head(events'[api]) = events[api][2] /\ 2 \in 1..n
    BY <1>4, <1>6
  <2>2. events[api][1].at < events[api][2].at
    <3>1. 1 \in 1..n /\ 1 < 2
      BY <1>4
    <3> QED BY <2>1, <3>1 DEF LogInv
  <2>3. events[api][2].at \in 1..clock
    <3>1. 2 \in DOMAIN events[api]
      BY <1>1, <2>1, LenProperties
    <3> QED BY <3>1 DEF TypeOK
  <2>4. Synced(api)' = events[api][2].at - 1
    BY <1>6, <2>1 DEF Synced
  <2>5. ASSUME NEW e \in Pending(api)' PROVE e.at >= events[api][2].at
    <3>1. PICK k \in 1..(n - 1) : e = events'[api][k]
      BY <1>4 DEF Pending
    <3>2. e = events[api][k + 1] /\ k + 1 \in 2..n
      BY <1>4, <3>1
    <3>3. events[api][k + 1].at \in 1..clock
      <4>1. k + 1 \in DOMAIN events[api]
        BY <1>1, <3>2, LenProperties
      <4> QED BY <4>1 DEF TypeOK
    <3>4. k + 1 = 2 \/ (2 < k + 1 /\ k + 1 \in 1..n)
      BY <1>4, <3>2
    <3> QED BY <2>1, <2>3, <3>2, <3>3, <3>4 DEF LogInv
  <2>6. \A e \in Pending(api)' : e.at > Synced(api)'
    <3> SUFFICES ASSUME NEW e \in Pending(api)' PROVE e.at > Synced(api)'
      OBVIOUS
    <3>1. e.at >= events[api][2].at /\ e \in Pending(api)
      BY <2>5, PendingDeliver
    <3>2. e.at \in 1..clock
      BY <3>1, PendingType
    <3> QED BY <1>1, <2>3, <2>4, <3>1, <3>2
  <2>7. Synced(api)' \in Nat /\ Head(events[api]).at <= Synced(api)'
    BY <1>1, <1>2, <1>4, <2>2, <2>3, <2>4
  <2>8. \A b \in Apis \ {api} : Synced(b)' = Synced(b)
    BY <1>1, <1>3 DEF Synced
  <2> QED BY <1>2, <2>6, <2>7, <2>8
<1> QED BY <1>5, <1>6

\* From version v of r on, the cache and the events on the way to it hold members of S.
Follows(r, v, S) ==
  /\ \A e \in Pending(r[1]) : e.key = r /\ e.at >= v => e.obj \in S
  /\ v <= Synced(r[1]) => cache[r] \in S
  /\ v > Synced(r[1]) => \E e \in Pending(r[1]) : e.key = r /\ e.at = v

LEMMA FollowsWrite ==
  ASSUME TypeOK, NEW t \in Resources, NEW o \in Objects, Write(t, o), UNCHANGED cache,
         NEW r \in Resources, NEW v \in Nat, v <= clock, NEW S, Follows(r, v, S), store'[r] \in S
  PROVE  Follows(r, v, S)'
<1>1. r[1] \in Apis /\ clock \in Nat /\ Synced(r[1]) \in Nat /\ Synced(r[1]) <= clock
  BY RegistryAssumption, SyncedType DEF TypeOK
<1>2. /\ \A e \in Pending(r[1])' : e \in Pending(r[1]) \/ (e = Event(t, o))
      /\ \A e \in Pending(r[1]) : e \in Pending(r[1])'
  BY <1>1, PendingWrite
<1>3. Synced(r[1])' = Synced(r[1]) \/ (Synced(r[1]) = clock /\ Synced(r[1])' = clock + 1)
  BY <1>1, SyncedWrite DEF Synced
<1>4. store'[t] = o
  BY DEF Write, TypeOK
<1>5. ASSUME NEW e \in Pending(r[1])', e.key = r, e.at >= v PROVE e.obj \in S
  BY <1>2, <1>4, <1>5 DEF Follows, Event
<1>6. v <= Synced(r[1])' => cache'[r] \in S
  BY <1>1, <1>3 DEF Follows
<1>7. v > Synced(r[1])' => \E e \in Pending(r[1])' : e.key = r /\ e.at = v
  BY <1>1, <1>2, <1>3 DEF Follows
<1> QED BY <1>5, <1>6, <1>7 DEF Follows

LEMMA FollowsDeliver ==
  ASSUME TypeOK, LogInv, NEW api \in Apis, Deliver(api),
         NEW r \in Resources, NEW v \in Nat, NEW S, Follows(r, v, S)
  PROVE  Follows(r, v, S)'
<1> DEFINE e == Head(events[api])
<1>1. r[1] \in Apis /\ Synced(api) \in Nat
  BY RegistryAssumption, SyncedType
<1>2. /\ e \in Pending(api) /\ Pending(api) = Pending(api)' \cup {e}
      /\ \A b \in Apis \ {api} : Pending(b)' = Pending(b)
      /\ cache' = [cache EXCEPT ![e.key] = e.obj] /\ cache \in [Resources -> Objects]
  BY PendingDeliver DEF Deliver, TypeOK
<1>3. /\ Synced(api) = e.at - 1 /\ e.at <= Synced(api)'
      /\ \A b \in Apis \ {api} : Synced(b)' = Synced(b)
      /\ Synced(api)' \in Nat /\ \A f \in Pending(api)' : f.at > Synced(api)'
  BY SyncedDeliver
<1>4. e.key \in Resources /\ e.key[1] = api /\ e.at \in Nat
  BY <1>2, PendingType DEF EventRecords
<1> HIDE DEF e
<1>7. CASE r[1] # api
  <2>1. cache'[r] = cache[r]
    BY <1>2, <1>4, <1>7
  <2> QED BY <1>1, <1>2, <1>3, <1>7, <2>1 DEF Follows
<1>8. CASE r[1] = api
  <2>1. \A f \in Pending(r[1])' : f.key = r /\ f.at >= v => f.obj \in S
    BY <1>2, <1>8 DEF Follows
  <2>2. ASSUME v <= Synced(r[1])' PROVE cache'[r] \in S
    <3>1. CASE v <= Synced(api)
      <4>1. CASE e.key = r
        BY <1>1, <1>2, <1>3, <1>4, <1>8, <3>1, <4>1 DEF Follows
      <4>2. CASE e.key # r
        BY <1>2, <1>8, <3>1, <4>2 DEF Follows
      <4> QED BY <4>1, <4>2
    <3>2. CASE v > Synced(api)
      <4>1. PICK f \in Pending(api) : f.key = r /\ f.at = v
        BY <1>8, <3>2 DEF Follows
      <4>2. f = e
        <5>1. ASSUME f \in Pending(api)' PROVE FALSE
          BY <1>3, <1>8, <2>2, <4>1, <5>1
        <5> QED BY <1>2, <4>1, <5>1
      <4>3. e.obj \in S
        BY <1>2, <1>8, <4>1, <4>2 DEF Follows
      <4> QED BY <1>2, <4>1, <4>2, <4>3
    <3> QED BY <1>1, <3>1, <3>2
  <2>3. ASSUME v > Synced(r[1])' PROVE \E f \in Pending(r[1])' : f.key = r /\ f.at = v
    <3>2. v > Synced(api) /\ v > e.at
      BY <1>1, <1>3, <1>4, <1>8, <2>3
    <3>3. PICK f \in Pending(api) : f.key = r /\ f.at = v
      BY <1>8, <3>2 DEF Follows
    <3>4. f # e
      BY <1>4, <3>2, <3>3
    <3> QED BY <1>2, <1>8, <3>3, <3>4
  <2> QED BY <2>1, <2>2, <2>3 DEF Follows
<1> QED BY <1>7, <1>8

\* What follows r goes on following it as long as r is stored as a member of S.
LEMMA FollowsStep ==
  ASSUME TypeOK, WorkerLive, LogInv, [Next]_vars, NEW r \in Resources, NEW v \in Nat, v <= clock,
         NEW S, Follows(r, v, S), store'[r] \in S
  PROVE  Follows(r, v, S)'
<1>1. r[1] \in Apis
  BY RegistryAssumption
<1>2. CASE UNCHANGED <<server, events, cache>>
  <2>1. Pending(r[1])' = Pending(r[1]) /\ Synced(r[1])' = Synced(r[1])
    BY <1>2 DEF Pending, Synced, server
  <2> QED BY <1>2, <2>1 DEF Follows
<1>3. CASE Restart
  <2>1. /\ Pending(r[1])' = {} /\ events'[r[1]] = <<>> /\ clock' = clock
        /\ cache'[r] = store'[r]
    BY <1>1, <1>3 DEF Restart, Pending, server
  <2>2. Synced(r[1])' = clock /\ clock \in Nat
    BY <2>1 DEF Synced, TypeOK
  <2> QED BY <2>1, <2>2 DEF Follows
<1>4. ASSUME NEW t \in Resources, Erases(t) PROVE Follows(r, v, S)'
  BY <1>4, FollowsWrite, NothingType DEF Erases
<1>5. ASSUME NEW t \in Resources, NEW o, Shows(t, o) PROVE Follows(r, v, S)'
  BY <1>5, FollowsWrite DEF Shows
<1>6. ASSUME NEW c \in Clients, NEW o, Admits(c, o) PROVE Follows(r, v, S)'
  BY <1>6, FollowsWrite DEF Admits, Requests
<1> QED BY <1>2, <1>3, <1>4, <1>5, <1>6, CacheSteps, FollowsDeliver

\* What is written now has still to reach the cache.
LEMMA FollowsNew ==
  ASSUME TypeOK, NEW r \in Resources, NEW o \in Objects, Write(r, o), NEW S, o \in S,
         NEW v, v = clock + 1
  PROVE  Follows(r, v, S)'
<1>1. r[1] \in Apis /\ clock \in Nat /\ Synced(r[1]) \in Nat /\ Synced(r[1]) <= clock
  BY RegistryAssumption, SyncedType DEF TypeOK
<1>2. Pending(r[1])' = Pending(r[1]) \cup {Event(r, o)}
  BY PendingWrite
<1>3. \A e \in Pending(r[1]) : e.at \in 1..clock
  BY <1>1, PendingType
<1>4. Synced(r[1])' = Synced(r[1])
  BY <1>1, SyncedWrite
<1>5. Event(r, o).key = r /\ Event(r, o).at = v /\ Event(r, o).obj = o
  BY DEF Event
<1>6. ASSUME NEW e \in Pending(r[1])', e.key = r, e.at >= v PROVE e.obj \in S
  BY <1>1, <1>2, <1>3, <1>5, <1>6
<1> QED BY <1>1, <1>2, <1>4, <1>5, <1>6 DEF Follows

----------------------------------------------------------------------------
(* Names.  A cache that has seen a resource take its name shows it under    *)
(* that name, and one that has seen its last version shows that version.    *)

Same(r, o) == {p \in Objects : p.uid = o.uid /\ ServiceName(r, p) = ServiceName(r, o)}

FollowInv ==
  \A r \in Resources : Exists(store[r]) =>
    /\ adopted[r].at \in 1..clock
    /\ Follows(r, adopted[r].at, Same(r, store[r]))
    /\ Follows(r, store[r].rv, {store[r]})

\* A resource keeps its name, or is admitted with another one.
LEMMA NameStep ==
  ASSUME TypeOK, WorkerLive, [Next]_vars, NEW r \in Resources, Exists(store'[r])
  PROVE  \/ /\ Exists(store[r]) /\ store'[r].uid = store[r].uid
            /\ ServiceName(r, store'[r]) = ServiceName(r, store[r]) /\ adopted'[r] = adopted[r]
         \/ \E c \in Clients : \E o : Admits(c, o) /\ request[c].res = r /\ Renamed(request[c], o)
<1>1. store \in [Resources -> Objects] /\ adopted \in [Resources -> [at: Nat, over: Nat, asOf: [Apis -> Nat]]]
  BY DEF TypeOK
<1>2. CASE UNCHANGED <<server, adopted>>
  BY <1>2 DEF server
<1>3. ASSUME NEW t \in Resources, Erases(t)
      PROVE  /\ Exists(store[r]) /\ store'[r].uid = store[r].uid
             /\ ServiceName(r, store'[r]) = ServiceName(r, store[r]) /\ adopted'[r] = adopted[r]
  <2>1. store' = [store EXCEPT ![t] = Nothing] /\ adopted' = adopted
    BY <1>3 DEF Erases, Write
  <2>2. r # t
    BY <1>1, <2>1, NothingType DEF Exists
  <2> QED BY <1>1, <2>1, <2>2
<1>4. ASSUME NEW t \in Resources, NEW o, Shows(t, o)
      PROVE  /\ Exists(store[r]) /\ store'[r].uid = store[r].uid
             /\ ServiceName(r, store'[r]) = ServiceName(r, store[r]) /\ adopted'[r] = adopted[r]
  <2>1. /\ store' = [store EXCEPT ![t] = o] /\ adopted' = adopted /\ Exists(store[t])
        /\ o.uid = store[t].uid /\ o.alias = store[t].alias
    BY <1>4 DEF Shows, Write
  <2>2. CASE r = t
    BY <1>1, <2>1, <2>2 DEF ServiceName
  <2>3. CASE r # t
    BY <1>1, <2>1, <2>3
  <2> QED BY <2>2, <2>3
<1>5. ASSUME NEW c \in Clients, NEW o, Admits(c, o)
      PROVE  \/ /\ Exists(store[r]) /\ store'[r].uid = store[r].uid
                /\ ServiceName(r, store'[r]) = ServiceName(r, store[r]) /\ adopted'[r] = adopted[r]
             \/ request[c].res = r /\ Renamed(request[c], o)
  <2> DEFINE q == request[c]
  <2>1. /\ store' = [store EXCEPT ![q.res] = o] /\ store[q.res] = q.old
        /\ o.uid = IF Exists(q.old) THEN q.old.uid ELSE clock + 1
        /\ \/ Renamed(q, o) /\ adopted' = [adopted EXCEPT ![q.res] =
                                              [at |-> clock + 1, asOf |-> q.asOf, over |-> q.old.rv]]
           \/ ~Renamed(q, o) /\ adopted' = adopted
    BY <1>5 DEF Admits, Write
  <2> HIDE DEF q
  <2>2. CASE q.res = r /\ ~Renamed(q, o)
    BY <1>1, <2>1, <2>2 DEF Renamed
  <2>3. CASE q.res # r
    BY <1>1, <2>1, <2>3
  <2> QED BY <2>2, <2>3 DEF q
<1> QED BY <1>2, <1>3, <1>4, <1>5, StepWrites

LEMMA AdmitsEffect ==
  ASSUME TypeOK, NEW c \in Clients, NEW o, Admits(c, o), Renamed(request[c], o)
  PROVE  /\ request[c].res \in Resources /\ request[c] \in Requests /\ o \in Objects
         /\ clock' = clock + 1 /\ store'[request[c].res] = o
         /\ o.rv = clock + 1 /\ ServiceName(request[c].res, o) = ServiceName(request[c].res, request[c])
         /\ adopted'[request[c].res] = [at |-> clock + 1, asOf |-> request[c].asOf, over |-> request[c].old.rv]
         /\ Write(request[c].res, o) /\ UNCHANGED cache
<1>1. request[c] \in Requests /\ request[c].res \in Resources
  BY DEF Admits, Requests
<1>2. /\ clock' = clock + 1 /\ store' = [store EXCEPT ![request[c].res] = o]
      /\ adopted' = [adopted EXCEPT ![request[c].res] =
                       [at |-> clock + 1, asOf |-> request[c].asOf, over |-> request[c].old.rv]]
      /\ o.rv = clock + 1 /\ o.alias = request[c].alias /\ o \in Objects
  BY DEF Admits, Write
<1>3. ServiceName(request[c].res, o) = ServiceName(request[c].res, request[c])
  BY <1>2 DEF ServiceName
<1> QED BY <1>1, <1>2, <1>3 DEF TypeOK, Admits

LEMMA VersionMoves ==
  ASSUME TypeOK, WorkerLive, [Next]_vars, NEW r \in Resources, Exists(store'[r]), store'[r] # store[r]
  PROVE  \E o \in Objects : Write(r, o) /\ o.rv = clock + 1 /\ store'[r] = o
<1>1. ASSUME NEW t \in Resources, NEW o, Write(t, o) PROVE t = r /\ store'[r] = o
  BY <1>1 DEF Write, TypeOK
<1>2. ~UNCHANGED server
  BY DEF server
<1>3. ASSUME NEW t \in Resources, Erases(t) PROVE FALSE
  BY <1>1, <1>3, NothingType DEF Erases, Exists
<1> QED BY <1>1, <1>2, <1>3, StepWrites DEF Shows, Admits, Requests

LEMMA FollowStep == TypeOK /\ WorkerLive /\ LogInv /\ FollowInv /\ [Next]_vars => FollowInv'
<1> SUFFICES ASSUME TypeOK, WorkerLive, LogInv, FollowInv, [Next]_vars,
                    NEW r \in Resources, Exists(store'[r])
             PROVE  /\ adopted'[r].at \in 1..clock'
                    /\ Follows(r, adopted[r].at, Same(r, store[r]))'
                    /\ Follows(r, store[r].rv, {store[r]})'
  BY DEF FollowInv
<1>1. TypeOK' /\ clock \in Nat /\ clock' \in {clock, clock + 1} /\ store[r] \in Objects
  BY TypeStep, StoreStep DEF TypeOK
<1>2. store'[r] \in Objects
  BY <1>1 DEF TypeOK
<1>3. adopted'[r].at \in 1..clock' /\ Follows(r, adopted[r].at, Same(r, store[r]))'
  <2>1. CASE /\ Exists(store[r]) /\ store'[r].uid = store[r].uid
             /\ ServiceName(r, store'[r]) = ServiceName(r, store[r]) /\ adopted'[r] = adopted[r]
    <3>1. PICK v, S : v = adopted[r].at /\ S = Same(r, store[r])
      OBVIOUS
    <3>2. v \in 1..clock /\ Follows(r, v, S)
      BY <2>1, <3>1 DEF FollowInv
    <3>3. store'[r] \in S /\ Same(r, store[r])' = S
      BY <1>2, <2>1, <3>1 DEF Same
    <3>4. Follows(r, v, S)'
      BY <1>1, <3>2, <3>3, FollowsStep
    <3>5. adopted'[r].at = v
      BY <2>1, <3>1
    <3> QED BY <1>1, <3>2, <3>3, <3>4, <3>5
  <2>2. ASSUME NEW c \in Clients, NEW o, Admits(c, o), request[c].res = r, Renamed(request[c], o)
        PROVE  adopted'[r].at \in 1..clock' /\ Follows(r, adopted[r].at, Same(r, store[r]))'
    <3>1. PICK v, S : v = clock + 1 /\ S = Same(r, o)
      OBVIOUS
    <3>2. /\ o \in Objects /\ clock' = clock + 1 /\ store'[r] = o /\ Write(r, o)
          /\ adopted'[r].at = v
      <4>1. adopted'[r] = [at |-> clock + 1, asOf |-> request[c].asOf, over |-> request[c].old.rv]
        BY <2>2, AdmitsEffect
      <4> QED BY <2>2, <3>1, <4>1, AdmitsEffect
    <3>3. o \in S /\ Same(r, store[r])' = S
      BY <3>1, <3>2 DEF Same
    <3>4. Follows(r, v, S)'
      BY <3>1, <3>2, <3>3, FollowsNew
    <3> QED BY <1>1, <3>1, <3>2, <3>3, <3>4
  <2> QED BY <2>1, <2>2, NameStep
<1>4. Follows(r, store[r].rv, {store[r]})'
  <2>1. CASE store'[r] = store[r]
    <3>1. PICK v, S : v = store[r].rv /\ S = {store[r]}
      OBVIOUS
    <3>2. Follows(r, v, S) /\ store'[r] \in S /\ v \in Nat /\ v <= clock
      BY <1>1, <2>1, <3>1 DEF FollowInv, TypeOK, Objects
    <3>3. Follows(r, v, S)'
      BY <3>2, FollowsStep
    <3>4. store'[r].rv = v /\ {store[r]}' = S
      BY <2>1, <3>1
    <3> QED BY <3>3, <3>4
  <2>2. CASE store'[r] # store[r]
    <3>1. PICK o \in Objects : Write(r, o) /\ o.rv = clock + 1 /\ store'[r] = o
      BY <2>2, VersionMoves
    <3>2. PICK v, S : v = clock + 1 /\ S = {o}
      OBVIOUS
    <3>3. Follows(r, v, S)'
      BY <3>1, <3>2, FollowsNew
    <3>4. store'[r].rv = v /\ {store[r]}' = S
      BY <3>1, <3>2
    <3> QED BY <3>3, <3>4
  <2> QED BY <2>1, <2>2
<1> QED BY <1>3, <1>4

LEMMA FollowInit == Init => FollowInv /\ LogInv
<1> SUFFICES ASSUME Init PROVE FollowInv /\ LogInv
  OBVIOUS
<1>1. LogInv
  BY DEF Init, LogInv
<1>2. ASSUME NEW r \in Resources, Exists(store[r])
      PROVE  /\ adopted[r].at \in 1..clock
             /\ Follows(r, adopted[r].at, Same(r, store[r]))
             /\ Follows(r, store[r].rv, {store[r]})
  <2>1. PICK h \in Histories :
          /\ store = Settled(h) /\ clock = Len(h)
          /\ adopted = [s \in Resources |->
               [at |-> At(h, s), over |-> 0,
                asOf |-> [api \in Apis |-> IF At(h, s) = 0 THEN 0 ELSE h[At(h, s)].seen]]]
    BY DEF Init
  <2>2. At(h, r) # 0 /\ store[r].rv = At(h, r) /\ adopted[r].at = At(h, r)
    BY <1>2, <2>1, NothingType DEF Settled, Exists
  <2>3. At(h, r) \in 1..clock /\ clock \in Nat
    BY <2>1, <2>2, AtType
  <2>4. r[1] \in Apis /\ store[r] \in Objects
    BY TypeInit, RegistryAssumption DEF TypeOK
  <2>5. Pending(r[1]) = {} /\ Synced(r[1]) = clock /\ cache[r] = store[r]
    BY <2>4 DEF Init, Pending, Synced
  <2>6. store[r] \in Same(r, store[r])
    BY <2>4 DEF Same
  <2> QED BY <2>2, <2>3, <2>5, <2>6 DEF Follows
<1> QED BY <1>1, <1>2 DEF FollowInv

----------------------------------------------------------------------------
(* Admissions.  TwinsUnseen is not inductive: it needs what an admission in *)
(* flight has been told of the resources that have its name by now.  The    *)
(* ones a cache had seen when it was read must have been noticed, unless    *)
(* the new API shadows the legacy one, or the entry that convertToDict kept *)
(* was an old one of the resource itself.                                   *)

NewName(q) == ServiceName(q.res, q)

\* The write will be taken and gives the resource another name.
Renames(q) == Exists(q.old) => store[q.res] = q.old /\ ServiceName(q.res, q.old) # NewName(q)

\* The cache that was read had seen r take the name.
Rival(q, r) ==
  /\ r # q.res /\ Exists(store[r]) /\ ServiceName(r, store[r]) = NewName(q)
  /\ adopted[r].at <= q.asOf[r[1]]

\* The cache of the legacy API had not seen the version that is replaced.
Behind(q) == q.asOf["legacy"] < q.old.rv

HitInv(q) ==
  q.res[1] = "legacy" /\ Renames(q) =>
    \A h \in Range(q.hits) : h.name = NewName(q) =>
      \A r \in Of("legacy") : Rival(q, r) => h.uid # 0 /\ (h.uid # q.old.uid \/ Behind(q))

CheckedInv(q) ==
  Renames(q) /\ NewName(q) \notin q.left =>
    \A r \in Resources : Rival(q, r) => r[1] = "legacy" /\ (q.res[1] = "new" \/ Behind(q))

SeenSoFar(q) == \A api \in Apis : q.asOf[api] <= clock

RequestInv ==
  \A c \in Clients : request[c] # NoRequest =>
    SeenSoFar(request[c]) /\ HitInv(request[c]) /\ CheckedInv(request[c])

\* What the request of a client is about.
LEMMA RequestView ==
  ASSUME TypeOK, VersionInv, NEW c \in Clients, request[c] # NoRequest
  PROVE  /\ request[c] \in Requests /\ View(request[c].res, request[c].old)
         /\ request[c].old.rv <= clock /\ request[c].old.uid <= request[c].old.rv
<1>1. request[c] \in Requests
  BY DEF TypeOK
<1>2. request[c].old \in Objects /\ request[c].res \in Resources
  BY <1>1 DEF Requests
<1>3. View(request[c].res, request[c].old)
  BY DEF View
<1> QED BY <1>1, <1>2, <1>3 DEF VersionInv

\* Nothing that happens meanwhile makes a resource a rival that was none, and a write
\* that was outdated stays so.
LEMMA RequestKeeps ==
  ASSUME TypeOK, WorkerLive, [Next]_vars, NEW q \in Requests, SeenSoFar(q),
         q.old.rv <= clock, q.old.uid <= q.old.rv
  PROVE  /\ SeenSoFar(q)' /\ (HitInv(q) => HitInv(q)') /\ (CheckedInv(q) => CheckedInv(q)')
<1>1. /\ q.res \in Resources /\ q.old \in Objects /\ q.asOf \in [Apis -> Nat]
      /\ clock \in Nat /\ clock' \in {clock, clock + 1}
  BY StoreStep DEF Requests, TypeOK
<1>2. SeenSoFar(q)'
  BY <1>1 DEF SeenSoFar
<1>3. Renames(q)' => Renames(q)
  <2> SUFFICES ASSUME Exists(q.old), store'[q.res] = q.old PROVE store[q.res] = q.old
    BY DEF Renames, NewName
  <2>1. q.old.rv \in Nat /\ q.old.uid \in Nat
    BY <1>1 DEF Objects
  <2>2. q.old # Nothing /\ q.old.rv # clock + 1
    BY <1>1, <2>1, NothingType DEF Exists
  <2> QED BY <1>1, <2>2, StoreStep
<1>4. ASSUME NEW r \in Resources, Rival(q, r)' PROVE Rival(q, r)
  <2>1. r # q.res /\ Exists(store'[r]) /\ ServiceName(r, store'[r]) = NewName(q) /\ adopted'[r].at <= q.asOf[r[1]]
    BY <1>4 DEF Rival, NewName
  <2>2. ASSUME NEW c \in Clients, NEW o, Admits(c, o), request[c].res = r, Renamed(request[c], o)
        PROVE  FALSE
    <3>1. adopted'[r].at = clock + 1
      <4>1. adopted'[r] = [at |-> clock + 1, asOf |-> request[c].asOf, over |-> request[c].old.rv]
        BY <2>2, AdmitsEffect
      <4> QED BY <4>1
    <3>2. q.asOf[r[1]] <= clock /\ q.asOf[r[1]] \in Nat
      BY <1>1, RegistryAssumption DEF SeenSoFar
    <3> QED BY <1>1, <2>1, <3>1, <3>2
  <2> QED BY <2>1, <2>2, NameStep DEF Rival
<1>5. HitInv(q) => HitInv(q)'
  BY <1>3, <1>4 DEF HitInv, NewName, Behind, Of
<1>6. CheckedInv(q) => CheckedInv(q)'
  BY <1>3, <1>4 DEF CheckedInv, NewName, Behind
<1> QED BY <1>2, <1>5, <1>6

----------------------------------------------------------------------------
(* What the webhooks find in the caches. *)

LEMMA CachedUser ==
  ASSUME TypeOK, FollowInv, NEW r \in Resources, Exists(store[r]), adopted[r].at <= Synced(r[1])
  PROVE  /\ cache[r].uid = store[r].uid /\ Exists(cache[r])
         /\ r \in Users(cache, r[1], ServiceName(r, store[r]))
<1>1. cache[r] \in Same(r, store[r])
  BY DEF FollowInv, Follows
<1> QED BY <1>1 DEF Same, Users, Of, Exists

LEMMA EntryOwner ==
  ASSUME TypeOK, NEW api \in Apis, NEW n, Users(cache, api, n) # {}, NEW uid \in Entries(cache, api, n)
  PROVE  \E t \in Of(api) : /\ t \in Resources /\ t[1] = api /\ cache[t] \in Objects
                            /\ uid = cache[t].uid /\ uid # 0 /\ Exists(cache[t])
                            /\ ServiceName(t, cache[t]) = n /\ View(t, cache[t])
<1>1. PICK t \in Users(cache, api, n) : uid = cache[t].uid
  BY DEF Entries
<1>2. t \in Of(api) /\ t \in Resources /\ t[1] = api
  BY DEF Users, Of
<1> QED BY <1>1, <1>2 DEF Users, Exists, View, TypeOK

\* An entry the legacy list may show for a name that a rival has.
LEMMA ListedHit ==
  ASSUME TypeOK, UidInv, FollowInv, NEW q \in Requests, View(q.res, q.old), Renames(q),
         q.res[1] = "legacy", NEW uid \in Entries(cache, "legacy", NewName(q)),
         NEW r \in Of("legacy"), Exists(store[r]), ServiceName(r, store[r]) = NewName(q),
         adopted[r].at <= Synced("legacy")
  PROVE  uid # 0 /\ (uid # q.old.uid \/ Synced("legacy") < q.old.rv)
<1>1. r \in Resources /\ r[1] = "legacy" /\ "legacy" \in Apis /\ q.res \in Resources /\ q.old \in Objects
  BY DEF Of, Apis, Requests
<1>2. Users(cache, "legacy", NewName(q)) # {}
  BY <1>1, CachedUser
<1>3. PICK t \in Of("legacy") :
        /\ t \in Resources /\ t[1] = "legacy" /\ cache[t] \in Objects
        /\ uid = cache[t].uid /\ uid # 0 /\ Exists(cache[t])
        /\ ServiceName(t, cache[t]) = NewName(q) /\ View(t, cache[t])
  BY <1>1, <1>2, EntryOwner
<1>4. ASSUME uid = q.old.uid, ~(Synced("legacy") < q.old.rv) PROVE FALSE
  <2>1. t = q.res
    BY <1>1, <1>3, <1>4, UidsApart
  <2>2. store[t] = q.old /\ ServiceName(t, q.old) # NewName(q) /\ Exists(store[t])
    BY <1>3, <1>4, <2>1 DEF Renames, Exists
  <2>3. store[t].rv <= Synced("legacy")
    <3>1. Synced("legacy") \in Nat /\ q.old.rv \in Nat
      BY <1>1, SyncedType DEF Objects
    <3> QED BY <1>4, <2>2, <3>1
  <2>4. cache[t] = store[t]
    BY <1>3, <2>2, <2>3 DEF FollowInv, Follows
  <2> QED BY <1>3, <2>2, <2>4
<1> QED BY <1>3, <1>4

\* What the new API shows under a name that a rival there has is another resource's.
LEMMA NewTaken ==
  ASSUME TypeOK, UidInv, FollowInv, NEW q \in Requests, View(q.res, q.old),
         NEW r \in Of("new"), r # q.res, Exists(store[r]), ServiceName(r, store[r]) = NewName(q),
         adopted[r].at <= Synced("new")
  PROVE  \E uid \in Entries(cache, "new", NewName(q)) : uid # 0 /\ uid # q.old.uid
<1>1. r \in Resources /\ r[1] = "new" /\ "new" \in Apis /\ q.res \in Resources /\ q.old \in Objects
  BY DEF Of, Apis, Requests
<1>2. r \in Users(cache, "new", NewName(q)) /\ Exists(cache[r])
  BY <1>1, CachedUser
<1>3. cache[r].uid \in Entries(cache, "new", NewName(q))
  BY <1>2 DEF Entries
<1>4. cache[r] \in Objects /\ View(r, cache[r])
  BY <1>1 DEF TypeOK, View
<1> QED BY <1>1, <1>2, <1>3, <1>4, UidsApart DEF Exists

LEMMA NewEntry ==
  ASSUME TypeOK, UidInv, NEW q \in Requests, View(q.res, q.old), q.res[1] = "legacy", NEW n,
         NEW uid \in Entries(cache, "new", n), uid # 0
  PROVE  uid # q.old.uid
<1>1. Users(cache, "new", n) # {}
  BY DEF Entries
<1>2. PICK t \in Of("new") :
        /\ t \in Resources /\ t[1] = "new" /\ cache[t] \in Objects
        /\ uid = cache[t].uid /\ Exists(cache[t]) /\ View(t, cache[t])
  BY <1>1, EntryOwner DEF Apis
<1>3. q.res \in Resources /\ q.old \in Objects
  BY DEF Requests
<1> QED BY <1>2, <1>3, UidsApart

----------------------------------------------------------------------------
(* The steps of the webhooks. *)

\* A request that is about the same write.
LEMMA SameWrite ==
  ASSUME NEW p, NEW q, p.res = q.res, p.old = q.old, p.alias = q.alias
  PROVE  NewName(p) = NewName(q) /\ (Renames(p) <=> Renames(q))
BY DEF NewName, Renames, ServiceName

LEMMA Frozen ==
  ASSUME UNCHANGED <<server, adopted>>, NEW q
  PROVE  /\ SeenSoFar(q) => SeenSoFar(q)'
         /\ HitInv(q) => HitInv(q)'
         /\ CheckedInv(q) => CheckedInv(q)'
BY DEF server, SeenSoFar, HitInv, CheckedInv, Renames, Rival, NewName, Behind

LEMMA RangeAppend ==
  ASSUME NEW S, NEW s \in Seq(S), NEW e \in S, NEW h \in Range(Append(s, e))
  PROVE  h \in Range(s) \/ h = e
<1>1. PICK i \in DOMAIN Append(s, e) : h = Append(s, e)[i]
  BY DEF Range
<1>2. /\ Append(s, e) \in Seq(S) /\ Len(Append(s, e)) = Len(s) + 1 /\ Len(s) \in Nat
      /\ \A j \in 1..Len(s) : Append(s, e)[j] = s[j]
      /\ Append(s, e)[Len(s) + 1] = e
  BY AppendProperties, LenProperties
<1>3. DOMAIN Append(s, e) = 1..(Len(s) + 1) /\ DOMAIN s = 1..Len(s)
  BY <1>2, LenProperties
<1>4. CASE i = Len(s) + 1
  BY <1>1, <1>2, <1>4
<1>5. CASE i # Len(s) + 1
  <2>1. i \in 1..Len(s) /\ h = s[i]
    BY <1>1, <1>2, <1>3, <1>5
  <2> QED BY <1>3, <2>1 DEF Range
<1> QED BY <1>4, <1>5

\* The legacy resources have been listed for one more name.
Listed(q, n, uid) ==
  [q EXCEPT !.hits = Append(q.hits, [name |-> n, uid |-> uid]),
            !.asOf["legacy"] = IF n = NewName(q) THEN Synced("legacy") ELSE q.asOf["legacy"]]

\* One more name has been found free.
Passed(q, n) ==
  [q EXCEPT !.left = q.left \ {n},
            !.asOf["new"] = IF n = NewName(q) THEN Synced("new") ELSE q.asOf["new"]]

LEMMA ListedFields ==
  ASSUME TypeOK, NEW q \in Requests, NEW n \in Names, NEW uid \in Nat
  PROVE  /\ Listed(q, n, uid).res = q.res /\ Listed(q, n, uid).old = q.old
         /\ Listed(q, n, uid).alias = q.alias /\ Listed(q, n, uid).left = q.left
         /\ Listed(q, n, uid).hits = Append(q.hits, [name |-> n, uid |-> uid])
         /\ Listed(q, n, uid).asOf["new"] = q.asOf["new"]
         /\ Listed(q, n, uid).asOf["legacy"] =
              IF n = NewName(q) THEN Synced("legacy") ELSE q.asOf["legacy"]
         /\ \A h \in Range(Listed(q, n, uid).hits) :
              h \in Range(q.hits) \/ h = [name |-> n, uid |-> uid]
<1>1. q.hits \in Seq([name: Names, uid: Nat]) /\ q.asOf \in [Apis -> Nat]
  BY DEF Requests
<1>2. [name |-> n, uid |-> uid] \in [name: Names, uid: Nat]
  OBVIOUS
<1>3. \A h \in Range(Append(q.hits, [name |-> n, uid |-> uid])) :
        h \in Range(q.hits) \/ h = [name |-> n, uid |-> uid]
  <2>1. PICK e, S : e = [name |-> n, uid |-> uid] /\ S = [name: Names, uid: Nat]
    OBVIOUS
  <2>2. e \in S /\ q.hits \in Seq(S)
    BY <1>1, <1>2, <2>1
  <2>3. \A h \in Range(Append(q.hits, e)) : h \in Range(q.hits) \/ h = e
    BY <2>2, RangeAppend, Zenon
  <2> QED BY <2>1, <2>3
<1>4. "legacy" \in Apis /\ "new" \in Apis
  BY DEF Apis
<1>5. /\ Listed(q, n, uid).res = q.res /\ Listed(q, n, uid).old = q.old
      /\ Listed(q, n, uid).alias = q.alias /\ Listed(q, n, uid).left = q.left
      /\ Listed(q, n, uid).hits = Append(q.hits, [name |-> n, uid |-> uid])
      /\ Listed(q, n, uid).asOf =
           [q.asOf EXCEPT !["legacy"] = IF n = NewName(q) THEN Synced("legacy") ELSE q.asOf["legacy"]]
  BY DEF Listed, Requests
<1> QED BY <1>1, <1>3, <1>4, <1>5

LEMMA PassedFields ==
  ASSUME TypeOK, NEW q \in Requests, NEW n \in Names
  PROVE  /\ Passed(q, n).res = q.res /\ Passed(q, n).old = q.old
         /\ Passed(q, n).alias = q.alias /\ Passed(q, n).left = q.left \ {n}
         /\ Passed(q, n).hits = q.hits
         /\ Passed(q, n).asOf["legacy"] = q.asOf["legacy"]
         /\ Passed(q, n).asOf["new"] = IF n = NewName(q) THEN Synced("new") ELSE q.asOf["new"]
<1>1. q.asOf \in [Apis -> Nat] /\ "legacy" \in Apis /\ "new" \in Apis
  BY DEF Requests, Apis
<1>2. /\ Passed(q, n).res = q.res /\ Passed(q, n).old = q.old
      /\ Passed(q, n).alias = q.alias /\ Passed(q, n).left = q.left \ {n}
      /\ Passed(q, n).hits = q.hits
      /\ Passed(q, n).asOf =
           [q.asOf EXCEPT !["new"] = IF n = NewName(q) THEN Synced("new") ELSE q.asOf["new"]]
  BY DEF Passed, Requests
<1> QED BY <1>1, <1>2

LEMMA ListedKeeps ==
  ASSUME TypeOK, UidInv, FollowInv, NEW q \in Requests, View(q.res, q.old),
         SeenSoFar(q), HitInv(q), CheckedInv(q), q.res[1] = "legacy",
         NEW n \in q.left, \A h \in Range(q.hits) : h.name # n,
         NEW uid \in Entries(cache, "legacy", n)
  PROVE  SeenSoFar(Listed(q, n, uid)) /\ HitInv(Listed(q, n, uid)) /\ CheckedInv(Listed(q, n, uid))
<1>1. PICK p : p = Listed(q, n, uid)
  OBVIOUS
<1>2. /\ p.res = q.res /\ p.old = q.old /\ p.alias = q.alias /\ p.left = q.left
      /\ p.asOf["new"] = q.asOf["new"]
      /\ p.asOf["legacy"] = IF n = NewName(q) THEN Synced("legacy") ELSE q.asOf["legacy"]
      /\ \A h \in Range(p.hits) : h \in Range(q.hits) \/ h = [name |-> n, uid |-> uid]
  <2>1. n \in Names /\ uid \in Nat
    BY EntryType DEF Requests
  <2> QED BY <1>1, <2>1, ListedFields
<1>3. NewName(p) = NewName(q) /\ (Renames(p) <=> Renames(q))
  BY <1>2, SameWrite
<1>4. SeenSoFar(p)
  BY <1>2, SyncedType DEF SeenSoFar, Apis
<1>5. \A r \in Resources : r[1] = "new" \/ n # NewName(q) => (Rival(p, r) <=> Rival(q, r))
  BY <1>2, <1>3, RegistryAssumption DEF Rival, Apis
<1>6. CASE n # NewName(q)
  <2>1. Behind(p) <=> Behind(q)
    BY <1>2, <1>6 DEF Behind
  <2>2. \A r \in Resources : Rival(p, r) <=> Rival(q, r)
    BY <1>5, <1>6
  <2>3. HitInv(p)
    BY <1>2, <1>3, <1>6, <2>1, <2>2 DEF HitInv, Of
  <2>4. CheckedInv(p)
    BY <1>2, <1>3, <2>1, <2>2 DEF CheckedInv
  <2> QED BY <1>1, <1>4, <2>3, <2>4
<1>7. CASE n = NewName(q)
  <2>1. CheckedInv(p)
    BY <1>2, <1>3, <1>7 DEF CheckedInv
  <2>2. HitInv(p)
    <3> SUFFICES ASSUME Renames(q), NEW h \in Range(p.hits), h.name = n,
                        NEW r \in Of("legacy"), Rival(p, r)
                 PROVE  h.uid # 0 /\ (h.uid # p.old.uid \/ Behind(p))
      BY <1>3, <1>7 DEF HitInv
    <3>1. h.uid = uid
      BY <1>2
    <3>2. /\ Exists(store[r]) /\ ServiceName(r, store[r]) = NewName(q)
          /\ adopted[r].at <= Synced("legacy")
      BY <1>2, <1>3, <1>7 DEF Rival, Of
    <3>3. uid # 0 /\ (uid # q.old.uid \/ Synced("legacy") < q.old.rv)
      BY <1>7, <3>2, ListedHit
    <3> QED BY <1>2, <1>7, <3>1, <3>3 DEF Behind
  <2> QED BY <1>1, <1>4, <2>1, <2>2
<1> QED BY <1>6, <1>7

\* An answer of the webhooks that agrees.
Free(q, n) ==
  IF q.res[1] = "new"
  THEN ~ \E uid \in Entries(cache, "new", n) : Taken(uid, q.old.uid)
  ELSE \E h \in Range(q.hits), uid \in Entries(cache, "new", n) :
         h.name = n /\ ~Taken(Shadowed(uid, h.uid), q.old.uid)

LEMMA PassedKeeps ==
  ASSUME TypeOK, UidInv, FollowInv, NEW q \in Requests, View(q.res, q.old),
         SeenSoFar(q), HitInv(q), CheckedInv(q), NEW n \in q.left, Free(q, n)
  PROVE  SeenSoFar(Passed(q, n)) /\ HitInv(Passed(q, n)) /\ CheckedInv(Passed(q, n))
<1>1. PICK p : p = Passed(q, n)
  OBVIOUS
<1>2. /\ p.res = q.res /\ p.old = q.old /\ p.alias = q.alias /\ p.left = q.left \ {n}
      /\ p.hits = q.hits /\ p.asOf["legacy"] = q.asOf["legacy"]
      /\ p.asOf["new"] = IF n = NewName(q) THEN Synced("new") ELSE q.asOf["new"]
  <2>1. n \in Names
    BY DEF Requests
  <2> QED BY <1>1, <2>1, PassedFields
<1>3. /\ NewName(p) = NewName(q) /\ (Renames(p) <=> Renames(q)) /\ (Behind(p) <=> Behind(q))
  BY <1>2, SameWrite DEF Behind
<1>4. SeenSoFar(p)
  BY <1>2, SyncedType DEF SeenSoFar, Apis
<1>5. \A r \in Resources : r[1] = "legacy" \/ n # NewName(q) => (Rival(p, r) <=> Rival(q, r))
  BY <1>2, <1>3, RegistryAssumption DEF Rival, Apis
<1>6. HitInv(p)
  BY <1>2, <1>3, <1>5 DEF HitInv, Of
<1>7. CASE n # NewName(q)
  <2>1. CheckedInv(p)
    BY <1>2, <1>3, <1>5, <1>7 DEF CheckedInv
  <2> QED BY <1>1, <1>4, <1>6, <2>1
<1>8. CASE n = NewName(q)
  <2>1. q.res \in Resources /\ q.res[1] \in Apis
    BY RegistryAssumption DEF Requests
  <2> SUFFICES ASSUME Renames(q), NEW r \in Resources, Rival(p, r)
               PROVE  r[1] = "legacy" /\ (q.res[1] = "new" \/ Behind(q))
    BY <1>1, <1>2, <1>3, <1>4, <1>6 DEF CheckedInv
  <2>2. r # q.res /\ Exists(store[r]) /\ ServiceName(r, store[r]) = n /\ r[1] \in Apis
    BY <1>2, <1>3, <1>8, RegistryAssumption DEF Rival
  <2>3. CASE r[1] = "new"
    <3>1. adopted[r].at <= Synced("new") /\ r \in Of("new")
      BY <1>2, <1>8, <2>3 DEF Rival, Of
    <3>2. PICK uid \in Entries(cache, "new", n) : uid # 0 /\ uid # q.old.uid
      BY <1>8, <2>2, <3>1, NewTaken
    <3>3. q.res[1] = "legacy"
      BY <2>1, <3>2 DEF Free, Taken, Apis
    <3>4. \A u \in Entries(cache, "new", n) : u # 0 /\ u # q.old.uid
      <4>1. Users(cache, "new", n) # {}
        BY <3>2 DEF Entries
      <4>2. \A u \in Entries(cache, "new", n) : u # 0
        BY <4>1, EntryOwner DEF Apis
      <4> QED BY <3>3, <4>2, NewEntry
    <3> QED BY <3>3, <3>4 DEF Free, Taken, Shadowed
  <2>4. CASE r[1] = "legacy" /\ q.res[1] = "legacy"
    <3>1. PICK h \in Range(q.hits), uid \in Entries(cache, "new", n) :
            h.name = n /\ ~Taken(Shadowed(uid, h.uid), q.old.uid)
      BY <2>4 DEF Free
    <3>2. uid = 0
      BY <2>4, <3>1, NewEntry DEF Taken, Shadowed
    <3>3. h.uid = 0 \/ h.uid = q.old.uid
      BY <3>1, <3>2 DEF Taken, Shadowed
    <3>4. r \in Of("legacy") /\ Rival(q, r)
      BY <1>5, <2>4 DEF Of
    <3> QED BY <1>8, <2>4, <3>1, <3>3, <3>4 DEF HitInv
  <2> QED BY <2>1, <2>2, <2>3, <2>4 DEF Apis
<1> QED BY <1>7, <1>8

\* What a step does to the admission of a client that it does not end.
LEMMA RequestSteps ==
  ASSUME TypeOK, [Next]_vars, NEW c \in Clients, request'[c] # NoRequest
  PROVE  \/ request'[c] = request[c]
         \/ /\ UNCHANGED <<server, adopted>>
            /\ \/ \E r \in Resources : \E alias \in Writable(r) :
                    request'[c] = [pc |-> "check", res |-> r, alias |-> alias, old |-> store[r],
                                   left |-> Checked(r, alias), hits |-> <<>>,
                                   asOf |-> [api \in Apis |-> 0]]
               \/ /\ request[c] \in Requests /\ request[c] # NoRequest
                  /\ \E n \in request[c].left :
                       \/ /\ request[c].res[1] = "legacy" /\ \A h \in Range(request[c].hits) : h.name # n
                          /\ \E uid \in Entries(cache, "legacy", n) :
                               request'[c] = Listed(request[c], n, uid)
                       \/ Free(request[c], n) /\ request'[c] = Passed(request[c], n)
<1>1. request \in [Clients -> Requests \cup {NoRequest}]
  BY DEF TypeOK
<1>2. CASE UNCHANGED request
  BY <1>2
<1>3. ASSUME NEW d \in Clients, NEW r \in Resources, NEW alias, Submit(d, r, alias)
      PROVE  \/ request'[c] = request[c]
             \/ /\ UNCHANGED <<server, adopted>> /\ alias \in Writable(r)
                /\ request'[c] = [pc |-> "check", res |-> r, alias |-> alias, old |-> store[r],
                                  left |-> Checked(r, alias), hits |-> <<>>,
                                  asOf |-> [api \in Apis |-> 0]]
  <2>1. CASE d = c
    BY <1>1, <1>3, <2>1 DEF Submit
  <2>2. CASE d # c
    BY <1>1, <1>3, <2>2 DEF Submit
  <2> QED BY <2>1, <2>2
<1>4. ASSUME NEW d \in Clients, Persist(d) PROVE request'[c] = request[c]
  <2>1. request' = [request EXCEPT ![d] = NoRequest]
    BY <1>4 DEF Persist
  <2> QED BY <1>1, <2>1
<1>5. ASSUME NEW d \in Clients, NEW n \in Names, ListLegacy(d, n) \/ CheckLegacy(d, n) \/ CheckNew(d, n)
      PROVE  \/ request'[c] = request[c]
             \/ /\ UNCHANGED <<server, adopted>>
                /\ request[c] \in Requests /\ request[c] # NoRequest /\ n \in request[c].left
                /\ \/ /\ request[c].res[1] = "legacy" /\ \A h \in Range(request[c].hits) : h.name # n
                      /\ \E uid \in Entries(cache, "legacy", n) :
                           request'[c] = Listed(request[c], n, uid)
                   \/ Free(request[c], n) /\ request'[c] = Passed(request[c], n)
  <2>1. CASE d # c
    <3>1. CASE ListLegacy(d, n)
      BY <1>1, <2>1, <3>1 DEF ListLegacy
    <3>2. CASE CheckLegacy(d, n) \/ CheckNew(d, n)
      <4>1. PICK taken \in BOOLEAN : Verdict(d, n, taken)
        BY <3>2 DEF CheckLegacy, CheckNew, Taken
      <4> QED BY <1>1, <2>1, <4>1 DEF Verdict
    <3> QED BY <1>5, <3>1, <3>2
  <2>2. CASE d = c
    <3>1. /\ request[c].pc = "check" /\ n \in request[c].left
          /\ UNCHANGED <<server, adopted>>
      BY <1>5, <2>2 DEF ListLegacy, CheckLegacy, CheckNew
    <3>2. request[c] \in Requests /\ request[c] # NoRequest
      BY <3>1, InFlight
    <3>3. CASE ListLegacy(c, n)
      <4>1. PICK uid \in Entries(cache, "legacy", n) :
              request' = [request EXCEPT ![c].hits = Append(@, [name |-> n, uid |-> uid]),
                            ![c].asOf["legacy"] =
                              IF n = ServiceName(request[c].res, request[c]) THEN Synced("legacy") ELSE @]
        BY <3>3 DEF ListLegacy
      <4>2. request'[c] = Listed(request[c], n, uid)
        BY <1>1, <4>1 DEF Listed, NewName
      <4> QED BY <3>1, <3>2, <3>3, <4>2 DEF ListLegacy
    <3>4. CASE CheckLegacy(c, n)
      <4>1. PICK h \in Range(request[c].hits), uid \in Entries(cache, "new", n) :
              h.name = n /\ Verdict(c, n, Taken(Shadowed(uid, h.uid), request[c].old.uid))
        BY <3>4 DEF CheckLegacy
      <4>2. ~Taken(Shadowed(uid, h.uid), request[c].old.uid)
        BY <1>1, <4>1 DEF Verdict
      <4>3. request'[c] = Passed(request[c], n)
        BY <1>1, <4>1, <4>2 DEF Verdict, Passed, NewName
      <4>4. Free(request[c], n)
        BY <3>4, <4>1, <4>2 DEF Free, CheckLegacy
      <4> QED BY <3>1, <3>2, <4>3, <4>4
    <3>5. CASE CheckNew(c, n)
      <4>1. /\ request[c].res[1] = "new"
            /\ Verdict(c, n, \E uid \in Entries(cache, "new", n) : Taken(uid, request[c].old.uid))
        BY <3>5 DEF CheckNew
      <4>2. ~\E uid \in Entries(cache, "new", n) : Taken(uid, request[c].old.uid)
        BY <1>1, <4>1 DEF Verdict
      <4>3. request'[c] = Passed(request[c], n)
        BY <1>1, <4>1, <4>2 DEF Verdict, Passed, NewName
      <4> QED BY <3>1, <3>2, <4>1, <4>2, <4>3 DEF Free
    <3> QED BY <1>5, <2>2, <3>3, <3>4, <3>5
  <2> QED BY <2>1, <2>2
<1>6. ASSUME Restart PROVE request'[c] = request[c]
  BY <1>6 DEF Restart
<1>7. ASSUME NEW r \in Resources, Delete(r) PROVE UNCHANGED request
  BY <1>7 DEF Delete
<1>8. ASSUME NEW api \in Apis, Controller(api) PROVE UNCHANGED request
  BY <1>8 DEF Controller, Deliver, Reconcile, UpdateStatus
<1>9. CASE UNCHANGED vars
  BY <1>2, <1>9 DEF vars
<1>10. CASE Next
  <2>1. CASE \E d \in Clients : Client(d)
    BY <1>3, <1>4, <2>1 DEF Client
  <2>2. CASE \E d \in Clients : Webhook(d)
    <3>1. PICK d \in Clients, n \in Names : ListLegacy(d, n) \/ CheckLegacy(d, n) \/ CheckNew(d, n)
      BY <2>2 DEF Webhook
    <3> QED BY <1>5, <3>1
  <2> QED BY <1>2, <1>6, <1>7, <1>8, <1>10, <2>1, <2>2 DEF Next
<1> QED BY <1>9, <1>10

LEMMA SubmitKeeps ==
  ASSUME TypeOK, NEW r \in Resources, NEW alias \in Writable(r), NEW q,
         q = [pc |-> "check", res |-> r, alias |-> alias, old |-> store[r],
              left |-> Checked(r, alias), hits |-> <<>>, asOf |-> [api \in Apis |-> 0]]
  PROVE  SeenSoFar(q) /\ HitInv(q) /\ CheckedInv(q)
<1>1. SeenSoFar(q)
  BY DEF SeenSoFar, TypeOK
<1>2. HitInv(q)
  <2>1. Range(q.hits) = {}
    BY DEF Range
  <2> QED BY <2>1 DEF HitInv
<1>3. CheckedInv(q)
  <2>1. NewName(q) \in q.left
    BY CheckedType DEF NewName, ServiceName
  <2> QED BY <2>1 DEF CheckedInv
<1> QED BY <1>1, <1>2, <1>3

LEMMA RequestStep ==
  TypeOK /\ VersionInv /\ UidInv /\ FollowInv /\ RequestInv /\ [Next]_vars => RequestInv'
<1> SUFFICES ASSUME TypeOK, VersionInv, UidInv, FollowInv, RequestInv, [Next]_vars,
                    NEW c \in Clients, request'[c] # NoRequest
             PROVE  (SeenSoFar(request[c]) /\ HitInv(request[c]) /\ CheckedInv(request[c]))'
  BY DEF RequestInv
<1>1. PICK p : p = request'[c]
  OBVIOUS
<1>2. WorkerLive
  BY DEF VersionInv
<1> SUFFICES SeenSoFar(p)' /\ HitInv(p)' /\ CheckedInv(p)'
  BY <1>1
<1>3. CASE request'[c] = request[c]
  <2>1. /\ p \in Requests /\ p.old.rv <= clock /\ p.old.uid <= p.old.rv
        /\ SeenSoFar(p) /\ HitInv(p) /\ CheckedInv(p)
    BY <1>1, <1>3, RequestView DEF RequestInv
  <2> QED BY <1>2, <2>1, RequestKeeps
<1>4. ASSUME UNCHANGED <<server, adopted>>, NEW r \in Resources, NEW alias \in Writable(r),
             p = [pc |-> "check", res |-> r, alias |-> alias, old |-> store[r],
                  left |-> Checked(r, alias), hits |-> <<>>, asOf |-> [api \in Apis |-> 0]]
      PROVE  SeenSoFar(p)' /\ HitInv(p)' /\ CheckedInv(p)'
  BY <1>4, SubmitKeeps, Frozen
<1>5. ASSUME UNCHANGED <<server, adopted>>, request[c] \in Requests, request[c] # NoRequest,
             NEW n \in request[c].left, request[c].res[1] = "legacy",
             \A h \in Range(request[c].hits) : h.name # n,
             NEW uid \in Entries(cache, "legacy", n), p = Listed(request[c], n, uid)
      PROVE  SeenSoFar(p)' /\ HitInv(p)' /\ CheckedInv(p)'
  <2>1. View(request[c].res, request[c].old)
    BY <1>5, RequestView
  <2>2. SeenSoFar(p) /\ HitInv(p) /\ CheckedInv(p)
    BY <1>5, <2>1, ListedKeeps DEF RequestInv
  <2> QED BY <1>5, <2>2, Frozen
<1>6. ASSUME UNCHANGED <<server, adopted>>, request[c] \in Requests, request[c] # NoRequest,
             NEW n \in request[c].left, Free(request[c], n), p = Passed(request[c], n)
      PROVE  SeenSoFar(p)' /\ HitInv(p)' /\ CheckedInv(p)'
  <2>1. View(request[c].res, request[c].old)
    BY <1>6, RequestView
  <2>2. SeenSoFar(p) /\ HitInv(p) /\ CheckedInv(p)
    BY <1>6, <2>1, PassedKeeps DEF RequestInv
  <2> QED BY <1>6, <2>2, Frozen
<1> QED BY <1>1, <1>3, <1>4, <1>5, <1>6, RequestSteps

LEMMA RequestInit == Init => RequestInv
BY DEF Init, RequestInv

----------------------------------------------------------------------------
(* Two users of one name. *)

Twins(r, s) ==
  /\ r # s /\ Exists(store[r]) /\ Exists(store[s])
  /\ ServiceName(r, store[r]) = ServiceName(s, store[s])
  /\ adopted[r].at < adopted[s].at

Unseen(r, s) ==
  \/ r[1] = "legacy" /\ s[1] = "new"
  \/ adopted[s].asOf[r[1]] < adopted[r].at
  \/ r[1] = "legacy" /\ s[1] = "legacy" /\ adopted[s].asOf["legacy"] < adopted[s].over

LEMMA TwinsDef == TwinsUnseen <=> \A r, s \in Resources : Twins(r, s) => Unseen(r, s)
BY DEF TwinsUnseen, Twins, Unseen

LEMMA TwinsDefNext == TwinsUnseen' <=> \A r, s \in Resources : Twins(r, s)' => Unseen(r, s)'
BY DEF TwinsUnseen, Twins, Unseen

LEMMA TwinsStep ==
  TypeOK /\ VersionInv /\ FollowInv /\ FollowInv' /\ RequestInv /\ TwinsUnseen /\ [Next]_vars
    => TwinsUnseen'
<1> SUFFICES ASSUME TypeOK, VersionInv, FollowInv, FollowInv', RequestInv, TwinsUnseen, [Next]_vars,
                    NEW r \in Resources, NEW s \in Resources, Twins(r, s)'
             PROVE  Unseen(r, s)'
  BY TwinsDefNext
<1>1. /\ r # s /\ Exists(store'[r]) /\ Exists(store'[s])
      /\ ServiceName(r, store'[r]) = ServiceName(s, store'[s])
      /\ adopted'[r].at < adopted'[s].at
  BY DEF Twins
<1>2. /\ WorkerLive /\ clock \in Nat /\ clock' \in {clock, clock + 1}
      /\ adopted'[r].at \in 1..clock' /\ adopted'[s].at \in 1..clock'
  BY <1>1, StoreStep DEF VersionInv, FollowInv
<1>3. /\ Exists(store[r]) /\ store'[r].uid = store[r].uid
      /\ ServiceName(r, store'[r]) = ServiceName(r, store[r]) /\ adopted'[r] = adopted[r]
  <2>1. ASSUME NEW c \in Clients, NEW o, Admits(c, o), request[c].res = r, Renamed(request[c], o)
        PROVE  FALSE
    <3>1. adopted'[r] = [at |-> clock + 1, asOf |-> request[c].asOf, over |-> request[c].old.rv]
      BY <2>1, AdmitsEffect
    <3> QED BY <1>1, <1>2, <3>1
  <2> QED BY <1>1, <1>2, <2>1, NameStep
<1>4. CASE /\ Exists(store[s]) /\ store'[s].uid = store[s].uid
           /\ ServiceName(s, store'[s]) = ServiceName(s, store[s]) /\ adopted'[s] = adopted[s]
  <2>1. Twins(r, s)
    BY <1>1, <1>3, <1>4 DEF Twins
  <2>2. Unseen(r, s)
    BY <2>1, TwinsDef
  <2> QED BY <1>3, <1>4, <2>2 DEF Unseen
<1>5. ASSUME NEW c \in Clients, NEW o, Admits(c, o), request[c].res = s, Renamed(request[c], o)
      PROVE  Unseen(r, s)'
  <2>1. PICK q : q = request[c]
    OBVIOUS
  <2>2. /\ q \in Requests /\ q # NoRequest /\ q.left = {} /\ store[s] = q.old /\ q.res = s
        /\ store'[s] = o /\ ServiceName(s, o) = NewName(q)
        /\ adopted'[s] = [at |-> clock + 1, asOf |-> q.asOf, over |-> q.old.rv]
    BY <1>5, <2>1, AdmitsEffect DEF Admits, NewName
  <2>3. Renames(q)
    BY <1>5, <2>1, <2>2 DEF Renames, Renamed
  <2>4. CheckedInv(q)
    BY <2>1, <2>2 DEF RequestInv
  <2>5. \A t \in Resources : Rival(q, t) => t[1] = "legacy" /\ (q.res[1] = "new" \/ Behind(q))
    BY <2>2, <2>3, <2>4 DEF CheckedInv
  <2>6. CASE Rival(q, r)
    <3>1. r[1] = "legacy" /\ (s[1] = "new" \/ q.asOf["legacy"] < q.old.rv)
      BY <2>2, <2>5, <2>6 DEF Behind
    <3>2. s[1] \in Apis
      BY RegistryAssumption
    <3> QED BY <2>2, <3>1, <3>2 DEF Unseen, Apis
  <2>7. CASE ~Rival(q, r)
    <3>1. ~(adopted[r].at <= q.asOf[r[1]])
      BY <1>1, <1>3, <2>2, <2>7 DEF Rival
    <3>2. adopted[r].at \in Nat /\ q.asOf[r[1]] \in Nat
      BY <2>2, RegistryAssumption DEF TypeOK, Requests
    <3>3. adopted'[s].asOf[r[1]] < adopted'[r].at
      BY <1>3, <2>2, <3>1, <3>2
    <3> QED BY <3>3 DEF Unseen
  <2> QED BY <2>6, <2>7
<1> QED BY <1>1, <1>2, <1>4, <1>5, NameStep

LEMMA TwinsInit == Init => TwinsUnseen
<1> SUFFICES ASSUME Init, NEW r \in Resources, NEW s \in Resources, Twins(r, s)
             PROVE  Unseen(r, s)
  BY TwinsDef
<1>1. PICK h \in Histories :
        /\ store = Settled(h) /\ clock = Len(h)
        /\ adopted = [t \in Resources |->
             [at |-> At(h, t), over |-> 0,
              asOf |-> [api \in Apis |-> IF At(h, t) = 0 THEN 0 ELSE h[At(h, t)].seen]]]
  BY DEF Init
<1>2. PICK i, j : i = At(h, r) /\ j = At(h, s)
  OBVIOUS
<1>3. /\ r # s /\ Exists(store[r]) /\ Exists(store[s])
      /\ ServiceName(r, store[r]) = ServiceName(s, store[s]) /\ adopted[r].at < adopted[s].at
  BY DEF Twins
<1>4. i # 0 /\ j # 0 /\ store[r].alias = h[i].alias /\ store[s].alias = h[j].alias
  BY <1>1, <1>2, <1>3, NothingType DEF Settled, Exists
<1>5. i \in DOMAIN h /\ j \in DOMAIN h /\ h[i].res = r /\ h[j].res = s
  BY <1>2, <1>4, AtType
<1>6. i < j /\ ServiceName(h[i].res, h[i]) = ServiceName(h[j].res, h[j])
  BY <1>1, <1>2, <1>3, <1>4, <1>5 DEF ServiceName
<1>7. (r[1] = "legacy" /\ s[1] = "new") \/ h[j].seen < i
  BY <1>5, <1>6, RegistryAssumption
<1>8. adopted[s].asOf[r[1]] = h[j].seen /\ adopted[r].at = i
  BY <1>1, <1>2, <1>4, RegistryAssumption
<1> QED BY <1>7, <1>8 DEF Unseen

\* No service name has two users, in one API or across both, but for the three
\* reasons the webhooks of site-manager leave open, however long the informers lag,
\* whatever the clients write at the same time, and across every restart.
THEOREM TwinsAreUnseen == Spec => []TwinsUnseen
<1>1. VersionInv => WorkerLive
  BY DEF VersionInv
<1>2. Init => TypeOK /\ VersionInv /\ UidInv /\ LogInv /\ FollowInv /\ RequestInv /\ TwinsUnseen
  BY TypeInit, VersionInit, UidInit, FollowInit, RequestInit, TwinsInit
<1>3. TypeOK /\ VersionInv /\ UidInv /\ LogInv /\ FollowInv /\ RequestInv /\ TwinsUnseen /\ [Next]_vars
        => (TypeOK /\ VersionInv /\ UidInv /\ LogInv /\ FollowInv /\ RequestInv /\ TwinsUnseen)'
  BY <1>1, TypeStep, VersionStep, UidStep, LogStep, FollowStep, RequestStep, TwinsStep
<1> QED BY <1>2, <1>3, PTL DEF Spec
=============================================================================
