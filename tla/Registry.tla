-------------------------------- MODULE Registry --------------------------------
(***************************************************************************)
(* The custom resources of one site and what site-manager does with them:  *)
(* the webhooks that keep service names unique, the dictionary of services *)
(* they read from two informer caches, and the reconcilers that write the  *)
(* calculated name into the status.                                        *)
(*                                                                         *)
(* The API server, its watches and the work queues of controller-runtime   *)
(* are external; they are modelled as far as the handlers rely on them.    *)
(***************************************************************************)
EXTENDS Naturals, Sequences, FiniteSets, Functions

CONSTANTS
  Resources,   \* the resources that may exist: <<api, key>>
  Full(_),     \* <cr-name>.<cr-namespace> of a key
  Short(_),    \* <cr-name> of a key
  Aliases,     \* the aliases a client may ask for
  NoAlias,
  Histories,   \* the resources there at first, in the order they were admitted
  Clients,     \* the clients that write resources
  MaxEdits,    \* bound: requests and deletions
  MaxRestarts  \* bound: restarts of site-manager

Apis == {"legacy", "new"}

ServiceName(r, o) == IF o.alias = NoAlias THEN Full(r[2]) ELSE o.alias

\* An entry of a history says how much of the history the cache had seen that
\* admitted it: the webhooks let two resources of one name pass only for the
\* reasons TwinsUnseen gives.
ASSUME RegistryAssumption ==
  /\ \A r \in Resources : r[1] \in Apis
  /\ NoAlias \notin Aliases /\ \A r \in Resources : Full(r[2]) # NoAlias
  /\ \A h \in Histories :
       /\ h \in Seq([res: Resources, alias: Aliases \cup {NoAlias}, seen: Nat])
       /\ \A i, j \in DOMAIN h :
            /\ h[i].seen <= Len(h) /\ (h[i].res = h[j].res => i = j)
            /\ i < j /\ ServiceName(h[i].res, h[i]) = ServiceName(h[j].res, h[j]) =>
                 \/ h[i].res[1] = "legacy" /\ h[j].res[1] = "new"
                 \/ h[j].seen < i
  /\ MaxEdits \in Nat /\ MaxRestarts \in Nat

VARIABLES
  store,           \* the resources in the API server
  clock,           \* the version of the last write; also the source of uids
  edits, restarts, \* writes begun by clients, restarts
  cache, events,   \* informer caches and the watch events still on their way
  request,         \* an admission in flight for each client
  queue, worker,   \* work queue and reconciler of each API
  adopted          \* history: when and on which view a resource got its name

server == <<store, clock>>
informers == <<cache, events>>
reconcilers == <<queue, worker>>
bounds == <<edits, restarts>>
vars == <<server, bounds, informers, request, reconcilers, adopted>>

----------------------------------------------------------------------------
(* Resources and the dictionary. *)

Keys == {r[2] : r \in Resources}
ShortNames == {Short(k) : k \in Keys}
Names == {Full(k) : k \in Keys} \cup ShortNames \cup Aliases

\* No resource: uids begin at 1.
Nothing == [uid |-> 0, rv |-> 0, alias |-> NoAlias, status |-> NoAlias]
Exists(o) == o.uid # 0
Of(api) == {r \in Resources : r[1] = api}

\* The resources of an API that use a name, in a view of the API server.
Users(view, api, n) ==
  {r \in Of(api) : Exists(view[r]) /\ ServiceName(r, view[r]) = n}

\* convertToDict: of several resources the last one in the list is kept, and
\* the order of a list read from an informer cache is not fixed.
Entries(view, api, n) ==
  LET users == Users(view, api, n)
  IN IF users = {} THEN {0} ELSE {view[r].uid : r \in users}

\* A new resource shadows the legacy one.
Shadowed(entry, hit) == IF entry = 0 THEN hit ELSE entry

\* The version up to which the cache of an API has followed the server.
Synced(api) == IF events[api] = <<>> THEN clock ELSE Head(events[api]).at - 1

----------------------------------------------------------------------------
(* API server (external). *)

\* A write reaches the watches of the API.
Write(r, o) ==
  /\ store' = [store EXCEPT ![r] = o]
  /\ clock' = clock + 1
  /\ events' = [events EXCEPT ![r[1]] = Append(@, [key |-> r, obj |-> o, at |-> clock + 1])]

NoRequest == [pc |-> "idle"]

\* The aliases a write may store: any in v3, what ConvertTo makes of a v2 one.
V2Aliases(k) == {NoAlias, Short(k)}
Writable(r) ==
  Aliases \cup {NoAlias} \cup (IF r[1] = "legacy" THEN V2Aliases(r[2]) ELSE {})

\* mutant: a missing alias is not looked for
Checked_Alias(r, alias) == IF r[1] = "legacy" THEN {alias, Full(r[2])} ELSE {alias}
\* The names checked before a write is accepted.  A legacy write is shown to the
\* webhook of each served version, and GetServiceName of v2 knows no alias.
Checked(r, alias) ==
  LET name == ServiceName(r, [alias |-> alias])
  IN IF r[1] = "legacy" THEN {name, Full(r[2])} ELSE {name}

Submit(c, r, alias) ==
  /\ request[c] = NoRequest /\ edits < MaxEdits
  /\ alias \in Writable(r)
  /\ Exists(store[r]) => alias # store[r].alias
  /\ request' = [request EXCEPT ![c] =
       [pc |-> "check", res |-> r, alias |-> alias, old |-> store[r],
        left |-> Checked(r, alias), hits |-> <<>>, asOf |-> [api \in Apis |-> 0]]]
  /\ edits' = edits + 1
  /\ UNCHANGED <<server, restarts, informers, reconcilers, adopted>>

Delete(r) ==
  /\ Exists(store[r]) /\ edits < MaxEdits
  /\ Write(r, Nothing)
  /\ edits' = edits + 1
  /\ UNCHANGED <<restarts, cache, request, reconcilers, adopted>>

\* All webhooks agreed.  The write fails when the resource was changed since.
Persist(c) ==
  LET q == request[c]
      r == q.res
      o == [uid |-> IF Exists(q.old) THEN q.old.uid ELSE clock + 1, rv |-> clock + 1,
            alias |-> q.alias, status |-> q.old.status]
      renamed == ~ Exists(q.old) \/ ServiceName(r, o) # ServiceName(r, q.old)
  IN /\ q.pc = "check" /\ q.left = {}
     /\ request' = [request EXCEPT ![c] = NoRequest]
     /\ IF store[r] = q.old
        THEN /\ Write(r, o)
             /\ adopted' = IF renamed
                           THEN [adopted EXCEPT ![r] =
                                   [at |-> clock + 1, asOf |-> q.asOf, over |-> q.old.rv]]
                           ELSE adopted
        ELSE UNCHANGED <<server, events, adopted>>
     /\ UNCHANGED <<bounds, cache, reconcilers>>

----------------------------------------------------------------------------
(* Webhooks. *)

\* The webhook of the legacy API lists the legacy resources first ...
ListLegacy(c, n) ==
  LET q == request[c] IN
  /\ q.pc = "check" /\ q.res[1] = "legacy" /\ n \in q.left
  /\ \A h \in Range(q.hits) : h.name # n
  /\ \E uid \in Entries(cache, "legacy", n) :
       request' = [request EXCEPT ![c].hits = Append(@, [name |-> n, uid |-> uid]),
                     ![c].asOf["legacy"] =
                       IF n = ServiceName(q.res, q) THEN Synced("legacy") ELSE @]
  /\ UNCHANGED <<server, bounds, informers, reconcilers, adopted>>

\* mutant: an update is not compared with other resources
Taken_Create(found, uid) == found # 0 /\ uid = 0
Taken(found, uid) == found # 0 /\ found # uid

Verdict(c, n, taken) ==
  request' = IF taken THEN [request EXCEPT ![c] = NoRequest]
             ELSE [request EXCEPT ![c].left = @ \ {n},
                     ![c].asOf["new"] =
                       IF n = ServiceName(request[c].res, request[c]) THEN Synced("new") ELSE @]

\* ... then the new ones, and compares uids: validateServiceName (validator.go).
CheckLegacy(c, n) ==
  LET q == request[c] IN
  /\ q.pc = "check" /\ q.res[1] = "legacy" /\ n \in q.left
  /\ \E h \in Range(q.hits), uid \in Entries(cache, "new", n) :
       h.name = n /\ Verdict(c, n, Taken(Shadowed(uid, h.uid), q.old.uid))
  /\ UNCHANGED <<server, bounds, informers, reconcilers, adopted>>

\* validateServiceName (sitemanager_webhook.go): new resources only.
CheckNew(c, n) ==
  LET q == request[c] IN
  /\ q.pc = "check" /\ q.res[1] = "new" /\ n \in q.left
  /\ Verdict(c, n, \E uid \in Entries(cache, "new", n) : Taken(uid, q.old.uid))
  /\ UNCHANGED <<server, bounds, informers, reconcilers, adopted>>

----------------------------------------------------------------------------
(* Reconcilers. *)

Deliver(api) ==
  /\ events[api] # <<>>
  /\ LET e == Head(events[api])
     IN /\ cache' = [cache EXCEPT ![e.key] = e.obj]
        /\ queue' = [queue EXCEPT ![api] = @ \cup {e.key}]
  /\ events' = [events EXCEPT ![api] = Tail(@)]
  /\ UNCHANGED <<server, bounds, request, worker, adopted>>

\* mutant: a status that is there is not looked at
Stale_Missing(r, o) == Exists(o) /\ o.status = NoAlias
Stale(r, o) == Exists(o) /\ o.status # ServiceName(r, o)

\* Reconcile up to the comparison of the statuses.
Reconcile(r) ==
  LET api == r[1]
      o == cache[r]
  IN /\ worker[api] = Nothing /\ r \in queue[api]
     /\ queue' = [queue EXCEPT ![api] = @ \ {r}]
     /\ worker' = [worker EXCEPT ![api] =
          IF Stale(r, o) THEN [res |-> r, obj |-> o] ELSE Nothing]
  /\ UNCHANGED <<server, bounds, informers, request, adopted>>

Current(r, o) == store[r].uid = o.uid /\ store[r].rv = o.rv

\* mutant: the status is sent as a patch, which compares no versions.
UpdateStatus_Patch(api) ==
  /\ worker[api] # Nothing
  /\ LET r == worker[api].res
         o == worker[api].obj
     IN IF Exists(store[r])
        THEN Write(r, [store[r] EXCEPT !.status = ServiceName(r, o), !.rv = clock + 1])
        ELSE UNCHANGED <<server, events>>
  /\ worker' = [worker EXCEPT ![api] = Nothing]
  /\ UNCHANGED <<bounds, cache, queue, request, adopted>>

\* A status update that fails is tried again.
UpdateStatus(api) ==
  /\ worker[api] # Nothing
  /\ LET r == worker[api].res
         o == worker[api].obj
     IN IF Current(r, o)
        THEN /\ Write(r, [store[r] EXCEPT !.status = ServiceName(r, o), !.rv = clock + 1])
             /\ UNCHANGED queue
        ELSE queue' = [queue EXCEPT ![api] = @ \cup {r}] /\ UNCHANGED <<server, events>>
  /\ worker' = [worker EXCEPT ![api] = Nothing]
  /\ UNCHANGED <<bounds, cache, request, adopted>>

----------------------------------------------------------------------------
\* Another site-manager takes over: it lists the resources, its queues begin
\* with all of them, and the admissions that waited for the old one fail.
Restart ==
  /\ restarts < MaxRestarts
  /\ restarts' = restarts + 1
  /\ cache' = store /\ events' = [api \in Apis |-> <<>>]
  /\ queue' = [api \in Apis |-> {r \in Of(api) : Exists(store[r])}]
  /\ worker' = [api \in Apis |-> Nothing]
  /\ request' = [c \in Clients |->
       IF request[c].pc = "check" /\ request[c].left # {} THEN NoRequest ELSE request[c]]
  /\ UNCHANGED <<server, edits, adopted>>

\* The place of a resource in a history, 0 if it is not in it.
At(h, r) ==
  LET made == {i \in DOMAIN h : h[i].res = r}
  IN IF made = {} THEN 0 ELSE CHOOSE i \in made : TRUE

\* At first the resources of some history are settled.
Settled(h) ==
  [r \in Resources |->
     IF At(h, r) = 0 THEN Nothing
     ELSE [uid |-> At(h, r), rv |-> At(h, r), alias |-> h[At(h, r)].alias,
           status |-> ServiceName(r, h[At(h, r)])]]

Init ==
  /\ \E h \in Histories :
       /\ store = Settled(h) /\ clock = Len(h)
       /\ adopted = [r \in Resources |->
            [at |-> At(h, r), over |-> 0,
             asOf |-> [api \in Apis |-> IF At(h, r) = 0 THEN 0 ELSE h[At(h, r)].seen]]]
  /\ edits = 0 /\ restarts = 0
  /\ cache = store /\ events = [api \in Apis |-> <<>>]
  /\ request = [c \in Clients |-> NoRequest]
  /\ queue = [api \in Apis |-> {}] /\ worker = [api \in Apis |-> Nothing]

Client(c) ==
  \/ \E r \in Resources, alias \in Names \cup {NoAlias} : Submit(c, r, alias)
  \/ Persist(c)

Webhook(c) ==
  \E n \in Names : ListLegacy(c, n) \/ CheckLegacy(c, n) \/ CheckNew(c, n)

Controller(api) ==
  \/ Deliver(api)
  \/ \E r \in Of(api) : Reconcile(r)
  \/ UpdateStatus(api)

Next ==
  \/ \E c \in Clients : Client(c) \/ Webhook(c)
  \/ \E r \in Resources : Delete(r)
  \/ \E api \in Apis : Controller(api)
  \/ Restart

\* site-manager's goroutines and the API server go on; clients need not.
Fairness ==
  /\ \A c \in Clients : WF_vars(Webhook(c)) /\ WF_vars(Persist(c))
  /\ \A api \in Apis : WF_vars(Deliver(api)) /\ WF_vars(UpdateStatus(api))
  /\ \A r \in Resources : WF_vars(Reconcile(r))

Spec == Init /\ [][Next]_vars /\ Fairness

----------------------------------------------------------------------------
(* Properties *)

Objects == [uid: Nat, rv: Nat, alias: Names \cup {NoAlias}, status: Names \cup {NoAlias}]
Requests == [pc: {"check"}, res: Resources, alias: Names \cup {NoAlias}, old: Objects,
             left: SUBSET Names, hits: Seq([name: Names, uid: Nat]), asOf: [Apis -> Nat]]

\* The types of the variables.
TypeOK ==
  /\ clock \in Nat /\ edits \in 0..MaxEdits /\ restarts \in 0..MaxRestarts
  /\ store \in [Resources -> Objects] /\ cache \in [Resources -> Objects]
  /\ events \in [Apis -> Seq([key: Resources, obj: Objects, at: Nat])]
  /\ request \in [Clients -> Requests \cup {NoRequest}]
  /\ queue \in [Apis -> SUBSET Resources]
  /\ worker \in [Apis -> [res: Resources, obj: Objects] \cup {Nothing}]
  /\ adopted \in [Resources -> [at: Nat, over: Nat, asOf: [Apis -> Nat]]]
  /\ \A r \in Resources : store[r].rv <= clock /\ store[r].uid <= store[r].rv
  /\ \A api \in Apis :
       /\ queue[api] \subseteq Of(api)
       /\ \A i \in DOMAIN events[api] :
            events[api][i].key[1] = api /\ events[api][i].at \in 1..clock
       /\ worker[api] # Nothing => worker[api].res[1] = api
  /\ \A c \in Clients : request[c] # NoRequest =>
       request[c].alias \in Writable(request[c].res)

\* A name has two users only if the one that came later could not know: it is a
\* new resource that shadows a legacy one, it was admitted by a cache that had
\* not yet seen the other one take the name, or by one that still showed itself
\* under the name it had left (convertToDict keeps one of two legacy resources).
TwinsUnseen ==
  \A r, s \in Resources :
    LET twins == /\ r # s /\ Exists(store[r]) /\ Exists(store[s])
                 /\ ServiceName(r, store[r]) = ServiceName(s, store[s])
                 /\ adopted[r].at < adopted[s].at
    IN twins => \/ r[1] = "legacy" /\ s[1] = "new"
                \/ adopted[s].asOf[r[1]] < adopted[r].at
                \/ r[1] = "legacy" /\ s[1] = "legacy" /\ adopted[s].asOf["legacy"] < adopted[s].over

\* A status is only ever set to the name the resource has at that moment, and
\* never on a resource that is gone or was made anew.
StatusIsCurrent ==
  [][\A r \in Resources :
       store'[r].status # store[r].status /\ store'[r].uid = store[r].uid =>
         Exists(store[r]) /\ store'[r].status = ServiceName(r, store[r])]_store

\* Once the clients have stopped, every resource shows the name it is used by.
StatusesSettle ==
  <>[](\A r \in Resources :
         Exists(store[r]) => store[r].status = ServiceName(r, store[r]))
================================================================================
