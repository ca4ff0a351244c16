-------------------------- MODULE StatusRequestProofs --------------------------
(***************************************************************************)
(* Theorems about StatusRequest and the TokenWatcher it is composed with.  *)
(***************************************************************************)
EXTENDS StatusRequest, TLAPS

---------------------------------------------------------------------------
(* The token *)

\* The positions of the goroutine, written out.
LEMMA Positions ==
  /\ Head(OnStart) = "read" /\ Tail(OnStart) = <<"watch">>
  /\ Head(<<"watch">>) = "watch" /\ Tail(<<"watch">>) = <<>>
  /\ Head(OnRemove) = "rewatch" /\ Tail(OnRemove) = <<"reread">>
  /\ Head(<<"reread">>) = "reread" /\ Tail(<<"reread">>) = <<>>
  BY DEF OnStart, OnRemove

\* The counters and the position of the goroutine.
TokenRange ==
  /\ file \in Nat /\ kept \in Nat /\ oldest \in Nat
  /\ watched \in Nat /\ held \in Nat
  /\ 1 <= kept /\ kept <= file /\ file <= kept + 1 /\ oldest <= kept
  /\ event \in BOOLEAN /\ settled \in BOOLEAN
  /\ todo \in {OnStart, OnRemove, <<"watch">>, <<"reread">>, <<>>}

\* A removed file is not under the watch; before the first event the token may be
\* anything, after it either the goroutine is about to read, or an event will make
\* it, or the watch stands on a file that is not newer than the token held.
Attentive ==
  /\ watched # NoToken => kept <= watched /\ watched <= file
  /\ todo \in {OnStart, <<"watch">>} => ~settled
  /\ todo = <<"reread">> => watched # NoToken \/ event
  /\ settled => \/ todo \in {OnRemove, <<"reread">>}
                \/ event
                \/ watched # NoToken /\ watched <= held

TokenInv == TokenRange /\ Attentive

LEMMA TokenStep ==
  ASSUME TokenInv, Kubelet \/ Watcher \/ WatcherFails
  PROVE  TokenInv'
<1> USE DEF TokenInv, TokenRange, Attentive, NoToken
<1>1. CASE Rotate
  BY <1>1 DEF Rotate
<1>2. CASE RemoveOld
  <2>1. CASE watched = kept
    <3>1. event' BY <1>2, <2>1 DEF RemoveOld
    <3>2. watched' = 0 BY <1>2, <2>1 DEF RemoveOld
    <3>3. event' \in BOOLEAN BY <1>2, <2>1 DEF RemoveOld
    <3> QED BY <1>2, <2>1, <3>1, <3>2, <3>3 DEF RemoveOld
  <2>2. CASE watched # kept
    <3>1. watched' = watched /\ event' = event BY <1>2, <2>2 DEF RemoveOld
    <3> QED BY <1>2, <2>2, <3>1 DEF RemoveOld
  <2> QED BY <2>1, <2>2
<1>3. CASE Expire
  BY <1>3, Positions DEF Expire, OnStart, OnRemove
<1>4. CASE ReadToken
  <2>1. todo \in {OnStart, <<"reread">>}
    BY <1>4, Positions DEF ReadToken, Does
  <2>2. CASE todo = OnStart
    BY <1>4, <2>2, Positions DEF ReadToken, Does, OnStart, OnRemove
  <2>3. CASE todo = <<"reread">>
    BY <1>4, <2>3, Positions DEF ReadToken, Does, OnStart, OnRemove
  <2> QED BY <2>1, <2>2, <2>3
<1>5. CASE AddWatch
  <2>1. todo \in {OnRemove, <<"watch">>}
    BY <1>5, Positions DEF AddWatch, Does
  <2>2. CASE todo = OnRemove
    BY <1>5, <2>2, Positions DEF AddWatch, Does, OnStart, OnRemove
  <2>3. CASE todo = <<"watch">>
    BY <1>5, <2>3, Positions DEF AddWatch, Does, OnStart, OnRemove
  <2> QED BY <2>1, <2>2, <2>3
<1>6. CASE HandleEvent
  BY <1>6 DEF HandleEvent, OnStart, OnRemove
<1>7. CASE WatcherFails
  BY <1>7 DEF WatcherFails, OnStart, OnRemove
<1> QED BY <1>1, <1>2, <1>3, <1>4, <1>5, <1>6, <1>7 DEF Kubelet, Watcher

\* No action of the request writes a variable of the watcher.
LEMMA RequestLeavesToken ==
  ASSUME Ask \/ CacheChanges \/ Handler
  PROVE  UNCHANGED tokenVars
BY DEF Ask, CacheChanges, Handler, ListNew, ListFails, MissingDependency, SkipVisited, AskService, Answered,
       AttemptFails, GetFails, Refused, StatusRead, HealthRead

\* From the first handled event on the token of site-manager is accepted or about to
\* be read again, for any number of rotations and restarts and beside any requests.
THEOREM HeldTokenAccepted == Spec => []TokenAccepted
<1>1. Init => TokenInv
  <2> SUFFICES ASSUME Init PROVE TokenInv
    OBVIOUS
  <2> USE DEF Init, TokenInit
  <2>0. event \in BOOLEAN /\ settled \in BOOLEAN
    BY Zenon
  <2>1. TokenRange
    BY <2>0 DEF TokenRange, NoToken
  <2>2. ~settled
    OBVIOUS
  <2>3. todo # <<"reread">>
    BY DEF OnStart
  <2> QED
    BY <2>1, <2>2, <2>3 DEF TokenInv, Attentive
<1>2. TokenInv /\ [Next]_vars => TokenInv'
  <2> SUFFICES ASSUME TokenInv, [Next]_vars PROVE TokenInv'
    OBVIOUS
  <2>1. CASE Kubelet \/ Watcher \/ WatcherFails
    BY <2>1, TokenStep
  <2>2. CASE UNCHANGED tokenVars
    BY <2>2 DEF tokenVars, TokenInv, TokenRange, Attentive
  <2> QED
    BY <2>1, <2>2, RequestLeavesToken DEF Next, Background, ProcessEnds, vars
<1>3. TokenInv => TokenAccepted
  <2> SUFFICES ASSUME TokenInv, settled PROVE held >= oldest \/ RereadComes
    BY DEF TokenAccepted
  <2>1. CASE todo \in {OnRemove, <<"reread">>}
    BY <2>1 DEF RereadComes, OnRemove
  <2>2. CASE event
    BY <2>2 DEF RereadComes
  <2>3. CASE watched # NoToken /\ watched <= held
    BY <2>3 DEF TokenInv, TokenRange, Attentive
  <2> QED BY <2>1, <2>2, <2>3 DEF TokenInv, Attentive
<1> QED BY <1>1, <1>2, <1>3, PTL DEF Spec

---------------------------------------------------------------------------
(* Calls in a sequence *)

LEMMA ConcatSet ==
  ASSUME NEW S, NEW a \in Seq(S), NEW b \in Seq(S)
  PROVE  a \o b \in Seq(S) /\ ToSet(a \o b) = ToSet(a) \union ToSet(b)
<1>1. a \o b \in Seq(S) /\ Len(a \o b) = Len(a) + Len(b)
  OBVIOUS
<1>2. \A i \in 1 .. Len(a) : (a \o b)[i] = a[i]
  OBVIOUS
<1>3. \A i \in 1 .. Len(b) : (a \o b)[Len(a) + i] = b[i]
  OBVIOUS
<1>4. \A i \in 1 .. Len(a) + Len(b) : i \in 1 .. Len(a) \/ i - Len(a) \in 1 .. Len(b)
  OBVIOUS
<1>5. ToSet(a \o b) \subseteq ToSet(a) \union ToSet(b)
  <2> SUFFICES ASSUME NEW i \in 1 .. Len(a) + Len(b)
               PROVE  (a \o b)[i] \in ToSet(a) \union ToSet(b)
    BY <1>1 DEF ToSet
  <2>1. CASE i \in 1 .. Len(a)
    BY <1>2, <2>1 DEF ToSet
  <2>2. CASE i - Len(a) \in 1 .. Len(b)
    <3>1. (a \o b)[Len(a) + (i - Len(a))] = b[i - Len(a)]
      BY <1>3, <2>2
    <3>2. Len(a) + (i - Len(a)) = i
      OBVIOUS
    <3> QED BY <2>2, <3>1, <3>2 DEF ToSet
  <2> QED BY <1>4, <2>1, <2>2
<1>6. ToSet(a) \subseteq ToSet(a \o b)
  BY <1>1, <1>2 DEF ToSet
<1>7. ToSet(b) \subseteq ToSet(a \o b)
  <2> SUFFICES ASSUME NEW i \in 1 .. Len(b) PROVE b[i] \in ToSet(a \o b)
    BY DEF ToSet
  <2>1. Len(a) + i \in 1 .. Len(a \o b)
    BY <1>1
  <2> QED BY <1>3, <2>1 DEF ToSet
<1> QED BY <1>1, <1>5, <1>6, <1>7

LEMMA HeadTailSet ==
  ASSUME NEW S, NEW a \in Seq(S), a # <<>>
  PROVE  /\ Head(a) \in S /\ Tail(a) \in Seq(S)
         /\ ToSet(a) = {Head(a)} \union ToSet(Tail(a))
<1>1. Len(a) \in Nat \ {0} /\ Head(a) = a[1]
  OBVIOUS
<1>2. Tail(a) \in Seq(S) /\ Len(Tail(a)) = Len(a) - 1
  OBVIOUS
<1>3. \A i \in 1 .. Len(a) - 1 : Tail(a)[i] = a[i + 1]
  OBVIOUS
<1>4. ToSet(a) \subseteq {Head(a)} \union ToSet(Tail(a))
  <2> SUFFICES ASSUME NEW i \in 1 .. Len(a), i # 1 PROVE a[i] \in ToSet(Tail(a))
    BY <1>1 DEF ToSet
  <2>1. i - 1 \in 1 .. Len(a) - 1 /\ (i - 1) + 1 = i
    BY <1>1
  <2>2. Tail(a)[i - 1] = a[(i - 1) + 1]
    BY <1>3, <2>1
  <2>3. i - 1 \in DOMAIN Tail(a)
    BY <1>2, <2>1
  <2> QED BY <2>1, <2>2, <2>3 DEF ToSet
<1>5. ToSet(Tail(a)) \subseteq ToSet(a)
  <2> SUFFICES ASSUME NEW i \in 1 .. Len(a) - 1 PROVE a[i + 1] \in ToSet(a)
    BY <1>2, <1>3 DEF ToSet
  <2>1. i + 1 \in 1 .. Len(a)
    BY <1>1
  <2> QED BY <2>1 DEF ToSet
<1>6. Head(a) \in ToSet(a)
  BY <1>1 DEF ToSet
<1> QED BY <1>1, <1>2, <1>4, <1>5, <1>6

CallSet == [service : Services, by : Services \union {NoName}]

LEMMA CallsSet ==
  ASSUME NEW names \in Seq(Services), NEW by \in Services
  PROVE  /\ Calls(names, by) \in Seq(CallSet)
         /\ ToSet(Calls(names, by)) = {Call(n, by) : n \in ToSet(names)}
<1>1. DOMAIN names = 1 .. Len(names) /\ Len(names) \in Nat
  OBVIOUS
<1>2. \A i \in 1 .. Len(names) : Call(names[i], by) \in CallSet
  BY DEF Call, CallSet
<1>3. Calls(names, by) \in [1 .. Len(names) -> CallSet]
  BY <1>1, <1>2 DEF Calls
<1>4. Calls(names, by) \in Seq(CallSet)
  BY <1>1, <1>3
<1>5. DOMAIN Calls(names, by) = DOMAIN names
      /\ \A i \in DOMAIN names : Calls(names, by)[i] = Call(names[i], by)
  BY DEF Calls
<1> QED BY <1>4, <1>5 DEF ToSet

LEMMA DictionaryTyped ==
  ASSUME NEW d, IsDictionary(d), NEW s \in DOMAIN d
  PROVE  s \in Services /\ d[s].after \in Seq(Services) /\ d[s].before \in Seq(Services)
BY DEF IsDictionary, Dependencies

\* The recursive calls for s name exactly what its lists name, and blame s.
LEMMA RecursionSet ==
  ASSUME IsDictionary(dict), NEW s \in DOMAIN dict, NEW by
  PROVE  /\ Recursion(s, by) \in Seq(CallSet)
         /\ ToSet(Recursion(s, by)) = {Call(n, s) : n \in Named(s)}
<1>1. s \in Services /\ dict[s].after \in Seq(Services) /\ dict[s].before \in Seq(Services)
  BY DictionaryTyped
<1>2. /\ Calls(dict[s].after, s) \in Seq(CallSet)
      /\ ToSet(Calls(dict[s].after, s)) = {Call(n, s) : n \in ToSet(dict[s].after)}
  BY <1>1, CallsSet
<1>3. /\ Calls(dict[s].before, s) \in Seq(CallSet)
      /\ ToSet(Calls(dict[s].before, s)) = {Call(n, s) : n \in ToSet(dict[s].before)}
  BY <1>1, CallsSet
<1>4. /\ Recursion(s, by) \in Seq(CallSet)
      /\ ToSet(Recursion(s, by)) = ToSet(Calls(dict[s].after, s)) \union ToSet(Calls(dict[s].before, s))
  BY <1>2, <1>3, ConcatSet DEF Recursion
<1> QED BY <1>2, <1>3, <1>4 DEF Named

---------------------------------------------------------------------------
(* The walk *)

LEMMA ReachedFacts ==
  ASSUME IsDictionary(dict), target \in Services
  PROVE  /\ target \in Reached /\ Reached \subseteq Services
         /\ \A s \in Reached \intersect DOMAIN dict : Named(s) \subseteq Reached
<1>1. target \in Reached /\ Reached \subseteq Services
  BY DEF Reached
<1>2. ASSUME NEW s \in Reached \intersect DOMAIN dict, NEW n \in Named(s) PROVE n \in Reached
  <2>1. n \in Services
    <3>1. dict[s].after \in Seq(Services) /\ dict[s].before \in Seq(Services)
      BY DictionaryTyped
    <3> QED BY <3>1 DEF Named, ToSet
  <2>2. ASSUME NEW names \in SUBSET Services, target \in names, Closed(names)
        PROVE  n \in names
    <3>1. s \in names
      BY <2>2 DEF Reached
    <3> QED BY <2>2, <3>1 DEF Closed
  <2> QED BY <2>1, <2>2 DEF Reached
<1> QED BY <1>1, <1>2

LEMMA ReachedLeast ==
  ASSUME NEW names \in SUBSET Services, target \in names, Closed(names)
  PROVE  Reached \subseteq names
BY DEF Reached

\* A call is the request's own, or was made for a list of a service already found.
Justified(c) ==
  \/ c.by = NoName /\ c.service = target
  \/ withDeps /\ c.by \in found /\ c.service \in Named(c.by)

Open == found \union {c.service : c \in ToSet(pending)}

WalkTyped ==
  /\ IsDictionary(dict)
  /\ withDeps \in BOOLEAN
  /\ pending \in Seq(CallSet)
  /\ found \subseteq DOMAIN dict
  /\ phase \in {"idle", "list", "walk", "status", "healthz"}

\* A steady service is in the list that was read, or is only in the cache of the new
\* API and has to stay there.
ListInv ==
  phase = "list" =>
    /\ answer = NoReply /\ pending = <<>> /\ found = {}
    /\ target \in Services \union {NoName}
    /\ IsDictionary(lists.read) /\ lists.now \in Caches
    /\ lists = [read |-> lists.read, now |-> lists.now, steady |-> lists.steady]
    /\ \A s \in lists.steady : \/ s \in DOMAIN lists.read
                               \/ /\ s \in DOMAIN lists.now.new
                                  /\ s \notin DOMAIN lists.now.legacy

\* Everything found is reached, and everything reached is found or still to be
\* visited.
WalkInv ==
  phase \in {"walk", "status", "healthz"} =>
    /\ target \in DOMAIN dict
    /\ answer = NoReply
    /\ \A c \in ToSet(pending) : Justified(c)
    /\ found \subseteq IF withDeps THEN Reached ELSE {target}
    /\ target \in Open
    /\ withDeps => \A s \in found : Named(s) \subseteq Open
    /\ InGet => pending # <<>> /\ Head(pending).service \in DOMAIN dict

RequestInv == WalkTyped /\ ListInv /\ WalkInv /\ StatusIsClosure /\ MissingIsReal

\* Neither the lists nor what is reached depend on more than the request.
LEMMA SameRequest ==
  ASSUME UNCHANGED <<dict, target>>
  PROVE  Reached' = Reached /\ \A s : Named(s)' = Named(s)
BY DEF Reached, Closed, Named

\* An answer of another kind says nothing about the services.
LEMMA OtherAnswer ==
  ASSUME answer'.kind \notin {"services", "missing"}
  PROVE  StatusIsClosure' /\ MissingIsReal'
BY DEF StatusIsClosure, MissingIsReal

LEMMA RequestStutter ==
  ASSUME RequestInv, UNCHANGED requestVars
  PROVE  RequestInv'
<1> USE DEF requestVars
<1>1. Reached' = Reached /\ \A s : Named(s)' = Named(s)
  BY SameRequest
<1>2. WalkTyped'
  BY DEF RequestInv, WalkTyped
<1>3. Open' = Open /\ \A c : Justified(c)' = Justified(c)
  BY <1>1 DEF Open, Justified
<1>4. WalkInv'
  BY <1>1, <1>3 DEF RequestInv, WalkInv, InGet
<1>5. StatusIsClosure' /\ MissingIsReal'
  BY <1>1 DEF RequestInv, StatusIsClosure, MissingIsReal
<1>6. ListInv'
  BY DEF RequestInv, ListInv
<1> QED BY <1>2, <1>4, <1>5, <1>6 DEF RequestInv

\* The steps that end a request without an answer about services.
LEMMA RequestFails ==
  ASSUME RequestInv, UNCHANGED <<dict, target, withDeps, pending, found>>,
         phase' = "idle", answer'.kind \notin {"services", "missing"}
  PROVE  RequestInv'
<1>1. WalkTyped'
  BY DEF RequestInv, WalkTyped
<1> QED BY <1>1, OtherAnswer DEF RequestInv, WalkInv, ListInv

\* The steps from one phase of a request to another.
LEMMA RequestGoesOn ==
  ASSUME RequestInv, UNCHANGED <<dict, target, withDeps, pending, found, answer>>,
         phase \in {"walk", "status", "healthz"}, phase' \in {"walk", "status", "healthz"},
         InGet' => pending # <<>> /\ Head(pending).service \in DOMAIN dict
  PROVE  RequestInv'
<1>1. Reached' = Reached /\ \A s : Named(s)' = Named(s)
  BY SameRequest
<1>2. WalkTyped'
  BY DEF RequestInv, WalkTyped
<1>3. Open' = Open /\ \A c : Justified(c)' = Justified(c)
  BY <1>1 DEF Open, Justified
<1>4. WalkInv'
  BY <1>1, <1>3 DEF RequestInv, WalkInv
<1>5. StatusIsClosure' /\ MissingIsReal'
  BY OtherAnswer DEF RequestInv, WalkInv, NoReply, Reply
<1> QED BY <1>2, <1>4, <1>5 DEF RequestInv, ListInv

LEMMA AskStep ==
  ASSUME RequestInv, Ask
  PROVE  RequestInv'
<1> USE DEF Ask
<1>1. IsDictionary(NoList)
  BY DEF IsDictionary, NoList
<1>2. PICK c \in Caches :
        lists' = [read |-> c.legacy, now |-> c, steady |-> DOMAIN c.legacy \union DOMAIN c.new]
  BY DEF Order
<1>3. c.legacy \in LegacyLists
  BY DEF Caches
<1>4. IsDictionary(c.legacy)
  BY <1>3, ListsAssumption
<1>5. ListInv'
  BY <1>2, <1>4 DEF ListInv
<1>6. WalkTyped'
  <2>1. IsDictionary(dict)'
    BY <1>1 DEF IsDictionary
  <2>2. withDeps' \in BOOLEAN
    BY Zenon
  <2>3. /\ phase' = "list" /\ pending' = <<>> /\ found' = {} /\ pending' \in Seq(CallSet)
    OBVIOUS
  <2> HIDE DEF Ask
  <2> QED BY <2>1, <2>2, <2>3 DEF WalkTyped
<1>7. WalkInv'
  BY DEF WalkInv
<1>8. StatusIsClosure' /\ MissingIsReal'
  BY OtherAnswer DEF NoReply, Reply
<1> QED BY <1>5, <1>6, <1>7, <1>8 DEF RequestInv

\* Whatever the caches become, what is steady after it is still in one of the lists.
LEMMA CacheStep ==
  ASSUME RequestInv, CacheChanges
  PROVE  RequestInv'
<1> USE DEF CacheChanges
<1>0. PICK l : l = lists
  OBVIOUS
<1>1. PICK c \in Caches : lists' = [l EXCEPT !.now = c, !.steady = StillSteady(c)]
  BY <1>0
<1>2. /\ l = [read |-> l.read, now |-> l.now, steady |-> l.steady]
      /\ \A s \in l.steady : \/ s \in DOMAIN l.read
                             \/ s \in DOMAIN l.now.new /\ s \notin DOMAIN l.now.legacy
  BY <1>0 DEF RequestInv, ListInv
<1>3. lists'.read = l.read /\ lists'.now = c /\ lists'.steady = StillSteady(c)
      /\ lists' = [read |-> l.read, now |-> c, steady |-> StillSteady(c)]
  BY <1>1, <1>2
<1>4. \A s \in StillSteady(c) : \/ s \in DOMAIN l.read
                                \/ s \in DOMAIN c.new /\ s \notin DOMAIN c.legacy
  BY <1>0, <1>2 DEF StillSteady
<1>5. ListInv'
  BY <1>0, <1>3, <1>4 DEF RequestInv, ListInv
<1>6. WalkTyped' /\ WalkInv'
  BY DEF RequestInv, WalkTyped, WalkInv, IsDictionary
<1>7. StatusIsClosure' /\ MissingIsReal'
  BY OtherAnswer DEF RequestInv, ListInv, NoReply, Reply
<1> QED BY <1>5, <1>6, <1>7 DEF RequestInv

\* The dictionary of ListNew is one, and has every steady service.
LEMMA DictionaryComplete ==
  ASSUME RequestInv, ListNew
  PROVE  IsDictionary(dict') /\ lists.steady \subseteq DOMAIN dict'
<1>1. PICK old, new : old = lists.read /\ new = lists.now.new
  OBVIOUS
<1>2. dict' = ConvertToDict(old, new)
  BY <1>1 DEF ListNew, Order
<1>3. IsDictionary(old)
  BY <1>1 DEF ListNew, RequestInv, ListInv
<1>4. IsDictionary(new)
  <2>1. lists.now \in Caches
    BY DEF ListNew, RequestInv, ListInv
  <2>2. new \in NewLists
    BY <1>1, <2>1 DEF Caches
  <2> QED BY <2>2, ListsAssumption
<1>5. DOMAIN dict' = DOMAIN old \union DOMAIN new
  BY <1>2 DEF ConvertToDict
<1>6. \A s \in DOMAIN dict' : dict'[s] \in Dependencies
  BY <1>2, <1>3, <1>4 DEF ConvertToDict, IsDictionary
<1>7. IsDictionary(dict')
  <2>1. dict' = [s \in DOMAIN dict' |-> dict'[s]]
    BY <1>2 DEF ConvertToDict
  <2>2. dict' \in [DOMAIN dict' -> Dependencies]
    BY <1>6, <2>1
  <2>3. DOMAIN dict' \subseteq Services
    BY <1>3, <1>4, <1>5 DEF IsDictionary
  <2> QED BY <2>2, <2>3 DEF IsDictionary
<1>8. lists.steady \subseteq DOMAIN dict'
  BY <1>1, <1>5 DEF ListNew, RequestInv, ListInv
<1> QED BY <1>7, <1>8

LEMMA ListStep ==
  ASSUME RequestInv, ListNew
  PROVE  RequestInv'
<1>1. /\ IsDictionary(dict)' /\ target' = target /\ target \in Services \union {NoName}
      /\ withDeps' = withDeps /\ withDeps \in BOOLEAN /\ found' = {} /\ answer = NoReply
  <2>1. IsDictionary(dict)'
    BY DictionaryComplete DEF IsDictionary
  <2> QED BY <2>1 DEF ListNew, RequestInv, ListInv, WalkTyped
<1>2. CASE phase' = "idle" /\ pending' = <<>> /\ answer'.kind \in {"listed", "undefined", "unknown"}
  <2>1. WalkTyped'
    BY <1>1, <1>2 DEF WalkTyped
  <2>2. answer'.kind \notin {"services", "missing"}
    BY <1>2
  <2> QED BY <1>2, <2>1, <2>2, OtherAnswer DEF RequestInv, WalkInv, ListInv
<1>3. CASE /\ target \in DOMAIN dict' /\ answer' = NoReply /\ phase' = "walk"
           /\ pending' = <<Call(target, NoName)>>
  <2>1. target \in Services
    BY <1>1, <1>3 DEF IsDictionary
  <2>2. Call(target, NoName) \in CallSet
    BY <2>1 DEF Call, CallSet
  <2>3. pending' \in Seq(CallSet) /\ ToSet(pending') = {Call(target, NoName)}
    BY <1>3, <2>2 DEF ToSet
  <2>4. WalkTyped'
    BY <1>1, <1>3, <2>3 DEF WalkTyped
  <2>5. target' \in Open' /\ \A c \in ToSet(pending') : Justified(c)'
    BY <1>1, <2>3 DEF Open, Justified, Call
  <2>6. WalkInv'
    BY <1>1, <1>3, <2>5 DEF WalkInv, InGet
  <2>7. answer'.kind \notin {"services", "missing"}
    BY <1>3 DEF NoReply, Reply
  <2> QED BY <1>3, <2>4, <2>6, <2>7, OtherAnswer DEF RequestInv, ListInv
<1> QED BY <1>1, <1>2, <1>3 DEF ListNew, Listed, Lookup, Reply, Ends

LEMMA SkipStep ==
  ASSUME RequestInv, SkipVisited
  PROVE  RequestInv'
<1> USE DEF SkipVisited
<1>1. Reached' = Reached /\ \A s : Named(s)' = Named(s)
  BY SameRequest
<1>2. pending \in Seq(CallSet) /\ pending # <<>>
  BY DEF RequestInv, WalkTyped
<1>3. /\ Tail(pending) \in Seq(CallSet)
      /\ ToSet(pending) = {Head(pending)} \union ToSet(Tail(pending))
  BY <1>2, HeadTailSet
<1>4. WalkTyped'
  BY <1>3 DEF RequestInv, WalkTyped
<1>5. Open' = Open
  BY <1>3 DEF Open, Visited
<1>6. \A c \in ToSet(pending') : Justified(c)'
  BY <1>1, <1>3 DEF RequestInv, WalkInv, Justified
<1>7. WalkInv'
  BY <1>1, <1>5, <1>6 DEF RequestInv, WalkInv, InGet
<1>8. StatusIsClosure' /\ MissingIsReal'
  BY OtherAnswer DEF RequestInv, WalkInv, NoReply, Reply
<1> QED BY <1>4, <1>7, <1>8 DEF RequestInv, ListInv

LEMMA MissingStep ==
  ASSUME RequestInv, MissingDependency
  PROVE  RequestInv'
<1> USE DEF MissingDependency, Ends
<1>1. Reached' = Reached /\ \A s : Named(s)' = Named(s)
  BY SameRequest
<1>2. WalkTyped' /\ WalkInv'
  BY DEF RequestInv, WalkTyped, WalkInv
<1>3. pending \in Seq(CallSet) /\ pending # <<>>
  BY DEF RequestInv, WalkTyped
<1>4. Head(pending) \in ToSet(pending)
  BY <1>3, HeadTailSet
<1>5. Justified(Head(pending)) /\ target \in DOMAIN dict
  BY <1>4 DEF RequestInv, WalkInv
<1>6. /\ withDeps /\ Head(pending).by \in found
      /\ Head(pending).service \in Named(Head(pending).by)
  BY <1>5 DEF Justified
<1>7. Head(pending).by \in DOMAIN dict \intersect Reached
  BY <1>6 DEF RequestInv, WalkInv, WalkTyped
<1>8. MissingIsReal' /\ StatusIsClosure'
  BY <1>1, <1>6, <1>7 DEF MissingIsReal, StatusIsClosure, Reply
<1> QED BY <1>2, <1>8 DEF RequestInv, ListInv

LEMMA AnsweredStep ==
  ASSUME RequestInv, Answered
  PROVE  RequestInv'
<1> USE DEF Answered, Ends
<1>1. Reached' = Reached /\ \A s : Named(s)' = Named(s)
  BY SameRequest
<1>2. WalkTyped' /\ WalkInv'
  BY DEF RequestInv, WalkTyped, WalkInv
<1>3. Open = found
  BY DEF Open, ToSet
<1>4. target \in found /\ found \subseteq DOMAIN dict /\ IsDictionary(dict)
  BY <1>3 DEF RequestInv, WalkInv, WalkTyped
<1>5. CASE withDeps
  <2>1. found \in SUBSET Services
    BY <1>4 DEF IsDictionary
  <2>2. Closed(found)
    BY <1>3, <1>5 DEF RequestInv, WalkInv, Closed
  <2>3. Reached \subseteq found
    BY <1>4, <2>1, <2>2, ReachedLeast
  <2>4. found = Reached
    BY <1>5, <2>3 DEF RequestInv, WalkInv
  <2> QED BY <1>1, <1>2, <1>5, <2>4 DEF RequestInv, ListInv, StatusIsClosure, MissingIsReal, Reply
<1>6. CASE ~withDeps
  <2>1. found = {target}
    BY <1>4, <1>6 DEF RequestInv, WalkInv
  <2> QED BY <1>1, <1>2, <1>6, <2>1 DEF RequestInv, ListInv, StatusIsClosure, MissingIsReal, Reply
<1> QED BY <1>5, <1>6

LEMMA HealthStep ==
  ASSUME RequestInv, HealthRead
  PROVE  RequestInv'
<1>0. PICK call, s, rest : call = Head(pending) /\ s = call.service /\ rest = Tail(pending)
  OBVIOUS
<1>1. Reached' = Reached /\ \A n : Named(n)' = Named(n)
  BY SameRequest DEF HealthRead
<1>2. /\ IsDictionary(dict) /\ pending \in Seq(CallSet) /\ pending # <<>>
      /\ s \in DOMAIN dict /\ target \in DOMAIN dict /\ found \subseteq DOMAIN dict
      /\ withDeps \in BOOLEAN /\ answer = NoReply
  BY <1>0 DEF HealthRead, RequestInv, WalkTyped, WalkInv, InGet
<1>3. /\ rest \in Seq(CallSet)
      /\ ToSet(pending) = {call} \union ToSet(rest)
  BY <1>0, <1>2, HeadTailSet
<1>4. /\ dict' = dict /\ target' = target /\ withDeps' = withDeps /\ answer' = answer
      /\ phase' = "walk" /\ found' = found \union {s}
  BY <1>0 DEF HealthRead
<1>5. \A c \in ToSet(pending) : Justified(c)
  BY DEF HealthRead, RequestInv, WalkInv
<1>6. \A c \in ToSet(rest) : Justified(c)'
  BY <1>1, <1>3, <1>4, <1>5 DEF Justified
<1>7. Justified(call)
  BY <1>3, <1>5
<1>8. target \in Open
  BY DEF HealthRead, RequestInv, WalkInv
<1>9. StatusIsClosure' /\ MissingIsReal'
  BY <1>2, <1>4, OtherAnswer DEF NoReply, Reply
<1>10. CASE withDeps
  <2>1. pending' = Recursion(s, call.by) \o rest
    BY <1>0, <1>10 DEF HealthRead
  <2>2. /\ Recursion(s, call.by) \in Seq(CallSet)
        /\ ToSet(Recursion(s, call.by)) = {Call(n, s) : n \in Named(s)}
    BY <1>2, RecursionSet
  <2>3. /\ pending' \in Seq(CallSet)
        /\ ToSet(pending') = {Call(n, s) : n \in Named(s)} \union ToSet(rest)
    BY <1>3, <2>1, <2>2, ConcatSet
  <2>4. WalkTyped'
    BY <1>2, <1>4, <2>3 DEF WalkTyped
  <2>5. \A c \in ToSet(pending') : Justified(c)'
    <3>1. \A n \in Named(s) : Justified(Call(n, s))'
      BY <1>1, <1>4, <1>10 DEF Justified, Call
    <3> QED BY <1>6, <2>3, <3>1
  <2>6. Open' = Open \union Named(s)
    <3>1. {c.service : c \in ToSet(pending')} = Named(s) \union {c.service : c \in ToSet(rest)}
      <4>1. \A n : Call(n, s).service = n
        BY DEF Call
      <4>2. ASSUME NEW n \in Named(s) PROVE n \in {c.service : c \in ToSet(pending')}
        <5>1. Call(n, s) \in ToSet(pending')
          BY <2>3
        <5> QED BY <4>1, <5>1
      <4> QED BY <2>3, <4>1, <4>2
    <3>2. {c.service : c \in ToSet(pending)} = {s} \union {c.service : c \in ToSet(rest)}
      <4>1. {c.service : c \in {call}} = {s}
        BY <1>0
      <4> QED BY <1>3, <4>1
    <3> QED BY <1>4, <3>1, <3>2 DEF Open
  <2>7. found \subseteq Reached /\ \A n \in found : Named(n) \subseteq Open
    BY <1>10 DEF HealthRead, RequestInv, WalkInv
  <2>8. s \in Reached
    <3>1. target \in Services
      BY <1>2, DictionaryTyped
    <3>2. /\ target \in Reached
          /\ \A n \in Reached \intersect DOMAIN dict : Named(n) \subseteq Reached
      BY <1>2, <3>1, ReachedFacts
    <3> QED BY <1>0, <1>2, <1>7, <2>7, <3>2 DEF Justified
  <2>9. found' \subseteq Reached' /\ \A n \in found' : Named(n)' \subseteq Open'
    BY <1>1, <1>4, <2>6, <2>7, <2>8
  <2>10. WalkInv'
    BY <1>2, <1>4, <1>8, <1>10, <2>5, <2>6, <2>9 DEF WalkInv, InGet
  <2> QED BY <1>4, <1>9, <2>4, <2>10 DEF RequestInv, ListInv
<1>11. CASE ~withDeps
  <2>1. pending' = rest
    BY <1>0, <1>11 DEF HealthRead
  <2>2. WalkTyped'
    BY <1>2, <1>3, <1>4, <2>1 DEF WalkTyped
  <2>3. s = target
    BY <1>0, <1>7, <1>11 DEF Justified
  <2>4. found' \subseteq {target} /\ target \in Open'
    BY <1>4, <1>11, <2>3 DEF HealthRead, RequestInv, WalkInv, Open
  <2>5. WalkInv'
    BY <1>2, <1>4, <1>6, <1>11, <2>1, <2>4 DEF WalkInv, InGet
  <2> QED BY <1>4, <1>9, <2>2, <2>5 DEF RequestInv, ListInv
<1> QED BY <1>10, <1>11

LEMMA RequestStep ==
  ASSUME RequestInv, [Next]_vars
  PROVE  RequestInv'
<1>1. CASE Ask
  BY <1>1, AskStep
<1>2. CASE MissingDependency
  BY <1>2, MissingStep
<1>3. CASE SkipVisited
  BY <1>3, SkipStep
<1>4. CASE AskService
  BY <1>4, RequestGoesOn DEF AskService, StartsGet
<1>5. CASE Answered
  BY <1>5, AnsweredStep
<1>6. CASE AttemptFails
  <2>1. phase \in {"status", "healthz"} /\ pending # <<>> /\ Head(pending).service \in DOMAIN dict
    BY <1>6 DEF AttemptFails, InGet, RequestInv, WalkInv
  <2> QED BY <1>6, <2>1, RequestGoesOn DEF AttemptFails, InGet
<1>7. CASE GetFails
  BY <1>7, RequestFails DEF GetFails, Ends, Reply
<1>8. CASE Refused
  BY <1>8, RequestFails DEF Refused, Ends, Reply
<1>9. CASE StatusRead
  <2>1. phase \in {"status", "healthz"} /\ pending # <<>> /\ Head(pending).service \in DOMAIN dict
    BY <1>9 DEF StatusRead, InGet, RequestInv, WalkInv
  <2> QED BY <1>9, <2>1, RequestGoesOn DEF StatusRead, StartsGet
<1>10. CASE HealthRead
  BY <1>10, HealthStep
<1>11. CASE ProcessEnds
  <2>1. CASE phase = "idle"
    <3>1. UNCHANGED <<dict, target, withDeps, pending, found, phase, answer, get>>
      BY <1>11, <2>1 DEF ProcessEnds
    <3>2. Reached' = Reached /\ \A s : Named(s)' = Named(s)
      BY <3>1, SameRequest
    <3>3. WalkTyped' /\ WalkInv' /\ ListInv'
      BY <2>1, <3>1 DEF RequestInv, WalkTyped, WalkInv, ListInv
    <3> QED BY <3>1, <3>2, <3>3 DEF RequestInv, StatusIsClosure, MissingIsReal
  <2>2. CASE phase # "idle"
    BY <1>11, <2>2, RequestFails DEF ProcessEnds, Ends, Reply
  <2> QED BY <2>1, <2>2
<1>12. CASE UNCHANGED requestVars
  BY <1>12, RequestStutter
<1>13. CASE CacheChanges
  BY <1>13, CacheStep
<1>14. CASE ListNew
  BY <1>14, ListStep
<1>15. CASE ListFails
  BY <1>15, RequestFails DEF ListFails, Ends, Reply
<1> QED
  BY <1>1, <1>2, <1>3, <1>4, <1>5, <1>6, <1>7, <1>8, <1>9, <1>10, <1>11, <1>12,
     <1>13, <1>14, <1>15
  DEF Next, Handler, Background, vars

LEMMA RequestAlways == Spec => []RequestInv
<1>1. Init => RequestInv
  <2> SUFFICES ASSUME Init PROVE RequestInv
    OBVIOUS
  <2>1. /\ IsDictionary(dict) /\ pending = <<>> /\ found = {}
        /\ phase = "idle" /\ withDeps = FALSE
    BY DEF Init, IsDictionary, NoList
  <2>3. withDeps \in BOOLEAN
    BY <2>1, Zenon
  <2>4. WalkTyped /\ WalkInv /\ ListInv
    BY <2>1, <2>3 DEF WalkTyped, WalkInv, ListInv
  <2>2. StatusIsClosure /\ MissingIsReal
    BY DEF Init, StatusIsClosure, MissingIsReal, NoReply, Reply
  <2> QED BY <2>2, <2>4 DEF RequestInv
<1>2. RequestInv /\ [Next]_vars => RequestInv'
  BY RequestStep
<1> QED BY <1>1, <1>2, PTL DEF Spec

\* For any dictionary, cyclic or not: a status with dependencies covers exactly what
\* can be reached from the service.
THEOREM StatusCoversDependencies == Spec => []StatusIsClosure
<1>1. RequestInv => StatusIsClosure
  BY DEF RequestInv
<1> QED BY <1>1, RequestAlways, PTL

\* For any dictionary: the blame for a missing dependency is right, and
\* parentService is never nil when it is dereferenced.
THEOREM MissingDependencyNamed == Spec => []MissingIsReal
<1>1. RequestInv => MissingIsReal
  BY DEF RequestInv
<1> QED BY <1>1, RequestAlways, PTL

\* For any lists of the two APIs, and however their caches change between the two
\* calls: a service that is always in one of them and not moved back is seen.
THEOREM MovedServiceSeen == Spec => MovedServiceIsSeen
<1>1. RequestInv /\ [Next]_vars =>
        [phase = "list" => /\ answer'.kind = "unknown" => target \notin lists.steady
                           /\ phase' = "walk" \/ answer'.kind = "listed" =>
                            lists.steady \subseteq DOMAIN dict']_vars
  <2> SUFFICES ASSUME RequestInv, Next, phase = "list"
               PROVE  /\ answer'.kind = "unknown" => target \notin lists.steady
                      /\ phase' = "walk" \/ answer'.kind = "listed" => lists.steady \subseteq DOMAIN dict'
    OBVIOUS
  <2>0. answer.kind = "none"
    BY DEF RequestInv, ListInv, NoReply, Reply
  <2>1. CASE ListNew
    <3>1. lists.steady \subseteq DOMAIN dict'
      BY <2>1, DictionaryComplete
    <3>2. answer'.kind = "unknown" => target \notin DOMAIN dict'
      BY <2>0, <2>1 DEF ListNew, Listed, Lookup, Ends, Reply
    <3> QED BY <3>1, <3>2
  <2>2. CASE ListFails \/ ProcessEnds
    BY <2>0, <2>2 DEF ListFails, ProcessEnds, Ends, Reply
  <2>3. CASE CacheChanges \/ Background
    BY <2>0, <2>3 DEF CacheChanges, Background, requestVars
  <2> QED
    BY <2>1, <2>2, <2>3 DEF Next, Ask, Handler, MissingDependency, SkipVisited, AskService,
       Answered, AttemptFails, GetFails, Refused, StatusRead, HealthRead, InGet
<1> QED BY <1>1, RequestAlways, PTL DEF Spec, MovedServiceIsSeen

---------------------------------------------------------------------------
(* Types *)

LEMMA TokenTypeStep ==
  ASSUME TokenTypeOK, Kubelet \/ Watcher \/ WatcherFails
  PROVE  TokenTypeOK'
<1> USE BoundsAssumption DEF TokenTypeOK, NoToken, Tokens
<1>0. PICK f, n : f = file /\ n = MaxRotations
  OBVIOUS
<1>1. /\ n \in Nat /\ f \in Nat /\ 1 <= f /\ f <= n + 1
      /\ kept \in Nat /\ 1 <= kept /\ kept <= f /\ f <= kept + 1
      /\ oldest \in Nat /\ 1 <= oldest /\ oldest <= f
      /\ watched \in Nat /\ watched <= f /\ held \in Nat /\ held <= f
      /\ failures \in Nat /\ failures <= MaxFailures
  BY <1>0
<1>2. CASE Rotate
  <2>1. /\ file' = f + 1 /\ f + 1 <= n + 1 /\ kept' = f
        /\ UNCHANGED <<oldest, watched, event, held, todo, settled, failures>>
    BY <1>0, <1>1, <1>2 DEF Rotate
  <2> QED BY <1>0, <1>1, <2>1
<1>3. CASE RemoveOld
  <2>1. event' \in BOOLEAN /\ watched' \in {watched, 0}
    BY <1>3 DEF RemoveOld
  <2> QED BY <1>0, <1>1, <1>3, <2>1 DEF RemoveOld
<1>4. CASE Expire
  BY <1>0, <1>1, <1>4 DEF Expire
<1>5. Tail(todo) \in {Tail(OnStart), Tail(OnRemove), <<>>} \/ todo = <<>>
  BY Positions
<1>6. CASE ReadToken
  <2>1. todo' \in {Tail(OnStart), Tail(OnRemove), <<>>}
    BY <1>5, <1>6 DEF ReadToken, Does
  <2>2. settled' \in BOOLEAN
    BY <1>6 DEF ReadToken
  <2> QED BY <1>0, <1>1, <1>6, <2>1, <2>2 DEF ReadToken
<1>7. CASE AddWatch
  <2>1. todo' \in {Tail(OnStart), Tail(OnRemove), <<>>}
    BY <1>5, <1>7 DEF AddWatch, Does
  <2> QED BY <1>0, <1>1, <1>7, <2>1 DEF AddWatch
<1>8. CASE HandleEvent
  BY <1>0, <1>1, <1>8 DEF HandleEvent
<1>9. CASE WatcherFails
  <2>1. /\ failures + 1 \in 0 .. MaxFailures /\ UNCHANGED <<file, kept, oldest>>
        /\ watched' = 0 /\ event' = FALSE /\ held' = 0 /\ settled' = FALSE
        /\ todo' = OnStart /\ failures' = failures + 1
    BY <1>1, <1>9 DEF WatcherFails
  <2>2. event' \in BOOLEAN /\ settled' \in BOOLEAN
    BY <2>1
  <2>3. 0 \in 0 .. n + 1 /\ 0 <= f
    BY <1>1
  <2>4. todo' \in {OnStart, OnRemove, Tail(OnStart), Tail(OnRemove), <<>>}
    BY <2>1
  <2> HIDE DEF NoToken
  <2> QED BY <1>0, <2>1, <2>2, <2>3, <2>4
<1> QED BY <1>2, <1>3, <1>4, <1>6, <1>7, <1>8, <1>9 DEF Kubelet, Watcher

Names == Services \union {NoName}
ListSet == [read : LegacyLists, now : Caches, steady : SUBSET Services]
ReplySet == [kind : Kinds, service : Names, problem : Names]

\* What RequestInv leaves open of the types.
Shape ==
  /\ phase = "list" => lists \in ListSet
  /\ phase # "list" => lists = NoLists
  /\ procedure \in {"list", "status"} /\ target \in Names
  /\ get \in [token : Tokens, tries : 0 .. Retries]
  /\ answer \in ReplySet

LEMMA Replies ==
  ASSUME NEW k \in Kinds, NEW s \in Names, NEW p \in Names
  PROVE  Reply(k, s, p) \in ReplySet
BY DEF Reply, ReplySet

LEMMA NoReplyTyped == NoReply \in ReplySet
BY Replies DEF NoReply, Kinds, Names

LEMMA NoGetTyped == NoGet \in [token : Tokens, tries : 0 .. Retries]
BY BoundsAssumption DEF NoGet, Tokens, NoToken, Retries

\* The request ends with a reply of the right type.
LEMMA ShapeEnds ==
  ASSUME Shape, NEW k \in Kinds, NEW s \in Names, NEW p \in Names, Ends(Reply(k, s, p)),
         lists' = NoLists, UNCHANGED <<procedure, target>>
  PROVE  Shape'
<1>1. phase' = "idle" /\ get' = NoGet /\ answer' = Reply(k, s, p)
  BY DEF Ends
<1> QED BY <1>1, Replies, NoGetTyped DEF Shape, ReplySet, Tokens, Retries

LEMMA ShapeStep ==
  ASSUME TokenTypeOK, RequestInv, Shape, [Next]_vars
  PROVE  Shape'
<1>0. \A s \in Services : s \in Names
  BY DEF Names
<1>1. NoName \in Names
  BY DEF Names
<1>2. \A s \in DOMAIN dict : s \in Names
  BY <1>0 DEF RequestInv, WalkTyped, IsDictionary
<1>3. phase \in {"walk", "status", "healthz"} /\ pending # <<>> =>
        Head(pending).service \in Names /\ Head(pending).by \in Names
  <2>1. pending \in Seq(CallSet)
    BY DEF RequestInv, WalkTyped
  <2>2. pending # <<>> => Head(pending) \in CallSet
    BY <2>1, HeadTailSet
  <2> QED BY <2>2 DEF CallSet, Names
<1>4. InGet => pending # <<>> /\ phase \in {"walk", "status", "healthz"}
  BY DEF RequestInv, WalkInv, InGet
<1>5. \A r \in {"error", "undefined", "unknown", "missing", "services", "listed",
                "failed", "refused", "lost"} : r \in Kinds
  BY DEF Kinds
<1>6. CASE Ask
  <2>1. PICK c \in Caches :
          lists' = [read |-> c.legacy, now |-> c, steady |-> DOMAIN c.legacy \union DOMAIN c.new]
    BY <1>6 DEF Ask, Order
  <2>2. IsDictionary(c.legacy) /\ IsDictionary(c.new) /\ c.legacy \in LegacyLists
    BY ListsAssumption DEF Caches
  <2>3. lists' \in ListSet
    BY <2>1, <2>2 DEF ListSet, IsDictionary
  <2>4. /\ phase' = "list" /\ procedure' \in {"list", "status"} /\ target' \in Names
        /\ answer' = NoReply /\ get' = get
    BY <1>6 DEF Ask, Names
  <2> QED BY <2>3, <2>4, NoReplyTyped DEF Shape, ListSet, Caches, ReplySet, Tokens, Names
<1>7. CASE CacheChanges
  <2>1. PICK l : l = lists
    OBVIOUS
  <2>2. l \in ListSet
    BY <1>7, <2>1 DEF CacheChanges, Shape
  <2>3. PICK c \in Caches : lists' = [l EXCEPT !.now = c, !.steady = StillSteady(c)]
    BY <1>7, <2>1 DEF CacheChanges
  <2>4. StillSteady(c) \in SUBSET Services
    BY <2>1, <2>2 DEF StillSteady, ListSet
  <2>5. lists' \in ListSet
    BY <2>2, <2>3, <2>4 DEF ListSet
  <2>6. UNCHANGED <<procedure, target, get, answer, phase>> /\ phase = "list"
    BY <1>7 DEF CacheChanges
  <2> QED BY <2>5, <2>6 DEF Shape, ListSet, Caches, ReplySet, Tokens, Names
<1>8. CASE ListNew
  <2>1. lists' = NoLists /\ UNCHANGED <<procedure, target>> /\ phase = "list"
    BY <1>8 DEF ListNew
  <2>2. CASE Listed
    BY <1>1, <1>5, <2>1, <2>2, ShapeEnds DEF Listed
  <2>3. CASE Lookup(target)
    <3>1. target \in Names
      BY DEF Shape
    <3>2. CASE phase' = "walk" /\ UNCHANGED <<get, answer>>
      BY <2>1, <3>2 DEF Shape, ReplySet, Tokens, Names
    <3> QED BY <1>1, <1>5, <2>1, <2>3, <3>1, <3>2, ShapeEnds DEF Lookup
  <2> QED BY <1>8, <2>2, <2>3 DEF ListNew
<1>9. CASE ListFails
  BY <1>1, <1>5, <1>9, ShapeEnds DEF ListFails
<1>10. CASE MissingDependency
  <2>1. lists' = NoLists
    BY <1>10 DEF MissingDependency, Shape
  <2> QED BY <1>3, <1>5, <1>10, <2>1, ShapeEnds DEF MissingDependency
<1>11. CASE SkipVisited
  BY <1>11 DEF SkipVisited, Shape, ReplySet, Tokens, Names
<1>12. [token |-> held, tries |-> Retries] \in [token : Tokens, tries : 0 .. Retries]
  BY DEF TokenTypeOK, Retries
<1>13. CASE AskService
  <2>1. phase' = "status" /\ get' = [token |-> held, tries |-> Retries] /\ phase = "walk"
    BY <1>13 DEF AskService, StartsGet
  <2> QED BY <1>12, <1>13, <2>1 DEF AskService, Shape, ReplySet, Tokens, Names
<1>14. CASE Answered
  <2>1. lists' = NoLists
    BY <1>14 DEF Answered, Shape
  <2> QED BY <1>1, <1>5, <1>14, <2>1, ShapeEnds DEF Answered
<1>15. CASE AttemptFails
  <2>1. get' \in [token : Tokens, tries : 0 .. Retries]
    BY <1>15 DEF AttemptFails, Spent, Shape, Retries
  <2> QED BY <1>15, <2>1 DEF AttemptFails, Shape, ReplySet, Tokens, Names
<1>16. CASE GetFails
  <2>1. lists' = NoLists
    BY <1>16 DEF GetFails, InGet, Shape
  <2> QED BY <1>1, <1>3, <1>4, <1>5, <1>16, <2>1, ShapeEnds DEF GetFails
<1>17. CASE Refused
  <2>1. lists' = NoLists
    BY <1>17 DEF Refused, InGet, Shape
  <2> QED BY <1>1, <1>3, <1>4, <1>5, <1>17, <2>1, ShapeEnds DEF Refused
<1>18. CASE StatusRead
  <2>1. phase' = "healthz" /\ get' = [token |-> held, tries |-> Retries] /\ phase = "status"
    BY <1>18 DEF StatusRead, StartsGet
  <2> QED BY <1>12, <1>18, <2>1 DEF StatusRead, Shape, ReplySet, Tokens, Names
<1>19. CASE HealthRead
  <2>1. phase' = "walk" /\ get' = NoGet /\ phase = "healthz"
    BY <1>19 DEF HealthRead
  <2> QED BY <1>19, <2>1, NoGetTyped DEF HealthRead, Shape, ReplySet, Tokens, Names
<1>20. CASE ProcessEnds
  <2>1. CASE phase = "idle"
    BY <1>20, <2>1 DEF ProcessEnds, Shape, ReplySet, Tokens, Names
  <2>2. CASE phase # "idle"
    BY <1>1, <1>5, <1>20, <2>2, ShapeEnds DEF ProcessEnds
  <2> QED BY <2>1, <2>2
<1>21. CASE UNCHANGED requestVars
  BY <1>21 DEF requestVars, Shape, ReplySet, Tokens, Names
<1> QED
  BY <1>6, <1>7, <1>8, <1>9, <1>10, <1>11, <1>13, <1>14, <1>15, <1>16, <1>17, <1>18,
     <1>19, <1>20, <1>21
  DEF Next, Handler, Background, vars

\* Every variable of the request and of the watcher keeps its type, for any lists of
\* the two APIs; only between the two lists is one of them kept, and a GET is always
\* made for a service that is being visited.
THEOREM TypeCorrect == Spec => []TypeOK
<1>1. Init => TokenTypeOK /\ Shape
  <2> SUFFICES ASSUME Init PROVE TokenTypeOK /\ Shape
    OBVIOUS
  <2>1. event \in BOOLEAN /\ settled \in BOOLEAN
    BY Zenon DEF Init, TokenInit
  <2>2. TokenTypeOK
    BY <2>1, BoundsAssumption DEF Init, TokenInit, TokenTypeOK, Tokens, NoToken
  <2> QED BY <2>2, NoReplyTyped, NoGetTyped DEF Init, Shape, Names
<1>2. RequestInv /\ (TokenTypeOK /\ Shape) /\ [Next]_vars => (TokenTypeOK /\ Shape)'
  <2> SUFFICES ASSUME RequestInv, TokenTypeOK, Shape, [Next]_vars PROVE (TokenTypeOK /\ Shape)'
    OBVIOUS
  <2>1. CASE Kubelet \/ Watcher \/ WatcherFails
    BY <2>1, TokenTypeStep, ShapeStep
  <2>2. CASE UNCHANGED tokenVars
    BY <2>2, ShapeStep DEF tokenVars, TokenTypeOK, Tokens
  <2> QED
    BY <2>1, <2>2, RequestLeavesToken DEF Next, Background, ProcessEnds, vars
<1>3. RequestInv /\ TokenTypeOK /\ Shape => TypeOK
  <2> SUFFICES ASSUME RequestInv, TokenTypeOK, Shape PROVE TypeOK
    OBVIOUS
  <2>1. InGet => pending # <<>>
    BY DEF RequestInv, WalkInv, InGet
  <2>2. phase = "list" <=> lists # NoLists
    BY DEF Shape, ListSet, NoLists
  <2>3. lists \in {NoLists} \union ListSet
    BY DEF Shape
  <2> QED BY <2>1, <2>2, <2>3 DEF TypeOK, RequestInv, WalkTyped, Shape, Names, ListSet, ReplySet, CallSet
<1> QED BY <1>1, <1>2, <1>3, RequestAlways, PTL DEF Spec
================================================================================
