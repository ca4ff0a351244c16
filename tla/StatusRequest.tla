----------------------------- MODULE StatusRequest -----------------------------
(***************************************************************************)
(* A status request to site-manager (GetServiceStatus, GetAllServices and  *)
(* collectServicesStatuses of cr_manager.go): it puts a dictionary together *)
(* from the lists of two APIs, whose caches change meanwhile, asks the     *)
(* service and, on demand, whatever it depends on, along lists that may be *)
(* cyclic or name resources that do not exist.  Every GET carries the      *)
(* token that TokenWatcher holds when it is made.  Requests share nothing  *)
(* else, so one at a time is modelled.                                     *)
(***************************************************************************)
EXTENDS TokenWatcher, SequencesExt

CONSTANTS
  Services,      \* names, of resources or only in dependency lists
  NoName,        \* a request without run-service
  LegacyLists,   \* what the cache of the legacy API may hold: lists by service name
  NewLists       \* what the cache of the new API may hold

Dependencies == [after : Seq(Services), before : Seq(Services)]

ASSUME ServicesAssumption == NoName \notin Services

IsDictionary(d) == DOMAIN d \subseteq Services /\ d \in [DOMAIN d -> Dependencies]

ASSUME ListsAssumption == \A d \in LegacyLists \union NewLists : IsDictionary(d)

Caches == [legacy : LegacyLists, new : NewLists]

VARIABLES
  lists,     \* in GetAllServices: the list read, the caches as they are now, and, as
             \* history, the services in a cache since then that were not moved back
  dict,      \* smDict of the request
  procedure, \* of the request, "status", or "list", which GET /sitemanager is like
  target,    \* the service the request names
  withDeps,
  pending,   \* calls of collectServicesStatuses still to make: a service and the one naming it
  found,     \* the services in resultStatus
  phase,     \* "idle", "list", "walk", or the GET under way: "status", "healthz"
  get,       \* its token and the attempts left
  answer     \* of the last request

requestVars == <<lists, dict, procedure, target, withDeps, pending, found, phase, get, answer>>
vars == <<tokenVars, requestVars>>

Retries == 3

Reply(kind, service, problem) == [kind |-> kind, service |-> service, problem |-> problem]
NoReply == Reply("none", NoName, NoName)
NoList == [s \in {} |-> NoReply]
NoLists == <<>>
NoGet == [token |-> NoToken, tries |-> 0]

Call(s, by) == [service |-> s, by |-> by]
Calls(names, by) == [i \in DOMAIN names |-> Call(names[i], by)]

\* mutant: parentService is handed on instead of &service.
Recursion_Parent(s, by) == Calls(dict[s].after, by) \o Calls(dict[s].before, by)

\* mutant: the second recursive call is forgotten.
Recursion_After(s, by) == Calls(dict[s].after, s)

\* What a visit to s adds in front: its after list, then its before list, each
\* with s as the resource to blame.
Recursion(s, by) == Calls(dict[s].after, s) \o Calls(dict[s].before, s)

\* mutant: no look into resultStatus before the service is asked.
Visited_Never(s) == FALSE

Visited(s) == s \in found

Init ==
  /\ TokenInit
  /\ lists = NoLists /\ dict = NoList
  /\ procedure = "list" /\ target = NoName /\ withDeps = FALSE /\ pending = <<>> /\ found = {}
  /\ phase = "idle" /\ get = NoGet /\ answer = NoReply

---------------------------------------------------------------------------
(* The request *)

Ends(reply) == phase' = "idle" /\ get' = NoGet /\ answer' = reply

\* mutant: the new resources are listed first.
Order_NewFirst == <<"new", "legacy">>

\* In which order GetAllServices lists the resources.
Order == <<"legacy", "new">>

\* Of the services steady so far, those the caches c leave in one of them and do not
\* bring back to the legacy one.
StillSteady(c) ==
  {s \in lists.steady \intersect (DOMAIN c.legacy \union DOMAIN c.new) :
     s \in DOMAIN c.legacy => s \in DOMAIN lists.now.legacy}

\* A new resource shadows a legacy one of the same name.
ConvertToDict(legacy, new) ==
  [s \in DOMAIN legacy \union DOMAIN new |-> IF s \in DOMAIN new THEN new[s] ELSE legacy[s]]

\* The caches are as they are, and the first list is read.
Ask ==
  /\ phase = "idle" /\ phase' = "list"
  /\ \E c \in Caches :
       lists' = [read |-> c[Order[1]], now |-> c, steady |-> DOMAIN c.legacy \union DOMAIN c.new]
  /\ \/ /\ procedure' = "status" /\ withDeps' \in BOOLEAN
        /\ target' \in Services \union {NoName}
     \/ procedure' = "list" /\ withDeps' = FALSE /\ target' = NoName
  /\ dict' = NoList /\ pending' = <<>> /\ found' = {} /\ answer' = NoReply
  /\ UNCHANGED <<get, tokenVars>>

\* An informer hears of changes to the resources of one API.  This happens at any
\* time, and matters between the two lists only.
CacheChanges ==
  /\ phase = "list"
  /\ \E c \in Caches :
       /\ c.legacy = lists.now.legacy \/ c.new = lists.now.new
       /\ lists' = [lists EXCEPT !.now = c, !.steady = StillSteady(c)]
  /\ UNCHANGED <<dict, procedure, target, withDeps, pending, found, phase, get, answer, tokenVars>>

\* The dictionary, or its names, are the answer.
Listed == Ends(Reply("listed", NoName, NoName)) /\ pending' = <<>>

\* The name may be missing or unknown.
Lookup(n) ==
  \/ n = NoName /\ Ends(Reply("undefined", NoName, NoName)) /\ pending' = <<>>
  \/ /\ n \in Services \ DOMAIN dict'
     /\ Ends(Reply("unknown", n, NoName)) /\ pending' = <<>>
  \/ /\ n \in DOMAIN dict'
     /\ phase' = "walk" /\ pending' = <<Call(n, NoName)>> /\ UNCHANGED <<get, answer>>

ListNew ==
  /\ phase = "list"
  /\ LET second == lists.now[Order[2]]
     IN  dict' = IF Order[1] = "legacy" THEN ConvertToDict(lists.read, second)
                                        ELSE ConvertToDict(second, lists.read)
  /\ lists' = NoLists
  /\ IF procedure = "list" THEN Listed ELSE Lookup(target)
  /\ UNCHANGED <<procedure, target, withDeps, found, tokenVars>>

\* Either list may fail.
ListFails ==
  /\ phase = "list"
  /\ Ends(Reply("error", NoName, NoName)) /\ lists' = NoLists
  /\ UNCHANGED <<dict, procedure, target, withDeps, pending, found, tokenVars>>

\* parentService is dereferenced here: there must be one.
MissingDependency ==
  /\ phase = "walk" /\ pending # <<>>
  /\ Head(pending).service \notin DOMAIN dict
  /\ Ends(Reply("missing", Head(pending).service, Head(pending).by))
  /\ UNCHANGED <<lists, dict, procedure, target, withDeps, pending, found, tokenVars>>

SkipVisited ==
  /\ phase = "walk" /\ pending # <<>>
  /\ Head(pending).service \in DOMAIN dict /\ Visited(Head(pending).service)
  /\ pending' = Tail(pending)
  /\ UNCHANGED <<lists, dict, procedure, target, withDeps, found, phase, get, answer, tokenVars>>

\* GetToken is evaluated once for all attempts of a GET.
StartsGet(part) == phase' = part /\ get' = [token |-> held, tries |-> Retries]

AskService ==
  /\ phase = "walk" /\ pending # <<>>
  /\ Head(pending).service \in DOMAIN dict /\ ~Visited(Head(pending).service)
  /\ StartsGet("status")
  /\ UNCHANGED <<lists, dict, procedure, target, withDeps, pending, found, answer, tokenVars>>

Answered ==
  /\ phase = "walk" /\ pending = <<>>
  /\ Ends(Reply("services", NoName, NoName))
  /\ UNCHANGED <<lists, dict, procedure, target, withDeps, pending, found, tokenVars>>

---------------------------------------------------------------------------
(* One GET, of the status or of the health: DoGetRequest *)

InGet == phase \in {"status", "healthz"}

\* mutant: the loop does not end by itself.
Spent_Never == FALSE

Spent == get.tries = 0

AttemptFails ==
  /\ InGet /\ ~Spent
  /\ get' = [get EXCEPT !.tries = get.tries - 1]
  /\ UNCHANGED <<lists, dict, procedure, target, withDeps, pending, found, phase, answer, tokenVars>>

\* Three lost attempts, a status outside 2xx, a body that cannot be read.
GetFails ==
  /\ InGet
  /\ Ends(Reply("failed", Head(pending).service, NoName))
  /\ UNCHANGED <<lists, dict, procedure, target, withDeps, pending, found, tokenVars>>

\* A service that checks the token answers 401; the request is not repeated.
Refused ==
  /\ InGet /\ ~Spent /\ get.token < oldest
  /\ Ends(Reply("refused", Head(pending).service, NoName))
  /\ UNCHANGED <<lists, dict, procedure, target, withDeps, pending, found, tokenVars>>

StatusRead ==
  /\ phase = "status" /\ ~Spent
  /\ StartsGet("healthz")
  /\ UNCHANGED <<lists, dict, procedure, target, withDeps, pending, found, answer, tokenVars>>

HealthRead ==
  /\ phase = "healthz" /\ ~Spent
  /\ LET call == Head(pending)
     IN  /\ found' = found \union {call.service}
         /\ pending' = IF withDeps
                       THEN Recursion(call.service, call.by) \o Tail(pending)
                       ELSE Tail(pending)
  /\ phase' = "walk" /\ get' = NoGet
  /\ UNCHANGED <<lists, dict, procedure, target, withDeps, answer, tokenVars>>

---------------------------------------------------------------------------

\* The process takes the request with it.
ProcessEnds ==
  /\ WatcherFails
  /\ IF phase = "idle" THEN UNCHANGED <<phase, get, answer>>
                       ELSE Ends(Reply("lost", NoName, NoName))
  /\ lists' = NoLists
  /\ UNCHANGED <<dict, procedure, target, withDeps, pending, found>>

Background == (Kubelet \/ Watcher) /\ UNCHANGED requestVars

Handler ==
  \/ ListNew \/ ListFails
  \/ MissingDependency \/ SkipVisited \/ AskService \/ Answered
  \/ AttemptFails \/ GetFails \/ Refused \/ StatusRead \/ HealthRead

Next == Ask \/ CacheChanges \/ Handler \/ Background \/ ProcessEnds

Spec == Init /\ [][Next]_vars

\* The goroutines of the watcher and of the request are scheduled, a GET has a
\* timeout, and the kubelet removes what it has replaced.
FairSpec == Spec /\ TokenFairness /\ WF_vars(Handler)

---------------------------------------------------------------------------

Kinds == {"none", "error", "undefined", "unknown", "missing", "services",
          "listed", "failed", "refused", "lost"}

TypeOK ==
  /\ TokenTypeOK
  /\ lists \in {NoLists} \union [read : LegacyLists, now : Caches, steady : SUBSET Services]
  /\ IsDictionary(dict)
  /\ procedure \in {"list", "status"} /\ target \in Services \union {NoName}
  /\ withDeps \in BOOLEAN
  /\ pending \in Seq([service : Services, by : Services \union {NoName}])
  /\ found \subseteq DOMAIN dict
  /\ phase \in {"idle", "list", "walk", "status", "healthz"}
  /\ get \in [token : Tokens, tries : 0 .. Retries]
  /\ answer \in [kind : Kinds, service : Services \union {NoName},
                 problem : Services \union {NoName}]
  /\ InGet => pending # <<>>
  /\ phase = "list" <=> lists # NoLists

\* Definition of what a status with dependencies is about: the least set of names
\* that holds the service and, with a resource, everything the resource names.
Named(s) == ToSet(dict[s].after) \union ToSet(dict[s].before)
Closed(names) == \A s \in names \intersect DOMAIN dict : Named(s) \subseteq names
Reached == {m \in Services :
              \A names \in SUBSET Services :
                 (target \in names /\ Closed(names)) => m \in names}

\* An answer has a status for exactly the services the request is about, whatever
\* cycles the lists have, and there is none if one of them does not exist.
\* cr_manager.go:181.
StatusIsClosure ==
  answer.kind = "services" => found = IF withDeps THEN Reached ELSE {target}

\* A reported missing dependency does not exist, and the resource that is blamed
\* does name it and is one the request is about; so parentService was not nil when
\* it was dereferenced.  cr_manager.go:185.
MissingIsReal ==
  answer.kind = "missing" =>
    /\ withDeps
    /\ answer.service \notin DOMAIN dict
    /\ answer.problem \in DOMAIN dict \intersect Reached
    /\ answer.service \in Named(answer.problem)

\* A service whose resource is moved from the legacy to the new API under a request,
\* or changed, or stays as it is, is not answered as unknown, which sm-client takes
\* as done, and is in every dictionary that is listed to sm-client or walked, as long
\* as at every moment one of the two caches has it; only a move back may hide it.
\* cr_manager.go:108.
MovedServiceIsSeen ==
  [][phase = "list" => /\ answer'.kind = "unknown" => target \notin lists.steady
                       /\ phase' = "walk" \/ answer'.kind = "listed" =>
                            lists.steady \subseteq DOMAIN dict']_vars

\* A status request ends, on cyclic dependencies too.  cr_manager.go:188.
StatusEnds == (phase # "idle") ~> (phase = "idle")
================================================================================
