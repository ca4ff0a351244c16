------------------------------ MODULE DRProcedure ------------------------------
(***************************************************************************)
(* The engine of sm-client: run_dr_or_site_procedure walks the configured  *)
(* flow of modules, process_ts_services runs the services of one module in *)
(* dependency order, one thread per service, and collects the results from *)
(* a queue (sm_client/processing.py, sm_client/data/structures.py).        *)
(*                                                                         *)
(* Sites are named relative to the command line: "site" is the site the    *)
(* operator names, "opposite" the other one.  The dr-managed services are  *)
(* the environment: a POST leaves a request pending at a service, which    *)
(* applies it or fails some time later.                                    *)
(***************************************************************************)
EXTENDS Naturals, Sequences, FiniteSets

CONSTANTS
  Services,    \* names of the services of the cluster
  Modules,     \* names of the modules of the flow
  ModuleOf,    \* the module of every service
  After,       \* After[s]: the services s waits for, as the prepared graph has them
  SequenceOf,  \* SequenceOf[x][s]: first mode of the sequence of s declared on site x
  Flow,        \* the flow of the configuration: a sequence of [module, states]
  Lenient,     \* services that allow "down" or "degraded" on a standby site
  FirstSite,   \* the site the configuration lists first
  Clusters,    \* what the sites may answer: [up, located, cyclic]
  Selected,    \* services left by --run-services and --skip-services
  Cmds,        \* the commands the operator may give
  Forces,      \* the values --force may have
  InitModes,   \* the modes the services may start in
  Removable,   \* Removable[x]: services whose custom resource on x may be deleted meanwhile
  Unnamed      \* whether an error answer may name no service

Sites == {"site", "opposite"}
Modes == {"active", "standby", "disable"}
SiteCmds == {"active", "standby", "return", "disable"}
DRCmds == {"move", "stop"}
StatesKinds == {"all", "passive", "active"}  \* none, [standby, disable], [active]
None == "none"

ASSUME ServicesAssumption ==
  /\ ModuleOf \in [Services -> Modules]
  /\ After \in [Services -> SUBSET Services]
  /\ SequenceOf \in [Sites -> [Services -> {"active", "standby"}]]
  /\ Lenient \subseteq Services
  /\ Clusters \subseteq
       [up: SUBSET Sites, located: [Sites -> SUBSET Services], cyclic: SUBSET Modules]
  /\ \A c \in Clusters, x \in Sites : x \notin c.up => c.located[x] = {}
  /\ Selected \subseteq Services

\* graphlib refuses a graph with a cycle (prepare.py), see Preparation!GraphsRunnable.
ASSUME AcyclicAssumption ==
  \A m \in Modules : \A N \in (SUBSET {s \in Services : ModuleOf[s] = m}) \ {{}} :
    \E s \in N : After[s] \cap N = {}

ASSUME CommandAssumption ==
  /\ Flow \in Seq([module: Modules, states: StatesKinds])
  /\ FirstSite \in Sites
  /\ Cmds \subseteq SiteCmds \cup DRCmds
  /\ Forces \subseteq BOOLEAN
  /\ InitModes \subseteq [Sites -> [Services -> Modes]]
  /\ Removable \in [Sites -> SUBSET Services]
  /\ Unnamed \in BOOLEAN

\* No procedure is begun on a service that is active on both sites.  Init has no
\* service still at an earlier command; StatusPolling begins with those too.
ASSUME OneActiveAssumption ==
  \A m \in InitModes, s \in Services : ~(m["site"][s] = "active" /\ m["opposite"][s] = "active")

VARIABLES
  cmd, force,           \* the command line
  up, located,          \* sm_dict: the sites that answered, the services they listed
  cyclic,               \* modules whose lists make a cycle when both sites' are merged
  pc, step, drStatus,   \* main thread: position, index in the flow, dr_status
  batch, issued, tsdone, failedSucc,  \* process_ts_services: the sorter and failed_successors
  queue,                \* thread_result_queue: names, the result itself is resp[s]
  wpc, phase, resp,     \* the service threads: position, index in the plan, service_response
  done, failed, warned, skipped,      \* the result lists of settings.py
  mode, pending,        \* the services: mode they are in, mode requested by a POST
  removed               \* services whose custom resource was deleted since it was listed

cli == <<cmd, force, up, located, cyclic>>
flowVars == <<step, drStatus>>
sorter == <<batch, issued, tsdone, failedSucc>>
threads == <<wpc, phase, resp>>
results == <<done, failed, warned, skipped>>
world == <<mode, pending, removed>>
vars == <<cli, pc, flowVars, sorter, queue, threads, results, world>>

----------------------------------------------------------------------------
(* What a step of the flow asks of a service. *)

Convert(c) == IF c = "return" THEN "standby" ELSE c

States == Flow[step].states

\* The command a module receives: its own first state for a DR procedure.
StepCmd ==
  CASE States = "all" -> cmd
    [] States # "all" /\ cmd \in DRCmds -> IF States = "active" THEN "active" ELSE "standby"
    [] OTHER -> Convert(cmd)

\* The site a module is processed on.
StepSite ==
  IF /\ States # "all"
     /\ \/ StepCmd = "active" /\ cmd = "stop"
        \/ StepCmd # "active" /\ cmd = "move"
  THEN "opposite" ELSE "site"

On(x, m) == [site |-> x, mode |-> m]

\* The order of sites and modes of a switchover or a failover of service s.
DROperationSequence(s) ==
  LET declaring == IF cmd = "stop" /\ s \in located["opposite"] THEN "opposite" ELSE "site"
      toActive == On(IF cmd = "move" THEN "site" ELSE "opposite", "active")
      toStandby == On(IF cmd = "move" THEN "opposite" ELSE "site", "standby")
  IN IF SequenceOf[declaring][s] = "standby"
     THEN <<toStandby, toActive>> ELSE <<toActive, toStandby>>

Plan(s) ==
  IF StepCmd \in SiteCmds THEN <<On(StepSite, Convert(StepCmd))>> ELSE DROperationSequence(s)

Now(s) == Plan(s)[phase[s]]

\* Failures of the site that a failover passivates are forced and allowed.
Tolerated(m) == cmd = "stop" /\ m = "standby"

\* A response: st is service_status, allow is allow_failure.
Response(st, m) == [st |-> st, allow |-> Tolerated(m)]
NotOk == [st |-> FALSE, allow |-> FALSE]
IsOk(r) == r.st \/ r.allow
\* service_status of a response without an accepted healthz, status not failed.
Forced_Always(m) == m \in Modes                     \* mutant: force by default
Forced(m) == force \/ Tolerated(m)

----------------------------------------------------------------------------
(* The prepared sorter of the module being processed. *)

\* The sites whose lists make the graph of module m; a failover falls back on the
\* surviving site alone when the merged lists cannot be ordered.
UsedSites(m) ==
  CASE cmd \notin DRCmds -> {"site"}
    [] cmd = "stop" /\ m \in cyclic -> {"opposite"}
    [] OTHER -> up
FirstAvailable == IF FirstSite \in up THEN FirstSite ELSE CHOOSE x \in Sites : x # FirstSite

Graph(m) == {s \in Selected : ModuleOf[s] = m /\ \E x \in UsedSites(m) : s \in located[x]}

Nodes == Graph(Flow[step].module)
Preds(s) == After[s] \cap Nodes
Successors(s) == {t \in Nodes : s \in After[t]}
Ready_Unordered == Nodes \ issued                   \* mutant: dependencies ignored
Ready == {s \in Nodes \ issued : Preds(s) \subseteq tsdone}
IsActive == issued # tsdone \/ Ready # {}

----------------------------------------------------------------------------
(* The result lists. *)

\* mutant: a response that is not ok is forgotten
SortOut_Lossy(s, r) ==
  /\ done' = IF r.st THEN done \cup {s} ELSE done \ {s}
  /\ UNCHANGED <<failed, warned, skipped>>

\* mutant: a later success clears the warning
SortOut_Clears(s, r) ==
  /\ skipped' = skipped
  /\ done' = IF r.st /\ s \notin failed THEN done \cup {s} ELSE done \ {s}
  /\ warned' = IF ~r.st /\ r.allow /\ s \notin failed THEN warned \cup {s} ELSE warned \ {s}
  /\ failed' = IF IsOk(r) THEN failed ELSE failed \cup {s}

\* sortout_service_results of the response r of service s.
SortOut(s, r) ==
  /\ skipped' = skipped
  /\ \/ /\ r.st
        /\ done' = IF s \in failed \cup warned THEN done ELSE done \cup {s}
        /\ UNCHANGED <<failed, warned>>
     \/ /\ ~r.st /\ r.allow
        /\ warned' = IF s \in failed THEN warned ELSE warned \cup {s}
        /\ done' = IF s \in failed THEN done ELSE done \ {s}
        /\ UNCHANGED failed
     \/ /\ ~IsOk(r)
        /\ failed' = failed \cup {s}
        /\ warned' = warned \ {s}
        /\ done' = done \ {s}

\* Both callers leave the lists alone for a service that is already skipped.
SortOutUnlessSkipped(s, r) ==
  IF s \in skipped THEN UNCHANGED results ELSE SortOut(s, r)

\* mutant: the service stays in the list it was in
SkipServices_Keep(S) ==
  skipped' = skipped \cup (S \ failed) /\ UNCHANGED <<done, failed, warned>>

\* skip_service_due_deps for every service of S.
SkipServices(S) ==
  /\ skipped' = skipped \cup (S \ failed)
  /\ done' = done \ (S \ failed)
  /\ warned' = warned \ (S \ failed)
  /\ UNCHANGED failed

----------------------------------------------------------------------------
\* What validate_operation demands of the sites before anything is processed.
ValidCommand ==
  CASE cmd = "move" -> up = Sites /\ cyclic = {} /\ \A x \in Sites : Selected \subseteq located[x]
    [] cmd = "stop" -> "opposite" \in up
    [] OTHER -> "site" \in up

Init ==
  /\ cmd \in Cmds /\ force \in Forces
  /\ \E c \in Clusters : up = c.up /\ located = c.located /\ cyclic = c.cyclic
  /\ ValidCommand
  /\ pc = "flow" /\ step = 1 /\ drStatus = TRUE
  /\ batch = {} /\ issued = {} /\ tsdone = {} /\ failedSucc = {}
  /\ queue = <<>>
  /\ wpc = [s \in Services |-> "idle"]
  /\ phase = [s \in Services |-> 1]
  /\ resp = [s \in Services |-> NotOk]
  /\ done = {} /\ failed = {} /\ warned = {} /\ skipped = {}
  /\ mode \in InitModes
  /\ pending = [x \in Sites |-> [s \in Services |-> None]]
  /\ removed = [x \in Sites |-> {}]

----------------------------------------------------------------------------
(* Main thread: the loop over the flow. *)

AtStep == pc = "flow" /\ step <= Len(Flow)
BreaksFlow == cmd \in {"standby", "disable", "return"} /\ States = "active"
Irrelevant == cmd = "active" /\ States = "passive"

\* A former step failed: what the first site has of this module is skipped.
SkipModule ==
  /\ AtStep /\ ~drStatus
  /\ SkipServices({s \in located[FirstAvailable] : ModuleOf[s] = Flow[step].module})
  /\ step' = step + 1
  /\ UNCHANGED <<cli, pc, drStatus, sorter, queue, threads, world>>

BreakFlow ==
  /\ AtStep /\ drStatus /\ BreaksFlow
  /\ pc' = "end"
  /\ UNCHANGED <<cli, flowVars, sorter, queue, threads, results, world>>

PassModule ==
  /\ AtStep /\ drStatus /\ Irrelevant
  /\ step' = step + 1
  /\ UNCHANGED <<cli, pc, drStatus, sorter, queue, threads, results, world>>

StartModule ==
  /\ AtStep /\ drStatus /\ ~BreaksFlow /\ ~Irrelevant
  /\ pc' = "loop"
  /\ batch' = {} /\ issued' = {} /\ tsdone' = {} /\ failedSucc' = {}
  /\ wpc' = [s \in Services |-> "idle"]
  /\ phase' = [s \in Services |-> 1]
  /\ resp' = [s \in Services |-> NotOk]
  /\ UNCHANGED <<cli, flowVars, queue, results, world>>

EndFlow ==
  /\ pc = "flow" /\ step > Len(Flow)
  /\ pc' = "end"
  /\ UNCHANGED <<cli, flowVars, sorter, queue, threads, results, world>>

----------------------------------------------------------------------------
(* Main thread: process_ts_services. *)

GetReady ==
  /\ pc = "loop" /\ IsActive
  /\ pc' = "dispatch"
  /\ batch' = Ready
  /\ issued' = issued \cup Ready
  /\ UNCHANGED <<cli, flowVars, tsdone, failedSucc, queue, threads, results, world>>

StartThread(s) ==
  /\ pc = "dispatch" /\ s \in batch \ failedSucc
  /\ batch' = batch \ {s}
  /\ wpc' = [wpc EXCEPT ![s] = "post"]
  /\ UNCHANGED <<cli, pc, flowVars, issued, tsdone, failedSucc, queue, phase, resp, results, world>>

\* mutant: nothing is queued for the skipped service
SkipService_Silent(s) ==
  /\ pc = "dispatch" /\ s \in batch \cap failedSucc
  /\ batch' = batch \ {s}
  /\ SkipServices({s})
  /\ wpc' = [wpc EXCEPT ![s] = "skipped"]
  /\ UNCHANGED <<cli, pc, flowVars, issued, tsdone, failedSucc, queue, phase, resp, world>>

\* A predecessor failed: no thread, a response that is not ok is queued instead.
SkipService(s) ==
  /\ pc = "dispatch" /\ s \in batch \cap failedSucc
  /\ batch' = batch \ {s}
  /\ SkipServices({s})
  /\ wpc' = [wpc EXCEPT ![s] = "skipped"]
  /\ queue' = Append(queue, s)
  /\ UNCHANGED <<cli, pc, flowVars, issued, tsdone, failedSucc, phase, resp, world>>

Doomed_None(s) == failedSucc \ {s}                  \* mutant: successors are not marked
Doomed_All(s) == failedSucc \cup Successors(s)      \* mutant: marked after a success too
\* failed_successors after the result of s.
Doomed(s) == IF IsOk(resp[s]) THEN failedSucc ELSE failedSucc \cup Successors(s)

\* mutant: the get gives up on a service after a while
GetResult_GivesUp ==
  /\ pc = "dispatch" /\ batch = {}
  /\ \E s \in issued \ tsdone :
       tsdone' = tsdone \cup {s} /\ failedSucc' = failedSucc \cup Successors(s)
  /\ pc' = "loop"
  /\ UNCHANGED <<cli, flowVars, batch, issued, queue, threads, results, world>>

\* The blocking get, once every ready service has been seen to.
GetResult ==
  /\ pc = "dispatch" /\ batch = {} /\ queue # <<>>
  /\ LET s == Head(queue)
     IN /\ failedSucc' = Doomed(s)
        /\ tsdone' = tsdone \cup {s}
        /\ SortOutUnlessSkipped(s, resp[s])
  /\ queue' = Tail(queue)
  /\ pc' = "loop"
  /\ UNCHANGED <<cli, flowVars, batch, issued, threads, world>>

StatusAfter_Kept == drStatus                        \* mutant: failures of the module ignored
StatusAfter == failed = {}

\* Every node of the graph is done: the threads are joined.
FinishModule ==
  /\ pc = "loop" /\ ~IsActive
  /\ \A s \in Services : wpc[s] \in {"idle", "skipped", "ended", "dead"}
  /\ pc' = "flow"
  /\ step' = step + 1
  /\ drStatus' = StatusAfter
  /\ UNCHANGED <<cli, sorter, queue, threads, results, world>>

----------------------------------------------------------------------------
(* Service threads: sm_process_service_with_polling. *)

\* mutant: a failed phase does not end the loop over the plan
Advance_NoBreak(s, r) ==
  /\ resp' = [resp EXCEPT ![s] = r]
  /\ IF phase[s] < Len(Plan(s))
     THEN phase' = [phase EXCEPT ![s] = @ + 1] /\ wpc' = [wpc EXCEPT ![s] = "post"]
     ELSE wpc' = [wpc EXCEPT ![s] = "put"] /\ UNCHANGED phase

\* mutant: the index moves past the end of the plan
Advance_PastEnd(s, r) ==
  /\ resp' = [resp EXCEPT ![s] = r]
  /\ phase' = [phase EXCEPT ![s] = @ + 1]
  /\ wpc' = [wpc EXCEPT ![s] = IF phase[s] < Len(Plan(s)) THEN "post" ELSE "put"]

\* The response r closes a phase: the next phase, or the end of the loop.
Advance(s, r) ==
  /\ resp' = [resp EXCEPT ![s] = r]
  /\ IF IsOk(r) /\ phase[s] < Len(Plan(s))
     THEN /\ phase' = [phase EXCEPT ![s] = @ + 1]
          /\ wpc' = [wpc EXCEPT ![s] = "post"]
     ELSE /\ wpc' = [wpc EXCEPT ![s] = "put"]
          /\ UNCHANGED phase

\* The lookup of the service on the site of its phase.
Managed(s) == s \in located[Now(s).site] /\ s \notin removed[Now(s).site]
Request(s) == pending' = [pending EXCEPT ![Now(s).site][s] = Now(s).mode]

\* The site does not list the service, or answers that it does not exist.
PostNowhere(s) ==
  /\ wpc[s] = "post" /\ ~Managed(s)
  /\ Advance(s, Response(TRUE, IF s \in located[Now(s).site] THEN Now(s).mode ELSE None))
  /\ UNCHANGED <<cli, pc, flowVars, sorter, queue, results, world>>

PostAccepted(s) ==
  /\ wpc[s] = "post" /\ Managed(s)
  /\ Request(s)
  /\ wpc' = [wpc EXCEPT ![s] = "poll"]
  /\ UNCHANGED <<cli, pc, flowVars, sorter, queue, phase, resp, results, mode, removed>>

\* An error or no answer in time: the service may have got the request anyway.
PostNoReply(s) ==
  /\ wpc[s] = "post" /\ s \in located[Now(s).site]
  /\ (Managed(s) /\ Request(s)) \/ UNCHANGED pending
  /\ Advance(s, Response(Forced(Now(s).mode), Now(s).mode))
  /\ UNCHANGED <<cli, pc, flowVars, sorter, queue, results, mode, removed>>

Polled(s, st) ==
  /\ SortOutUnlessSkipped(s, Response(st, Now(s).mode))
  /\ Advance(s, Response(st, Now(s).mode))
  /\ UNCHANGED <<cli, pc, flowVars, sorter, queue, world>>

\* The expected state is seen, or polling ends with "Service doesn't exist".
PollReached(s) ==
  /\ wpc[s] = "poll"
  /\ mode[Now(s).site][s] = Now(s).mode \/ s \in removed[Now(s).site]
  /\ Polled(s, TRUE)

\* A lenient service that was never started on its new mode may report done
\* and an allowed health: polling stops at once, whatever the mode.
PollHealthAllowed(s) ==
  /\ wpc[s] = "poll"
  /\ s \in Lenient /\ Now(s).mode = "standby"
  /\ Polled(s, TRUE)

\* Done but not healthy, or the timeout expired.
PollUnhealthy(s) ==
  /\ wpc[s] = "poll"
  /\ Polled(s, Forced(Now(s).mode))

PollFailed(s) ==
  /\ wpc[s] = "poll"
  /\ Polled(s, FALSE)

\* An error answer names no service: ServiceDRStatus raises and the thread dies.
ThreadDies(s) ==
  /\ Unnamed
  /\ wpc[s] = "poll" \/ (wpc[s] = "post" /\ s \in located[Now(s).site])
  /\ wpc' = [wpc EXCEPT ![s] = "dead"]
  /\ UNCHANGED pending \/ (wpc[s] = "post" /\ Managed(s) /\ Request(s))
  /\ UNCHANGED <<cli, pc, flowVars, sorter, queue, phase, resp, results, mode, removed>>

\* mutant: only acceptable results are handed over
PutResult_Ok(s) ==
  /\ wpc[s] = "put" /\ IsOk(resp[s])
  /\ queue' = Append(queue, s)
  /\ wpc' = [wpc EXCEPT ![s] = "ended"]
  /\ UNCHANGED <<cli, pc, flowVars, sorter, phase, resp, results, world>>

PutResult(s) ==
  /\ wpc[s] = "put"
  /\ queue' = Append(queue, s)
  /\ wpc' = [wpc EXCEPT ![s] = "ended"]
  /\ UNCHANGED <<cli, pc, flowVars, sorter, phase, resp, results, world>>

----------------------------------------------------------------------------
(* The dr-managed services and their custom resources. *)

ServiceApplies(x, s) ==
  /\ pending[x][s] # None
  /\ mode' = [mode EXCEPT ![x][s] = pending[x][s]]
  /\ pending' = [pending EXCEPT ![x][s] = None]
  /\ UNCHANGED <<cli, pc, flowVars, sorter, queue, threads, results, removed>>

ServiceFails(x, s) ==
  /\ pending[x][s] # None
  /\ pending' = [pending EXCEPT ![x][s] = None]
  /\ UNCHANGED <<cli, pc, flowVars, sorter, queue, threads, results, mode, removed>>

\* Only lookups notice: the service stays in its mode and applies what it was sent.
RemoveCR(x, s) ==
  /\ s \in (Removable[x] \cap located[x]) \ removed[x]
  /\ removed' = [removed EXCEPT ![x] = @ \cup {s}]
  /\ UNCHANGED <<cli, pc, flowVars, sorter, queue, threads, results, mode, pending>>

----------------------------------------------------------------------------
\* The process has printed its summary and exited.
Exited == pc = "end" /\ UNCHANGED vars

Main ==
  \/ SkipModule \/ BreakFlow \/ PassModule \/ StartModule \/ EndFlow
  \/ GetReady \/ GetResult \/ FinishModule
  \/ \E s \in Services : StartThread(s) \/ SkipService(s)

Thread(s) ==
  \/ PostNowhere(s) \/ PostAccepted(s) \/ PostNoReply(s)
  \/ PollReached(s) \/ PollHealthAllowed(s) \/ PollUnhealthy(s) \/ PollFailed(s)
  \/ ThreadDies(s) \/ PutResult(s)

Environment ==
  \E x \in Sites, s \in Services : ServiceApplies(x, s) \/ ServiceFails(x, s) \/ RemoveCR(x, s)

Next == Main \/ (\E s \in Services : Thread(s)) \/ Environment \/ Exited

Spec == Init /\ [][Next]_vars

\* The operating system schedules every thread; polling is bounded by a timeout.
FairSpec == Spec /\ WF_vars(Main) /\ \A s \in Services : WF_vars(Thread(s))

----------------------------------------------------------------------------
(* Properties. *)

TypeOK ==
  /\ cmd \in Cmds /\ force \in Forces
  /\ up \subseteq Sites /\ located \in [Sites -> SUBSET Services] /\ cyclic \subseteq Modules
  /\ pc \in {"flow", "loop", "dispatch", "end"}
  /\ step \in 1..(Len(Flow) + 1) /\ drStatus \in BOOLEAN
  /\ pc \in {"loop", "dispatch"} => step <= Len(Flow)
  /\ batch \subseteq Services /\ issued \subseteq Services
  /\ tsdone \subseteq Services /\ failedSucc \subseteq Services
  /\ queue \in Seq(Services)
  /\ wpc \in [Services -> {"idle", "post", "poll", "put", "ended", "skipped", "dead"}]
  /\ phase \in [Services -> 1..2]
  /\ resp \in [Services -> [st: BOOLEAN, allow: BOOLEAN]]
  /\ done \subseteq Services /\ failed \subseteq Services
  /\ warned \subseteq Services /\ skipped \subseteq Services
  /\ mode \in [Sites -> [Services -> Modes]]
  /\ pending \in [Sites -> [Services -> Modes \cup {None}]]
  /\ removed \in [Sites -> SUBSET Services]

InModule == pc \in {"loop", "dispatch"}
Started(s) == wpc[s] \notin {"idle", "skipped"}

\* A service is touched only when everything it waits for has been collected
\* with an acceptable result: no thread is started early, and none for a
\* successor of a service that failed or was skipped.
DependenciesAreOk ==
  InModule => \A s \in Services : Started(s) =>
    \A p \in Preds(s) : p \in tsdone /\ IsOk(resp[p])

\* A service is skipped inside a module only because a direct dependency
\* failed or was itself skipped.
SkippedHasCause ==
  InModule => \A s \in Services : wpc[s] = "skipped" =>
    \E p \in Preds(s) : p \in failed \cup skipped

\* While a module is processed, every failure on record was produced by this
\* very module: after a failure no later module of the flow is touched.
FailureStopsFlow ==
  InModule => \A s \in failed : s \in issued /\ Started(s)

\* The four result lists of the summary never overlap.
ResultListsDisjoint ==
  /\ done \cap failed = {} /\ done \cap warned = {} /\ done \cap skipped = {}
  /\ failed \cap warned = {} /\ failed \cap skipped = {} /\ warned \cap skipped = {}

\* The flow passivates s on one site before it activates s on the other.
StandbyFirst(s) ==
  LET steps == {k \in DOMAIN Flow : Flow[k].module = ModuleOf[s]}
  IN \A k \in steps :
       CASE Flow[k].states = "all" -> SequenceOf["site"][s] = "standby"
         [] Flow[k].states = "active" -> \E j \in steps : j < k /\ Flow[j].states = "passive"
         [] OTHER -> TRUE

\* A switchover without --force never makes a service active on both sites,
\* whatever requests are lost, late or failing and wherever it stops, unless its
\* resource is deleted on the opposite site: "Service doesn't exist" is a success
\* there (structures.py:177) and the service, still active, is activated here too.
\* A lenient service may break this as well (see StatusPolling).
NeverActiveTwice ==
  cmd = "move" /\ ~force =>
    \A s \in Services \ Lenient : StandbyFirst(s) /\ s \notin removed["opposite"] =>
      ~(mode["site"][s] = "active" /\ mode["opposite"][s] = "active")

\* The mode a command promises for a site; a failover promises nothing for
\* the site it gives up, a site command nothing for the other site.
Promised(x) ==
  CASE cmd = "move" -> IF x = "site" THEN {"active"} ELSE {"standby"}
    [] cmd = "stop" -> IF x = "site" THEN Modes ELSE {"active"}
    [] OTHER -> IF x = "site" THEN {Convert(cmd)} ELSE Modes

\* A service the summary reports as done or warned is in the mode the command
\* promises, on every site that lists it, unless its resource there was deleted.
ReportedIsApplied ==
  pc = "end" /\ ~force =>
    \A s \in (done \cup warned) \ Lenient, x \in Sites : s \in located[x] \ removed[x] =>
      mode[x][s] \in Promised(x)

\* The modules the command concerns: those processed, or skipped after a failure.
Concerned(k) ==
  /\ ~(cmd = "active" /\ Flow[k].states = "passive")
  /\ \A j \in 1..k : ~(cmd \in {"standby", "disable", "return"} /\ Flow[j].states = "active")

\* The summary accounts for every selected service the command concerns that
\* the first available site lists.
EveryServiceReported ==
  pc = "end" =>
    \A k \in DOMAIN Flow : Concerned(k) =>
      Graph(Flow[k].module) \cap located[FirstAvailable]
        \subseteq done \cup failed \cup warned \cup skipped

\* A thread that died is never overlooked: the module it belongs to does not
\* complete and the procedure does not report success without its result.
DeadBlocksEnd == (\E s \in Services : wpc[s] = "dead") => InModule

Blemished == warned \cup failed \cup skipped

\* A response that is not a success, once polled or collected, marks its service
\* for good: the second site, a later module or the other of the two threads that
\* sort results in never turns the service into one that is done, nor loses it.
BlemishesStay ==
  [][/\ Blemished \subseteq Blemished'
     /\ \A s \in Services :
          (wpc[s] = "poll" /\ wpc'[s] \in {"post", "put"}) \/ s \in tsdone' \ tsdone =>
            resp'[s].st \/ s \in Blemished']_vars

\* The state of a service in the terms of OrderedExecution.
Progress(s) ==
  CASE ~InModule \/ wpc[s] = "idle" -> "waiting"
    [] InModule /\ wpc[s] = "skipped" -> "skipped"
    [] InModule /\ s \in tsdone /\ wpc[s] \notin {"idle", "skipped"} -> IF IsOk(resp[s]) THEN "ok" ELSE "failed"
    [] OTHER -> "running"

Ordered == INSTANCE OrderedExecution WITH
  nodes <- IF InModule THEN Nodes ELSE {},
  st <- [s \in Services |-> Progress(s)],
  clean <- drStatus

\* Threads, queue and sorter together do what OrderedExecution promises.
RefinesOrderedExecution == Ordered!Spec

\* What the documentation says of a switchover: after the first unsuccessful
\* service it "does not start new services processing but finishes already
\* started ones" (documentation/public/architecture.md).
NoStartAfterFailure ==
  [][failed # {} => \A s \in Services : ~(wpc[s] = "idle" /\ wpc'[s] = "post")]_vars

\* Every thread that is started hands its result to the main thread: "process_func
\* have to put ServiceDRStatus result in thread_result_queue queue"
\* (sm_client/processing.py:73).
EveryThreadReports == \A s \in Services : wpc[s] = "post" ~> wpc[s] = "ended"

\* A thread that does not die hands over its result, whatever became of the others
\* and whatever the service answers or fails to answer.  processing.py:218.
SurvivorsReport == \A s \in Services : wpc[s] = "post" ~> wpc[s] \in {"ended", "dead"}

\* The procedure ends; nothing but a dead thread can keep the main thread in get(),
\* also when services were skipped, removed or never answer.  processing.py:97.
OnlyDeathBlocks == <>(pc = "end" \/ \E s \in Services : wpc[s] = "dead")
=============================================================================
