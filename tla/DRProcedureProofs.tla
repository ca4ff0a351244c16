--------------------------- MODULE DRProcedureProofs ---------------------------
(***************************************************************************)
(* Theorems about DRProcedure, for every set of services and modules,      *)
(* every flow, every dependency graph and every behaviour of the sites.    *)
(***************************************************************************)
EXTENDS DRProcedure, SequenceTheorems, TLAPS

Responses == [st: BOOLEAN, allow: BOOLEAN]
Running == {"post", "poll", "put"}

\* The loop over a plan stays inside it, and only a module has running threads.
PlanBound == InModule => \A s \in Services : phase[s] <= Len(Plan(s))
ThreadsInModule == ~InModule => \A s \in Services : wpc[s] \notin Running

TypeInv == TypeOK /\ PlanBound /\ ThreadsInModule

----------------------------------------------------------------------------
(* What the helpers of a step of the flow return. *)

LEMMA StepCmdType ==
  ASSUME TypeOK, step <= Len(Flow)
  PROVE  /\ States \in StatesKinds
         /\ StepCmd \in SiteCmds \cup DRCmds
         /\ StepSite \in Sites
<1>1. Flow[step] \in [module: Modules, states: StatesKinds]
  <2>1. Flow \in Seq([module: Modules, states: StatesKinds])
    BY CommandAssumption
  <2>2. step \in 1..Len(Flow)
    BY <2>1 DEF TypeOK
  <2> QED BY <2>1, <2>2, ElementOfSeq
<1>2. States \in StatesKinds
  BY <1>1 DEF States
<1>3. cmd \in SiteCmds \cup DRCmds
  BY CommandAssumption DEF TypeOK
<1>4. StepCmd \in SiteCmds \cup DRCmds
  <2>1. CASE States = "all"
    BY <1>3, <2>1 DEF StepCmd
  <2>2. CASE States # "all" /\ cmd \in DRCmds
    BY <2>2 DEF StepCmd, SiteCmds
  <2>3. CASE States # "all" /\ cmd \notin DRCmds
    BY <1>3, <2>3 DEF StepCmd, Convert, SiteCmds
  <2> QED BY <2>1, <2>2, <2>3
<1>5. StepSite \in Sites
  BY DEF StepSite, Sites
<1> QED BY <1>2, <1>4, <1>5

LEMMA PlanType ==
  ASSUME TypeOK, step <= Len(Flow), NEW s \in Services
  PROVE  /\ Len(Plan(s)) \in 1..2
         /\ \A i \in 1..Len(Plan(s)) : Plan(s)[i].site \in Sites /\ Plan(s)[i].mode \in Modes
<1>1. CASE StepCmd \in SiteCmds
  <2>1. Convert(StepCmd) \in Modes
    BY <1>1 DEF Convert, SiteCmds, Modes
  <2> QED BY <1>1, <2>1, StepCmdType DEF Plan, On
<1>2. CASE StepCmd \notin SiteCmds
  BY <1>2 DEF Plan, DROperationSequence, On, Sites, Modes
<1> QED BY <1>1, <1>2

LEMMA NowType ==
  ASSUME TypeInv, NEW s \in Services, wpc[s] \in Running
  PROVE  InModule /\ Now(s).site \in Sites /\ Now(s).mode \in Modes
<1>1. InModule
  BY DEF TypeInv, ThreadsInModule
<1>2. step <= Len(Flow) /\ phase[s] \in 1..2 /\ phase[s] <= Len(Plan(s))
  BY <1>1 DEF TypeInv, TypeOK, PlanBound, InModule
<1> QED BY <1>1, <1>2, PlanType DEF Now, TypeInv

LEMMA ResponseType ==
  ASSUME NEW st \in BOOLEAN, NEW m
  PROVE  Response(st, m) \in Responses
BY DEF Response, Responses, Tolerated

LEMMA ForcedType ==
  ASSUME TypeOK, NEW m
  PROVE  Forced(m) \in BOOLEAN
BY CommandAssumption DEF TypeOK, Forced, Tolerated

LEMMA NodesType == Nodes \subseteq Services /\ Ready \subseteq Nodes
BY ServicesAssumption DEF Nodes, Graph, Ready

LEMMA FirstAvailableType == FirstAvailable \in Sites
<1>1. \E x \in Sites : x # FirstSite
  BY DEF Sites
<1> QED BY <1>1, CommandAssumption DEF FirstAvailable

\* The plan and the graph of a module do not change while it is processed.
LEMMA PlanStable ==
  ASSUME UNCHANGED <<cli, step>>
  PROVE  /\ \A s \in Services : Plan(s)' = Plan(s)
         /\ Nodes' = Nodes
         /\ \A s \in Services : Preds(s)' = Preds(s) /\ Successors(s)' = Successors(s)
<1>1. \A s \in Services : Plan(s)' = Plan(s)
  BY DEF cli, Plan, StepCmd, StepSite, States, DROperationSequence
<1>2. Nodes' = Nodes
  BY DEF cli, Nodes, Graph, UsedSites
<1> QED BY <1>1, <1>2 DEF Preds, Successors

----------------------------------------------------------------------------
(* Type correctness. *)

LEMMA SortOutType ==
  ASSUME TypeOK, NEW s \in Services, NEW r \in Responses,
         SortOutUnlessSkipped(s, r) \/ SkipServices({s}) \/ UNCHANGED results
  PROVE  /\ done' \subseteq Services /\ failed' \subseteq Services
         /\ warned' \subseteq Services /\ skipped' \subseteq Services
BY DEF TypeOK, SortOutUnlessSkipped, SortOut, SkipServices, results

LEMMA QueueType ==
  ASSUME TypeOK, NEW s \in Services, queue' = queue \/ queue' = Append(queue, s)
  PROVE  queue' \in Seq(Services)
<1>1. queue \in Seq(Services)
  BY DEF TypeOK
<1> QED BY <1>1, AppendProperties

LEMMA AdvanceType ==
  ASSUME TypeInv, NEW s \in Services, wpc[s] \in {"post", "poll"}, NEW r \in Responses,
         Advance(s, r), UNCHANGED <<cli, pc, step>>
  PROVE  /\ wpc' \in [Services -> {"idle", "post", "poll", "put", "ended", "skipped", "dead"}]
         /\ phase' \in [Services -> 1..2]
         /\ resp' \in [Services -> Responses]
         /\ PlanBound' /\ ThreadsInModule'
<1>1. InModule /\ step <= Len(Flow)
  BY NowType DEF Running, TypeInv, TypeOK, InModule
<1>2. Len(Plan(s)) \in 1..2 /\ \A t \in Services : Plan(t)' = Plan(t)
  BY <1>1, PlanType, PlanStable DEF TypeInv
<1>3. /\ wpc' \in [Services -> {"idle", "post", "poll", "put", "ended", "skipped", "dead"}]
      /\ phase' \in [Services -> 1..2]
      /\ resp' \in [Services -> Responses]
  <2>1. phase[s] \in 1..2 /\ wpc \in [Services -> {"idle", "post", "poll", "put", "ended", "skipped", "dead"}]
        /\ phase \in [Services -> 1..2] /\ resp \in [Services -> Responses]
    BY DEF TypeInv, TypeOK, Responses
  <2>2. CASE IsOk(r) /\ phase[s] < Len(Plan(s))
    <3>1. phase[s] = 1
      <4>1. Len(Plan(s)) \in 1..2
        BY <1>2
      <4>2. phase[s] < Len(Plan(s))
        BY <2>2
      <4>3. \A k, n \in 1..2 : k < n => k = 1
        OBVIOUS
      <4> QED BY <2>1, <4>1, <4>2, <4>3
    <3>2. /\ resp' = [resp EXCEPT ![s] = r]
          /\ phase' = [phase EXCEPT ![s] = 2]
          /\ wpc' = [wpc EXCEPT ![s] = "post"]
      BY <2>1, <2>2, <3>1 DEF Advance
    <3> QED BY <2>1, <3>2
  <2>3. CASE ~(IsOk(r) /\ phase[s] < Len(Plan(s)))
    BY <2>1, <2>3 DEF Advance
  <2> QED BY <2>2, <2>3
<1>4. PlanBound'
  <2> SUFFICES ASSUME NEW t \in Services PROVE phase'[t] <= Len(Plan(t))
    BY <1>2 DEF PlanBound
  <2>1. phase[t] <= Len(Plan(t)) /\ phase \in [Services -> 1..2]
    BY <1>1 DEF TypeInv, TypeOK, PlanBound
  <2>2. phase'[t] = phase[t] \/ (t = s /\ phase[s] < Len(Plan(s)) /\ phase'[t] = phase[s] + 1)
    BY <2>1 DEF Advance
  <2> QED BY <1>2, <2>1, <2>2
<1>5. ThreadsInModule'
  BY <1>1 DEF ThreadsInModule, InModule
<1> QED BY <1>3, <1>4, <1>5

\* A step of a service thread.
LEMMA ThreadTypeStep ==
  ASSUME TypeInv, NEW s \in Services, Thread(s)
  PROVE  TypeInv'
<1>1. UNCHANGED <<cli, pc, flowVars, sorter>>
  BY DEF Thread, PostNowhere, PostAccepted, PostNoReply, PollReached, PollHealthAllowed,
     PollUnhealthy, PollFailed, Polled, ThreadDies, PutResult
<1>2. \A t \in Services : Plan(t)' = Plan(t)
  BY <1>1, PlanStable DEF flowVars
<1>3. wpc[s] \in Running
  BY DEF Thread, PostNowhere, PostAccepted, PostNoReply, PollReached, PollHealthAllowed,
     PollUnhealthy, PollFailed, ThreadDies, PutResult, Running
<1>4. InModule /\ Now(s).site \in Sites /\ Now(s).mode \in Modes
  BY <1>3, NowType
<1>5. ASSUME Request(s) PROVE pending' \in [Sites -> [Services -> Modes \cup {None}]]
  BY <1>4, <1>5 DEF Request, TypeInv, TypeOK
<1>6. ASSUME NEW r \in Responses, Advance(s, r), wpc[s] \in {"post", "poll"},
             UNCHANGED <<queue, mode, removed>>,
             UNCHANGED results \/ SortOutUnlessSkipped(s, r),
             Request(s) \/ UNCHANGED pending
      PROVE  TypeInv'
  <2>1. /\ wpc' \in [Services -> {"idle", "post", "poll", "put", "ended", "skipped", "dead"}]
        /\ phase' \in [Services -> 1..2]
        /\ resp' \in [Services -> Responses]
        /\ PlanBound' /\ ThreadsInModule'
    BY <1>1, <1>6, AdvanceType DEF flowVars
  <2>2. /\ done' \subseteq Services /\ failed' \subseteq Services
        /\ warned' \subseteq Services /\ skipped' \subseteq Services
    BY <1>6, SortOutType DEF TypeInv
  <2>3. pending' \in [Sites -> [Services -> Modes \cup {None}]]
    BY <1>5, <1>6 DEF TypeInv, TypeOK
  <2> QED BY <1>1, <1>6, <2>1, <2>2, <2>3 DEF TypeInv, TypeOK, Responses, cli, flowVars, sorter
<1>7. ASSUME NEW v \in {"poll", "ended", "dead"}, wpc' = [wpc EXCEPT ![s] = v],
             queue' = queue \/ queue' = Append(queue, s),
             UNCHANGED <<phase, resp, results, mode, removed>>, Request(s) \/ UNCHANGED pending
      PROVE  TypeInv'
  <2>1. queue' \in Seq(Services)
    BY <1>7, QueueType DEF TypeInv
  <2>2. pending' \in [Sites -> [Services -> Modes \cup {None}]]
    BY <1>5, <1>7 DEF TypeInv, TypeOK
  <2>3. wpc' \in [Services -> {"idle", "post", "poll", "put", "ended", "skipped", "dead"}]
    BY <1>7 DEF TypeInv, TypeOK
  <2>4. TypeOK'
    BY <1>1, <1>7, <2>1, <2>2, <2>3 DEF TypeInv, TypeOK, cli, flowVars, sorter, results
  <2>5. PlanBound' /\ ThreadsInModule'
    BY <1>1, <1>2, <1>4, <1>7 DEF TypeInv, PlanBound, ThreadsInModule, InModule
  <2> QED BY <2>4, <2>5 DEF TypeInv
<1>8. CASE PostNowhere(s)
  <2> DEFINE r == Response(TRUE, IF s \in located[Now(s).site] THEN Now(s).mode ELSE None)
  <2>1. r \in Responses
    BY ResponseType
  <2> QED BY <1>6, <1>8, <2>1 DEF PostNowhere, world
<1>9. CASE PostNoReply(s)
  <2> DEFINE r == Response(Forced(Now(s).mode), Now(s).mode)
  <2>1. r \in Responses
    BY ResponseType, ForcedType DEF TypeInv
  <2> QED BY <1>6, <1>9, <2>1 DEF PostNoReply
<1>10. ASSUME wpc[s] = "poll", NEW st \in BOOLEAN, Polled(s, st) PROVE TypeInv'
  <2>1. Response(st, Now(s).mode) \in Responses
    BY ResponseType
  <2> QED BY <1>6, <1>10, <2>1 DEF Polled, world
<1>11. CASE PollReached(s) \/ PollHealthAllowed(s) \/ PollUnhealthy(s) \/ PollFailed(s)
  BY <1>10, <1>11, ForcedType DEF PollReached, PollHealthAllowed, PollUnhealthy, PollFailed, TypeInv
<1>12. CASE PostAccepted(s) \/ ThreadDies(s) \/ PutResult(s)
  BY <1>7, <1>12 DEF PostAccepted, ThreadDies, PutResult, world
<1> QED BY <1>8, <1>9, <1>11, <1>12 DEF Thread

\* Every step keeps the types, the plans and the place of the threads.
LEMMA TypeStep == TypeInv /\ [Next]_vars => TypeInv'
<1> SUFFICES ASSUME TypeInv, [Next]_vars PROVE TypeInv'
  OBVIOUS
<1> USE DEF TypeInv
<1>1. CASE SkipModule
  <2>1. located[FirstAvailable] \subseteq Services
    BY FirstAvailableType DEF TypeOK
  <2> QED BY <1>1, <2>1 DEF SkipModule, AtStep, SkipServices, TypeOK, PlanBound,
             ThreadsInModule, InModule, cli, sorter, threads, world
<1>2. CASE BreakFlow \/ EndFlow
  BY <1>2 DEF BreakFlow, EndFlow, AtStep, TypeOK, PlanBound, ThreadsInModule, InModule,
     cli, flowVars, sorter, threads, results, world
<1>3. CASE PassModule
  BY <1>3 DEF PassModule, AtStep, TypeOK, PlanBound, ThreadsInModule, InModule,
     cli, sorter, threads, results, world
<1>4. CASE StartModule
  <2>1. TypeOK'
    BY <1>4 DEF StartModule, AtStep, TypeOK, NotOk, cli, flowVars, results, world
  <2>2. \A s \in Services : Len(Plan(s)) \in 1..2 /\ Plan(s)' = Plan(s)
    BY <1>4, PlanType, PlanStable DEF StartModule, AtStep, flowVars
  <2>3. \A s \in Services : phase'[s] = 1 /\ wpc'[s] = "idle"
    BY <1>4 DEF StartModule
  <2>4. PlanBound'
    BY <2>2, <2>3 DEF PlanBound
  <2>5. ThreadsInModule'
    BY <2>3 DEF ThreadsInModule, Running
  <2> QED BY <2>1, <2>4, <2>5
<1>5. CASE GetReady
  <2>1. TypeOK'
    BY <1>5, NodesType DEF GetReady, TypeOK, cli, flowVars, threads, results, world
  <2>2. \A s \in Services : Plan(s)' = Plan(s)
    BY <1>5, PlanStable DEF GetReady, flowVars
  <2> QED BY <1>5, <2>1, <2>2 DEF GetReady, PlanBound, ThreadsInModule, InModule, threads
<1>6. CASE GetResult
  <2> DEFINE s == Head(queue)
  <2>1. queue \in Seq(Services) /\ queue # <<>>
    BY <1>6 DEF GetResult, TypeOK
  <2>2. s \in Services /\ Tail(queue) \in Seq(Services)
    BY <2>1
  <2>3. resp[s] \in Responses
    BY <2>2 DEF TypeOK, Responses
  <2>4. SortOutUnlessSkipped(s, resp[s]) /\ tsdone' = tsdone \cup {s} /\ failedSucc' = Doomed(s)
        /\ queue' = Tail(queue) /\ pc' = "loop" /\ pc = "dispatch"
        /\ UNCHANGED <<cli, flowVars, batch, issued, threads, world>>
    BY <1>6 DEF GetResult
  <2>5. Doomed(s) \subseteq Services
    BY NodesType DEF Doomed, Successors, TypeOK
  <2> HIDE DEF s
  <2>6. TypeOK'
    BY <2>2, <2>3, <2>4, <2>5, SortOutType DEF TypeOK, cli, flowVars, threads, world
  <2>7. \A t \in Services : Plan(t)' = Plan(t)
    BY <2>4, PlanStable DEF flowVars
  <2> QED BY <2>4, <2>6, <2>7 DEF PlanBound, ThreadsInModule, InModule, threads
<1>7. CASE FinishModule
  <2>1. Len(Flow) \in Nat
    BY CommandAssumption
  <2>2. TypeOK'
    BY <1>7, <2>1 DEF FinishModule, StatusAfter, TypeOK, cli, sorter, threads, results, world
  <2>3. PlanBound' /\ ThreadsInModule'
    BY <1>7 DEF FinishModule, PlanBound, ThreadsInModule, InModule, Running, threads
  <2> QED BY <2>2, <2>3
<1>8. ASSUME NEW s \in Services, StartThread(s) \/ SkipService(s) PROVE TypeInv'
  <2>1. UNCHANGED <<cli, pc, flowVars, issued, tsdone, failedSucc, phase, resp, world>>
        /\ pc = "dispatch" /\ batch' = batch \ {s}
        /\ (SkipServices({s}) \/ UNCHANGED results)
        /\ (queue' = queue \/ queue' = Append(queue, s))
        /\ (wpc' = [wpc EXCEPT ![s] = "post"] \/ wpc' = [wpc EXCEPT ![s] = "skipped"])
    BY <1>8 DEF StartThread, SkipService
  <2>2. /\ done' \subseteq Services /\ failed' \subseteq Services
        /\ warned' \subseteq Services /\ skipped' \subseteq Services
    BY <2>1 DEF TypeOK, SkipServices, results
  <2>3. queue' \in Seq(Services)
    BY <2>1, QueueType DEF TypeInv
  <2>4. wpc' \in [Services -> {"idle", "post", "poll", "put", "ended", "skipped", "dead"}]
    BY <2>1 DEF TypeOK
  <2>5. TypeOK'
    BY <2>1, <2>2, <2>3, <2>4 DEF TypeOK, cli, flowVars, world
  <2>6. \A t \in Services : Plan(t)' = Plan(t)
    BY <2>1, PlanStable DEF flowVars
  <2> QED BY <2>1, <2>5, <2>6 DEF PlanBound, ThreadsInModule, InModule
<1>9. ASSUME NEW s \in Services, Thread(s) PROVE TypeInv'
  BY <1>9, ThreadTypeStep
<1>10. CASE Environment
  <2>1. TypeOK'
    <3>1. PICK x \in Sites, s \in Services : ServiceApplies(x, s) \/ ServiceFails(x, s) \/ RemoveCR(x, s)
      BY <1>10 DEF Environment
    <3>2. /\ mode' \in [Sites -> [Services -> Modes]]
          /\ pending' \in [Sites -> [Services -> Modes \cup {None}]]
          /\ removed' \in [Sites -> SUBSET Services]
      <4>1. pending[x][s] # None => pending[x][s] \in Modes
        BY DEF TypeOK
      <4>2. PICK m \in Modes : mode' = mode \/ mode' = [mode EXCEPT ![x][s] = m]
        BY <3>1, <4>1 DEF Modes, ServiceApplies, ServiceFails, RemoveCR
      <4>3. pending' = pending \/ pending' = [pending EXCEPT ![x][s] = None]
        BY <3>1 DEF ServiceApplies, ServiceFails, RemoveCR
      <4>4. removed' = removed \/ removed' = [removed EXCEPT ![x] = @ \cup {s}]
        BY <3>1 DEF ServiceApplies, ServiceFails, RemoveCR
      <4>5. /\ mode \in [Sites -> [Services -> Modes]]
            /\ pending \in [Sites -> [Services -> Modes \cup {None}]]
            /\ removed \in [Sites -> SUBSET Services]
        BY DEF TypeInv, TypeOK
      <4>6. mode' \in [Sites -> [Services -> Modes]]
        <5>1. CASE mode' = mode
          BY <4>5, <5>1
        <5>2. CASE mode' = [mode EXCEPT ![x][s] = m]
          BY <4>5, <5>2
        <5> QED BY <4>2, <5>1, <5>2
      <4>7. pending' \in [Sites -> [Services -> Modes \cup {None}]]
        <5>1. CASE pending' = pending
          BY <4>5, <5>1
        <5>2. CASE pending' = [pending EXCEPT ![x][s] = None]
          BY <4>5, <5>2
        <5> QED BY <4>3, <5>1, <5>2
      <4>8. removed' \in [Sites -> SUBSET Services]
        BY <4>4, <4>5
      <4> QED BY <4>6, <4>7, <4>8
    <3>3. UNCHANGED <<cli, pc, flowVars, sorter, queue, threads, results>>
      BY <3>1 DEF ServiceApplies, ServiceFails, RemoveCR
    <3> QED BY <3>2, <3>3 DEF TypeOK, cli, flowVars, sorter, threads, results
  <2>2. UNCHANGED <<cli, pc, flowVars, threads>>
    BY <1>10 DEF Environment, ServiceApplies, ServiceFails, RemoveCR
  <2>3. \A t \in Services : Plan(t)' = Plan(t)
    BY <2>2, PlanStable DEF flowVars
  <2> QED BY <2>1, <2>2, <2>3 DEF PlanBound, ThreadsInModule, InModule, threads
<1>11. CASE UNCHANGED vars
  <2>1. \A t \in Services : Plan(t)' = Plan(t)
    BY <1>11, PlanStable DEF vars, flowVars
  <2> QED BY <1>11, <2>1 DEF vars, cli, flowVars, sorter, threads, results, world,
             TypeOK, PlanBound, ThreadsInModule, InModule
<1> QED BY <1>1, <1>2, <1>3, <1>4, <1>5, <1>6, <1>7, <1>8, <1>9, <1>10, <1>11
           DEF Next, Main, Exited

LEMMA TypeInit == Init => TypeInv
<1> SUFFICES ASSUME Init PROVE TypeInv
  OBVIOUS
<1>1. up \subseteq Sites /\ located \in [Sites -> SUBSET Services] /\ cyclic \subseteq Modules
  BY ServicesAssumption DEF Init
<1>2. mode \in [Sites -> [Services -> Modes]]
  BY CommandAssumption DEF Init
<1>3. Len(Flow) \in Nat
  BY CommandAssumption
<1>4. TypeOK
  BY <1>1, <1>2, <1>3 DEF Init, TypeOK, NotOk, None
<1> QED BY <1>4 DEF Init, TypeInv, PlanBound, ThreadsInModule, InModule, Running

\* Every variable keeps its type: threads stay inside their plans, the flow
\* inside its steps, and no response, mode or list is ever ill-formed.
THEOREM TypeCorrect == Spec => []TypeOK
<1>1. TypeInv => TypeOK
  BY DEF TypeInv
<1> QED BY TypeInit, TypeStep, <1>1, PTL DEF Spec

----------------------------------------------------------------------------
(* The order of services: what the sorter, the threads and the queue agree  *)
(* on.  DependenciesAreOk alone is not inductive: a successor is held back  *)
(* only by failed_successors, so every collected failure must have marked   *)
(* its successors (Marked), what is collected must not be running any more  *)
(* (Sorted), and a result must be collected once, in its own module         *)
(* (QueueFresh).                                                            *)

Finished == {"ended", "skipped"}

Sorted == InModule =>
  /\ batch \subseteq issued /\ tsdone \subseteq issued /\ issued \subseteq Nodes
  /\ pc = "loop" => batch = {}
  /\ \A s \in Services : wpc[s] = "idle" <=> s \notin issued \ batch
  /\ \A s \in tsdone : wpc[s] \in Finished
  /\ \A s \in issued : Preds(s) \subseteq tsdone

QueueFresh ==
  /\ ~InModule => queue = <<>>
  /\ \A i \in 1..Len(queue) : wpc[queue[i]] \in Finished /\ queue[i] \notin tsdone
  /\ \A i, j \in 1..Len(queue) : queue[i] = queue[j] => i = j

Marked == InModule =>
  \A p \in tsdone : ~IsOk(resp[p]) => Successors(p) \subseteq failedSucc

NoneLeftBehind == ~InModule => \A s \in Services : wpc[s] \in Finished \cup {"idle"}

OrderInv == Sorted /\ QueueFresh /\ Marked /\ NoneLeftBehind /\ DependenciesAreOk

LEMMA ThreadEffect ==
  ASSUME TypeInv, NEW s \in Services, Thread(s)
  PROVE  /\ InModule /\ wpc[s] \in Running
         /\ UNCHANGED <<cli, pc, flowVars, sorter>>
         /\ \A t \in Services \ {s} : wpc'[t] = wpc[t] /\ resp'[t] = resp[t]
         /\ \/ wpc'[s] \in Running \cup {"dead"} /\ queue' = queue
            \/ wpc'[s] = "ended" /\ queue' = Append(queue, s)
         /\ UNCHANGED results \/ \E r \in Responses : SortOutUnlessSkipped(s, r)
<1>1. UNCHANGED <<cli, pc, flowVars, sorter>>
  BY DEF Thread, PostNowhere, PostAccepted, PostNoReply, PollReached, PollHealthAllowed,
     PollUnhealthy, PollFailed, Polled, ThreadDies, PutResult
<1>2. wpc[s] \in Running
  BY DEF Thread, PostNowhere, PostAccepted, PostNoReply, PollReached, PollHealthAllowed,
     PollUnhealthy, PollFailed, ThreadDies, PutResult, Running
<1>3. InModule
  BY <1>2, NowType
<1>4. ASSUME NEW r, Advance(s, r)
      PROVE  /\ \A t \in Services \ {s} : wpc'[t] = wpc[t] /\ resp'[t] = resp[t]
             /\ wpc'[s] \in Running
  BY <1>4 DEF Advance, TypeInv, TypeOK, Running
<1>5. CASE PostNowhere(s)
  BY <1>1, <1>2, <1>3, <1>4, <1>5 DEF PostNowhere
<1>6. CASE PostNoReply(s)
  BY <1>1, <1>2, <1>3, <1>4, <1>6 DEF PostNoReply
<1>7. ASSUME NEW st \in BOOLEAN, Polled(s, st)
      PROVE  /\ \A t \in Services \ {s} : wpc'[t] = wpc[t] /\ resp'[t] = resp[t]
             /\ wpc'[s] \in Running /\ queue' = queue
             /\ \E r \in Responses : SortOutUnlessSkipped(s, r)
  BY <1>4, <1>7, ResponseType DEF Polled
<1>8. CASE PollReached(s) \/ PollHealthAllowed(s) \/ PollUnhealthy(s) \/ PollFailed(s)
  BY <1>1, <1>2, <1>3, <1>7, <1>8, ForcedType
     DEF PollReached, PollHealthAllowed, PollUnhealthy, PollFailed, TypeInv
<1>9. CASE PostAccepted(s) \/ ThreadDies(s) \/ PutResult(s)
  BY <1>1, <1>2, <1>3, <1>9 DEF PostAccepted, ThreadDies, PutResult, TypeInv, TypeOK, Running
<1> QED BY <1>5, <1>6, <1>8, <1>9 DEF Thread

\* A service that was still running or idle may be queued once it is finished.
LEMMA QueueFreshAppend ==
  ASSUME TypeInv, QueueFresh, InModule', tsdone' = tsdone,
         NEW s \in Services, s \notin tsdone, wpc[s] \notin Finished,
         \A t \in Services \ {s} : wpc'[t] = wpc[t],
         queue' = queue \/ (wpc'[s] \in Finished /\ queue' = Append(queue, s))
  PROVE  QueueFresh'
<1>1. queue \in Seq(Services)
  BY DEF TypeInv, TypeOK
<1>2. \A i \in 1..Len(queue) : queue[i] \in Services /\ queue[i] # s
  BY <1>1, ElementOfSeq DEF QueueFresh
<1>3. CASE queue' = queue
  BY <1>1, <1>2, <1>3 DEF QueueFresh
<1>4. CASE wpc'[s] \in Finished /\ queue' = Append(queue, s)
  <2>1. /\ Len(queue') = Len(queue) + 1 /\ Len(queue) \in Nat
        /\ \A i \in 1..Len(queue) : queue'[i] = queue[i]
        /\ queue'[Len(queue) + 1] = s
    BY <1>1, <1>4, AppendProperties, LenProperties
  <2>2. \A i \in 1..Len(queue') : i \in 1..Len(queue) \/ i = Len(queue) + 1
    BY <2>1
  <2>3. \A i \in 1..Len(queue') : wpc'[queue'[i]] \in Finished /\ queue'[i] \notin tsdone
    BY <1>2, <1>4, <2>1, <2>2 DEF QueueFresh
  <2>4. \A i, j \in 1..Len(queue') : queue'[i] = queue'[j] => i = j
    BY <1>2, <2>1, <2>2 DEF QueueFresh
  <2> QED BY <2>3, <2>4 DEF QueueFresh
<1> QED BY <1>3, <1>4

LEMMA ThreadOrderStep ==
  ASSUME TypeInv, OrderInv, NEW s \in Services, Thread(s)
  PROVE  OrderInv'
<1>1. /\ InModule /\ wpc[s] \in Running
      /\ UNCHANGED <<cli, pc, flowVars, sorter>>
      /\ \A t \in Services \ {s} : wpc'[t] = wpc[t] /\ resp'[t] = resp[t]
      /\ \/ wpc'[s] \in Running \cup {"dead"} /\ queue' = queue
         \/ wpc'[s] = "ended" /\ queue' = Append(queue, s)
  BY ThreadEffect
<1>2. /\ Nodes' = Nodes /\ InModule'
      /\ \A t \in Services : Preds(t)' = Preds(t) /\ Successors(t)' = Successors(t)
  BY <1>1, PlanStable DEF flowVars, InModule
<1>3. /\ s \notin tsdone /\ s \in issued \ batch /\ tsdone \subseteq Services
      /\ \A p \in tsdone : wpc'[p] = wpc[p] /\ resp'[p] = resp[p]
  BY <1>1 DEF OrderInv, Sorted, Running, Finished, TypeInv, TypeOK
<1>4. wpc'[s] \notin {"idle", "skipped"}
  BY <1>1 DEF Running
<1>5. Sorted'
  <2>1. /\ batch' = batch /\ issued' = issued /\ tsdone' = tsdone /\ pc' = pc
    BY <1>1 DEF sorter
  <2>2. \A t \in Services : wpc'[t] = "idle" <=> t \notin issued \ batch
    BY <1>1, <1>3, <1>4 DEF OrderInv, Sorted
  <2>3. \A p \in tsdone : wpc'[p] \in Finished
    BY <1>1, <1>3 DEF OrderInv, Sorted
  <2>4. \A t \in issued : Preds(t)' \subseteq tsdone
    BY <1>1, <1>2, NodesType DEF OrderInv, Sorted
  <2> QED BY <1>1, <1>2, <2>1, <2>2, <2>3, <2>4 DEF OrderInv, Sorted
<1>6. Marked'
  BY <1>1, <1>2, <1>3 DEF OrderInv, Marked, IsOk, sorter
<1>7. DependenciesAreOk'
  <2> SUFFICES ASSUME NEW t \in Services, Started(t)', NEW p \in Preds(t)
               PROVE  p \in tsdone' /\ IsOk(resp[p])'
    BY <1>2 DEF DependenciesAreOk
  <2>1. Started(t)
    BY <1>1 DEF Started, Running
  <2>2. p \in tsdone /\ IsOk(resp[p])
    BY <1>1, <2>1 DEF OrderInv, DependenciesAreOk
  <2> QED BY <1>1, <1>3, <2>2 DEF IsOk, sorter
<1>8. QueueFresh'
  BY <1>1, <1>2, <1>3, QueueFreshAppend DEF OrderInv, sorter, Running, Finished
<1>9. NoneLeftBehind'
  BY <1>2 DEF NoneLeftBehind
<1> QED BY <1>5, <1>6, <1>7, <1>8, <1>9 DEF OrderInv

\* The steps that leave the module, its threads and its queue alone.
LEMMA OrderStutter ==
  ASSUME OrderInv, UNCHANGED <<cli, sorter, queue, wpc, resp>>,
         \/ UNCHANGED <<pc, step>>
         \/ ~InModule /\ ~InModule'
  PROVE  OrderInv'
<1>1. CASE UNCHANGED <<pc, step>>
  BY <1>1, PlanStable DEF OrderInv, Sorted, QueueFresh, Marked, NoneLeftBehind, DependenciesAreOk,
     Started, IsOk, InModule, sorter, Preds, Successors
<1>2. CASE ~InModule /\ ~InModule'
  BY <1>2 DEF OrderInv, Sorted, QueueFresh, Marked, NoneLeftBehind, DependenciesAreOk, sorter
<1> QED BY <1>1, <1>2

LEMMA StartModuleOrder ==
  ASSUME TypeInv, OrderInv, StartModule
  PROVE  OrderInv'
<1>1. /\ ~InModule /\ InModule' /\ pc' = "loop" /\ queue = <<>> /\ queue' = <<>>
      /\ batch' = {} /\ issued' = {} /\ tsdone' = {} /\ failedSucc' = {}
      /\ wpc' = [s \in Services |-> "idle"]
  BY DEF StartModule, AtStep, InModule, OrderInv, QueueFresh
<1>2. Sorted'
  BY <1>1 DEF Sorted
<1>3. QueueFresh'
  BY <1>1 DEF QueueFresh
<1>4. Marked' /\ NoneLeftBehind'
  BY <1>1 DEF Marked, NoneLeftBehind
<1>5. DependenciesAreOk'
  BY <1>1 DEF DependenciesAreOk, Started
<1> QED BY <1>2, <1>3, <1>4, <1>5 DEF OrderInv

LEMMA GetReadyOrder ==
  ASSUME TypeInv, OrderInv, GetReady
  PROVE  OrderInv'
<1>1. /\ InModule /\ InModule' /\ pc = "loop" /\ pc' = "dispatch"
      /\ batch = {} /\ batch' = Ready /\ issued' = issued \cup Ready
      /\ UNCHANGED <<cli, flowVars, tsdone, failedSucc, queue, threads>>
  BY DEF GetReady, InModule, OrderInv, Sorted
<1>2. /\ Nodes' = Nodes
      /\ \A s \in Services : Preds(s)' = Preds(s) /\ Successors(s)' = Successors(s)
  BY <1>1, PlanStable DEF flowVars
<1>3. \A s \in Ready : s \in Services /\ s \in Nodes /\ s \notin issued /\ Preds(s) \subseteq tsdone
  BY NodesType DEF Ready
<1>4. Sorted'
  BY <1>1, <1>2, <1>3, NodesType DEF OrderInv, Sorted, threads
<1>5. QueueFresh'
  BY <1>1 DEF OrderInv, QueueFresh, threads
<1>6. Marked'
  BY <1>1, <1>2 DEF OrderInv, Marked, IsOk, threads, Sorted, Successors
<1>7. NoneLeftBehind'
  BY <1>1 DEF NoneLeftBehind
<1>8. DependenciesAreOk'
  BY <1>1, <1>2 DEF OrderInv, DependenciesAreOk, Started, IsOk, threads
<1> QED BY <1>4, <1>5, <1>6, <1>7, <1>8 DEF OrderInv

LEMMA DispatchOrder ==
  ASSUME TypeInv, OrderInv, NEW s \in Services, StartThread(s) \/ SkipService(s)
  PROVE  OrderInv'
<1>1. /\ InModule /\ InModule' /\ pc = "dispatch" /\ pc' = pc
      /\ s \in batch /\ batch' = batch \ {s}
      /\ UNCHANGED <<cli, flowVars, issued, tsdone, failedSucc, resp>>
      /\ \A t \in Services \ {s} : wpc'[t] = wpc[t]
      /\ \/ s \notin failedSucc /\ wpc'[s] = "post" /\ queue' = queue
         \/ wpc'[s] = "skipped" /\ queue' = Append(queue, s)
  BY DEF StartThread, SkipService, InModule, TypeInv, TypeOK
<1>2. /\ Nodes' = Nodes
      /\ \A t \in Services : Preds(t)' = Preds(t) /\ Successors(t)' = Successors(t)
  BY <1>1, PlanStable DEF flowVars
<1>3. /\ wpc[s] = "idle" /\ s \notin tsdone /\ s \in issued /\ s \in Nodes
      /\ Preds(s) \subseteq tsdone
  BY <1>1 DEF OrderInv, Sorted, Finished
<1>4. Sorted'
  <2>1. \A t \in Services : wpc'[t] = "idle" <=> t \notin issued \ (batch \ {s})
    BY <1>1, <1>3 DEF OrderInv, Sorted
  <2>2. \A p \in tsdone : wpc'[p] \in Finished
    BY <1>1, <1>3 DEF OrderInv, Sorted, TypeInv, TypeOK
  <2>3. \A t \in issued : Preds(t)' \subseteq tsdone
    BY <1>1, <1>2 DEF OrderInv, Sorted, TypeInv, TypeOK
  <2> QED BY <1>1, <1>2, <2>1, <2>2, <2>3 DEF OrderInv, Sorted
<1>5. QueueFresh'
  BY <1>1, <1>3, QueueFreshAppend DEF OrderInv, Finished
<1>6. Marked'
  BY <1>1, <1>2 DEF OrderInv, Marked, IsOk, Successors
<1>7. NoneLeftBehind'
  BY <1>1 DEF NoneLeftBehind
<1>8. DependenciesAreOk'
  <2> SUFFICES ASSUME NEW t \in Services, Started(t)', NEW p \in Preds(t)
               PROVE  p \in tsdone /\ IsOk(resp[p])
    BY <1>1, <1>2 DEF DependenciesAreOk, IsOk
  <2>1. CASE t # s
    BY <1>1, <2>1 DEF OrderInv, DependenciesAreOk, Started
  <2>2. CASE t = s
    <3>1. s \notin failedSucc
      BY <1>1, <2>2 DEF Started
    <3>2. p \in tsdone /\ s \in Successors(p)
      BY <1>3, <2>2 DEF Successors, Preds
    <3> QED BY <1>1, <3>1, <3>2 DEF OrderInv, Marked
  <2> QED BY <2>1, <2>2
<1> QED BY <1>4, <1>5, <1>6, <1>7, <1>8 DEF OrderInv

LEMMA GetResultOrder ==
  ASSUME TypeInv, OrderInv, GetResult
  PROVE  OrderInv'
<1> DEFINE s == Head(queue)
<1>1. /\ InModule /\ InModule' /\ pc' = "loop" /\ batch = {} /\ queue # <<>>
      /\ tsdone' = tsdone \cup {s} /\ failedSucc' = Doomed(s) /\ queue' = Tail(queue)
      /\ UNCHANGED <<cli, flowVars, batch, issued, threads>>
  BY DEF GetResult, InModule
<1>2. /\ queue \in Seq(Services) /\ s \in Services /\ Len(queue') = Len(queue) - 1 /\ s = queue[1]
      /\ Len(queue) \in Nat \ {0} /\ \A i \in 1..Len(queue') : queue'[i] = queue[i + 1]
  BY <1>1, HeadTailProperties, EmptySeq, LenProperties DEF TypeInv, TypeOK
<1>3. wpc[s] \in Finished /\ s \notin tsdone /\ s \in issued
  BY <1>2 DEF OrderInv, QueueFresh, Sorted, Finished, InModule, GetResult
<1>4. /\ Nodes' = Nodes
      /\ \A t \in Services : Preds(t)' = Preds(t) /\ Successors(t)' = Successors(t)
  BY <1>1, PlanStable DEF flowVars
<1>5. Sorted'
  <2>1. \A t \in issued : Preds(t)' \subseteq tsdone'
    BY <1>1, <1>4 DEF OrderInv, Sorted, TypeInv, TypeOK
  <2> QED BY <1>1, <1>3, <1>4, <2>1 DEF OrderInv, Sorted, threads
<1>6. QueueFresh'
  <2>1. \A i \in 1..Len(queue') : i + 1 \in 1..Len(queue) /\ i + 1 # 1
    BY <1>2
  <2>2. \A i \in 1..Len(queue') : queue'[i] # s
    BY <1>2, <2>1 DEF OrderInv, QueueFresh
  <2>3. \A i \in 1..Len(queue') : wpc'[queue'[i]] \in Finished /\ queue'[i] \notin tsdone'
    BY <1>1, <1>2, <2>1, <2>2 DEF OrderInv, QueueFresh, threads
  <2>4. \A i, j \in 1..Len(queue') : queue'[i] = queue'[j] => i = j
    BY <1>2, <2>1 DEF OrderInv, QueueFresh
  <2> QED BY <1>1, <2>3, <2>4 DEF QueueFresh
<1>7. Marked'
  <2> SUFFICES ASSUME NEW p \in tsdone', ~IsOk(resp[p])
               PROVE  Successors(p) \subseteq failedSucc'
    BY <1>1, <1>4 DEF Marked, IsOk, threads, TypeInv, TypeOK
  <2>1. CASE p = s
    BY <1>1, <2>1 DEF Doomed
  <2>2. CASE p \in tsdone
    BY <1>1, <2>2 DEF OrderInv, Marked, Doomed
  <2> QED BY <1>1, <2>1, <2>2
<1>8. NoneLeftBehind'
  BY <1>1 DEF NoneLeftBehind
<1>9. DependenciesAreOk'
  BY <1>1, <1>4 DEF OrderInv, DependenciesAreOk, Started, IsOk, threads
<1> QED BY <1>5, <1>6, <1>7, <1>8, <1>9 DEF OrderInv

\* When the sorter is no longer active every started thread has been collected:
\* nothing runs on, nothing is dead and the queue is empty.
LEMMA FinishModuleOrder ==
  ASSUME TypeInv, OrderInv, FinishModule
  PROVE  OrderInv'
<1>1. /\ InModule /\ ~InModule' /\ pc = "loop" /\ batch = {} /\ issued = tsdone
      /\ UNCHANGED <<tsdone, queue, wpc>>
  BY DEF FinishModule, IsActive, InModule, OrderInv, Sorted, sorter, threads
<1>2. \A s \in Services : wpc[s] \in Finished \cup {"idle"}
  BY <1>1 DEF OrderInv, Sorted
<1>3. queue \in Seq(Services)
  BY DEF TypeInv, TypeOK
<1>4. queue = <<>>
  <2>1. \A i \in 1..Len(queue) : queue[i] \in Services /\ queue[i] \notin issued
    BY <1>1, <1>3, ElementOfSeq DEF OrderInv, QueueFresh
  <2>2. \A i \in 1..Len(queue) : wpc[queue[i]] # "idle"
    BY DEF OrderInv, QueueFresh, Finished
  <2>3. \A i \in 1..Len(queue) : FALSE
    BY <1>1, <2>1, <2>2 DEF OrderInv, Sorted
  <2>4. Len(queue) = 0
    BY <1>3, <2>3, LenProperties
  <2> QED BY <1>3, <2>4, EmptySeq
<1> QED BY <1>1, <1>2, <1>4, EmptySeq
        DEF OrderInv, Sorted, QueueFresh, Marked, NoneLeftBehind, DependenciesAreOk

LEMMA OrderStep == TypeInv /\ OrderInv /\ [Next]_vars => OrderInv'
<1> SUFFICES ASSUME TypeInv, OrderInv, [Next]_vars PROVE OrderInv'
  OBVIOUS
<1>1. CASE SkipModule \/ BreakFlow \/ PassModule \/ EndFlow
  BY <1>1, OrderStutter DEF SkipModule, BreakFlow, PassModule, EndFlow, AtStep, InModule, threads
<1>2. CASE Environment
  BY <1>2, OrderStutter DEF Environment, ServiceApplies, ServiceFails, RemoveCR, flowVars, threads
<1>3. CASE UNCHANGED vars
  BY <1>3, OrderStutter DEF vars, flowVars, threads
<1>4. CASE StartModule \/ GetReady \/ GetResult \/ FinishModule
  BY <1>4, StartModuleOrder, GetReadyOrder, GetResultOrder, FinishModuleOrder
<1>5. ASSUME NEW s \in Services, StartThread(s) \/ SkipService(s) PROVE OrderInv'
  BY <1>5, DispatchOrder
<1>6. ASSUME NEW s \in Services, Thread(s) PROVE OrderInv'
  BY <1>6, ThreadOrderStep
<1> QED BY <1>1, <1>2, <1>3, <1>4, <1>5, <1>6 DEF Next, Main, Exited

LEMMA OrderInit == Init => OrderInv
BY EmptySeq DEF Init, OrderInv, Sorted, QueueFresh, Marked, NoneLeftBehind, DependenciesAreOk,
   InModule, Finished

\* No service is touched before everything it waits for has been collected
\* with an acceptable result, in whatever order threads finish and results
\* are queued.
THEOREM DependenciesRespected == Spec => []DependenciesAreOk
<1>1. OrderInv => DependenciesAreOk
  BY DEF OrderInv
<1> QED BY TypeInit, TypeStep, OrderInit, OrderStep, <1>1, PTL DEF Spec

\* A thread that died without queueing its result keeps its module from
\* completing: success is never reported without it.
THEOREM DeathIsNoticed == Spec => []DeadBlocksEnd
<1>1. OrderInv => DeadBlocksEnd
  BY DEF OrderInv, NoneLeftBehind, DeadBlocksEnd, Finished
<1> QED BY TypeInit, TypeStep, OrderInit, OrderStep, <1>1, PTL DEF Spec

----------------------------------------------------------------------------
(* The result lists: every step either leaves them alone, sorts one result *)
(* into them or moves services to the skipped ones.                        *)

LEMMA ListsEffect ==
  ASSUME TypeInv, [Next]_vars
  PROVE  \/ UNCHANGED results
         \/ \E s \in Services, r \in Responses : SortOutUnlessSkipped(s, r)
         \/ \E S \in SUBSET Services : SkipServices(S)
<1>1. CASE SkipModule
  <2>1. {s \in located[FirstAvailable] : ModuleOf[s] = Flow[step].module} \in SUBSET Services
    BY FirstAvailableType DEF TypeInv, TypeOK
  <2> QED BY <1>1, <2>1 DEF SkipModule
<1>2. CASE GetResult
  <2>1. Head(queue) \in Services
    BY <1>2 DEF GetResult, TypeInv, TypeOK
  <2>2. resp[Head(queue)] \in Responses
    BY <2>1 DEF TypeInv, TypeOK, Responses
  <2> QED BY <1>2, <2>1, <2>2 DEF GetResult
<1>3. CASE BreakFlow \/ PassModule \/ StartModule \/ EndFlow \/ GetReady \/ FinishModule
  BY <1>3 DEF BreakFlow, PassModule, StartModule, EndFlow, GetReady, FinishModule
<1>4. CASE Environment \/ UNCHANGED vars
  BY <1>4 DEF Environment, ServiceApplies, ServiceFails, RemoveCR, vars
<1>5. ASSUME NEW s \in Services, StartThread(s) \/ SkipService(s)
      PROVE  UNCHANGED results \/ SkipServices({s})
  BY <1>5 DEF StartThread, SkipService
<1>6. ASSUME NEW s \in Services, Thread(s)
      PROVE  UNCHANGED results \/ \E r \in Responses : SortOutUnlessSkipped(s, r)
  BY <1>6, ThreadEffect
<1> QED BY <1>1, <1>2, <1>3, <1>4, <1>5, <1>6 DEF Next, Main, Exited

\* Failures and skips are never taken back.
LEMMA ListsGrow ==
  ASSUME TypeInv, [Next]_vars
  PROVE  failed \subseteq failed' /\ skipped \subseteq skipped'
BY ListsEffect DEF SortOutUnlessSkipped, SortOut, SkipServices, results

\* No service is in two lists of the summary, whichever thread sorts a result
\* first and whatever a later module of the flow reports.
THEOREM ListsNeverOverlap == Spec => []ResultListsDisjoint
<1>1. Init => ResultListsDisjoint
  BY DEF Init, ResultListsDisjoint
<1>2. TypeInv /\ ResultListsDisjoint /\ [Next]_vars => ResultListsDisjoint'
  <2> SUFFICES ASSUME TypeInv, ResultListsDisjoint, [Next]_vars PROVE ResultListsDisjoint'
    OBVIOUS
  <2>1. CASE UNCHANGED results
    BY <2>1 DEF ResultListsDisjoint, results
  <2>2. ASSUME NEW s \in Services, NEW r \in Responses, SortOutUnlessSkipped(s, r)
        PROVE  ResultListsDisjoint'
    BY <2>2 DEF ResultListsDisjoint, SortOutUnlessSkipped, SortOut, results
  <2>3. ASSUME NEW S \in SUBSET Services, SkipServices(S)
        PROVE  ResultListsDisjoint'
    BY <2>3 DEF ResultListsDisjoint, SkipServices
  <2> QED BY <2>1, <2>2, <2>3, ListsEffect
<1> QED BY TypeInit, TypeStep, <1>1, <1>2, PTL DEF Spec

\* A thread that ends a poll without success marks its service.
LEMMA PollMarks ==
  ASSUME TypeInv, NEW t \in Services, Thread(t),
         NEW s \in Services, wpc[s] = "poll", wpc'[s] \in {"post", "put"}
  PROVE  resp'[s].st \/ s \in Blemished'
<1>1. wpc \in [Services -> {"idle", "post", "poll", "put", "ended", "skipped", "dead"}]
      /\ resp \in [Services -> Responses]
  BY DEF TypeInv, TypeOK, Responses
<1>2. ASSUME NEW r, Advance(t, r) PROVE t = s /\ resp'[s] = r
  BY <1>1, <1>2 DEF Advance
<1>3. ASSUME NEW st, Polled(t, st) PROVE resp'[s].st \/ s \in Blemished'
  <2>1. t = s /\ resp'[s] = Response(st, Now(s).mode)
    BY <1>2, <1>3 DEF Polled
  <2>2. SortOutUnlessSkipped(s, resp'[s])
    BY <1>3, <2>1 DEF Polled
  <2> QED BY <2>2 DEF SortOutUnlessSkipped, SortOut, Blemished, IsOk, results
<1>4. CASE PollReached(t) \/ PollHealthAllowed(t) \/ PollUnhealthy(t) \/ PollFailed(t)
  BY <1>3, <1>4 DEF PollReached, PollHealthAllowed, PollUnhealthy, PollFailed
<1>5. CASE PostNowhere(t) \/ PostNoReply(t)
  <2>1. t = s
    BY <1>2, <1>5 DEF PostNowhere, PostNoReply
  <2> QED BY <1>5, <2>1 DEF PostNowhere, PostNoReply
<1>6. CASE PostAccepted(t) \/ ThreadDies(t) \/ PutResult(t)
  BY <1>1, <1>6 DEF PostAccepted, ThreadDies, PutResult
<1> QED BY <1>4, <1>5, <1>6 DEF Thread

\* A response that is not a success marks its service for good, whichever of the
\* threads sorts the next result of it in.
THEOREM BlemishesAreFinal == Spec => BlemishesStay
<1>1. ASSUME TypeInv, [Next]_vars PROVE Blemished \subseteq Blemished'
  BY <1>1, ListsEffect DEF Blemished, SortOutUnlessSkipped, SortOut, SkipServices, results
<1>2. ASSUME TypeInv, OrderInv, [Next]_vars, NEW s \in Services,
             (wpc[s] = "poll" /\ wpc'[s] \in {"post", "put"}) \/ s \in tsdone' \ tsdone
      PROVE  resp'[s].st \/ s \in Blemished'
  <2>1. CASE \E t \in Services : Thread(t)
    BY <1>2, <2>1, PollMarks, ThreadEffect DEF sorter
  <2>2. CASE GetResult
    <3>1. s = Head(queue) /\ UNCHANGED resp /\ SortOutUnlessSkipped(s, resp[s])
      BY <1>2, <2>2 DEF GetResult, threads
    <3> QED BY <3>1 DEF SortOutUnlessSkipped, SortOut, Blemished, IsOk, results
  <2>3. CASE StartModule
    BY <1>2, <2>3 DEF StartModule, TypeInv, TypeOK, ThreadsInModule, InModule, Running, AtStep
  <2>4. CASE \E t \in Services : StartThread(t) \/ SkipService(t)
    <3>1. PICK t \in Services, v \in {"post", "skipped"} :
            t \in batch /\ InModule /\ UNCHANGED tsdone /\ wpc' = [wpc EXCEPT ![t] = v]
      BY <2>4 DEF StartThread, SkipService, InModule
    <3>2. wpc[t] = "idle"
      BY <1>2, <3>1 DEF OrderInv, Sorted
    <3>3. wpc'[s] = wpc[s]
      BY <1>2, <3>1, <3>2 DEF TypeInv, TypeOK
    <3> QED BY <1>2, <3>1, <3>3
  <2>5. CASE Environment \/ UNCHANGED vars \/ SkipModule \/ BreakFlow \/ PassModule \/ EndFlow
             \/ GetReady \/ FinishModule
    BY <1>2, <2>5 DEF Environment, ServiceApplies, ServiceFails, RemoveCR, vars, SkipModule, BreakFlow,
       PassModule, EndFlow, GetReady, FinishModule, sorter, threads
  <2> QED BY <1>2, <2>1, <2>2, <2>3, <2>4, <2>5 DEF Next, Main, Exited
<1>3. TypeInv /\ OrderInv /\ [Next]_vars =>
        [/\ Blemished \subseteq Blemished'
         /\ \A s \in Services :
              (wpc[s] = "poll" /\ wpc'[s] \in {"post", "put"}) \/ s \in tsdone' \ tsdone =>
                resp'[s].st \/ s \in Blemished']_vars
  BY <1>1, <1>2
<1> QED BY TypeInit, TypeStep, OrderInit, OrderStep, <1>3, PTL DEF Spec, BlemishesStay

----------------------------------------------------------------------------
(* Skipped services: a marked successor has a predecessor on record as      *)
(* failed or skipped, and both lists only grow.                             *)

Caused(s) == \E p \in Preds(s) : p \in failed \cup skipped

CauseInv == InModule =>
  /\ \A s \in failedSucc : Caused(s)
  /\ \A s \in Services : wpc[s] = "skipped" => Caused(s)

LEMMA CauseKept ==
  ASSUME TypeInv, [Next]_vars, UNCHANGED <<cli, step>>, NEW s \in Services, Caused(s)
  PROVE  Caused(s)'
BY ListsGrow, PlanStable DEF Caused

LEMMA CauseStep == TypeInv /\ OrderInv /\ CauseInv /\ [Next]_vars => CauseInv'
<1> SUFFICES ASSUME TypeInv, OrderInv, CauseInv, [Next]_vars PROVE CauseInv'
  OBVIOUS
<1>1. CASE SkipModule \/ BreakFlow \/ PassModule \/ EndFlow
  BY <1>1 DEF SkipModule, BreakFlow, PassModule, EndFlow, AtStep, CauseInv, InModule
<1>2. CASE StartModule
  BY <1>2 DEF StartModule, CauseInv
<1>3. CASE FinishModule
  BY <1>3 DEF FinishModule, CauseInv, InModule
<1>4. ASSUME UNCHANGED <<cli, step, failedSucc>>, InModule' => InModule,
             \A s \in Services : wpc'[s] = "skipped" => wpc[s] = "skipped"
      PROVE  CauseInv'
  <2>1. failedSucc \subseteq Services
    BY DEF TypeInv, TypeOK
  <2> QED BY <1>4, <2>1, CauseKept DEF CauseInv
<1>5. CASE GetReady \/ Environment \/ UNCHANGED vars
  BY <1>4, <1>5 DEF GetReady, Environment, ServiceApplies, ServiceFails, RemoveCR, vars,
     flowVars, sorter, threads, InModule
<1>6. ASSUME NEW s \in Services, StartThread(s) PROVE CauseInv'
  BY <1>4, <1>6 DEF StartThread, TypeInv, TypeOK, flowVars, InModule
<1>7. ASSUME NEW s \in Services, Thread(s) PROVE CauseInv'
  BY <1>4, <1>7, ThreadEffect DEF flowVars, sorter, Running, InModule
<1>8. ASSUME NEW s \in Services, SkipService(s) PROVE CauseInv'
  <2>1. /\ InModule /\ s \in failedSucc /\ UNCHANGED <<cli, step, failedSucc>>
        /\ \A t \in Services \ {s} : wpc'[t] = wpc[t]
    BY <1>8 DEF SkipService, TypeInv, TypeOK, flowVars, InModule
  <2>2. failedSucc \subseteq Services
    BY DEF TypeInv, TypeOK
  <2> QED BY <2>1, <2>2, CauseKept DEF CauseInv
<1>9. CASE GetResult
  <2> DEFINE p == Head(queue)
  <2>1. /\ InModule /\ UNCHANGED <<cli, step, wpc>> /\ failedSucc' = Doomed(p)
        /\ SortOutUnlessSkipped(p, resp[p])
    BY <1>9 DEF GetResult, InModule, flowVars, threads
  <2>2. /\ failedSucc \subseteq Services
        /\ p \in Services
    BY <1>9 DEF TypeInv, TypeOK, GetResult
  <2>3. p \in Nodes
    <3>1. Len(queue) >= 1 /\ p = queue[1]
      BY <1>9, HeadTailProperties, EmptySeq, LenProperties DEF GetResult, TypeInv, TypeOK
    <3>2. wpc[p] \in Finished
      BY <3>1, LenProperties DEF OrderInv, QueueFresh, TypeInv, TypeOK
    <3> QED BY <2>1, <2>2, <3>2 DEF OrderInv, Sorted, Finished
  <2>4. ASSUME NEW s \in failedSucc' PROVE Caused(s)'
    <3>1. CASE s \in failedSucc
      BY <2>1, <2>2, <3>1, CauseKept DEF CauseInv
    <3>2. CASE s \notin failedSucc
      <4>1. ~IsOk(resp[p]) /\ s \in Successors(p) /\ s \in Services
        BY <2>1, <2>4, <3>2, NodesType DEF Doomed, Successors
      <4>2. p \in failed' \cup skipped'
        BY <2>1, <4>1 DEF SortOutUnlessSkipped, SortOut, IsOk, results
      <4>3. p \in Preds(s)'
        BY <2>1, <2>3, <4>1, PlanStable DEF Preds, Successors
      <4> QED BY <4>2, <4>3 DEF Caused
    <3> QED BY <3>1, <3>2
  <2>5. \A s \in Services : wpc'[s] = "skipped" => Caused(s)'
    BY <2>1, CauseKept DEF CauseInv
  <2> QED BY <2>4, <2>5 DEF CauseInv
<1> QED BY <1>1, <1>2, <1>3, <1>5, <1>6, <1>7, <1>8, <1>9 DEF Next, Main, Exited

\* Inside a module a service is skipped only for a direct dependency that
\* failed or was skipped itself, never for an unrelated failure.
THEOREM SkipsAreJustified == Spec => []SkippedHasCause
<1>1. Init => CauseInv
  BY DEF Init, CauseInv
<1>2. CauseInv => SkippedHasCause
  BY DEF CauseInv, SkippedHasCause, Caused
<1> QED BY TypeInit, TypeStep, OrderInit, OrderStep, <1>1, <1>2, CauseStep, PTL DEF Spec

----------------------------------------------------------------------------
(* The flow stops at the first module with a failure: a module is started   *)
(* with an empty list of failures, and inside it only its own services,     *)
(* handed out by its sorter, can be put there.                              *)

CleanStart == pc = "flow" /\ drStatus => failed = {}
SkipsListed == InModule => \A s \in Services : wpc[s] = "skipped" => s \in skipped

FlowInv == CleanStart /\ SkipsListed /\ FailureStopsFlow

\* Inside a module: what a step must not do to keep the failures its own.
LEMMA FlowKept ==
  ASSUME TypeInv, OrderInv, FlowInv, [Next]_vars, InModule, InModule', issued \subseteq issued',
         \A s \in Services : Started(s) => Started(s)',
         \A s \in Services : wpc'[s] = "skipped" => wpc[s] = "skipped" \/ s \in skipped',
         \A s \in failed' \ failed : s \in issued' /\ Started(s)'
  PROVE  FlowInv'
<1>1. failed \subseteq Services
  BY DEF TypeInv, TypeOK
<1>2. SkipsListed'
  BY ListsGrow DEF FlowInv, SkipsListed
<1>3. FailureStopsFlow'
  BY <1>1 DEF FlowInv, FailureStopsFlow
<1>4. CleanStart'
  BY DEF CleanStart, InModule
<1> QED BY <1>2, <1>3, <1>4 DEF FlowInv

LEMMA FlowStep == TypeInv /\ OrderInv /\ FlowInv /\ [Next]_vars => FlowInv'
<1> SUFFICES ASSUME TypeInv, OrderInv, FlowInv, [Next]_vars PROVE FlowInv'
  OBVIOUS
<1>1. CASE SkipModule \/ BreakFlow \/ PassModule \/ EndFlow
  BY <1>1 DEF SkipModule, BreakFlow, PassModule, EndFlow, AtStep, FlowInv, CleanStart,
     SkipsListed, FailureStopsFlow, InModule, flowVars, results
<1>2. CASE StartModule
  BY <1>2 DEF StartModule, AtStep, FlowInv, CleanStart, SkipsListed, FailureStopsFlow,
     InModule, flowVars, results
<1>3. CASE FinishModule
  BY <1>3 DEF FinishModule, StatusAfter, FlowInv, CleanStart, SkipsListed, FailureStopsFlow,
     InModule, results
<1>4. CASE Environment \/ UNCHANGED vars
  BY <1>4 DEF Environment, ServiceApplies, ServiceFails, RemoveCR, FlowInv, CleanStart,
     SkipsListed, FailureStopsFlow, Started, InModule, vars, flowVars, sorter, threads, results
<1>5. CASE GetReady
  BY <1>5, FlowKept DEF GetReady, Started, InModule, threads, results
<1>6. ASSUME NEW s \in Services, StartThread(s) PROVE FlowInv'
  <2>1. /\ InModule /\ InModule' /\ UNCHANGED <<issued, results>>
        /\ wpc' = [wpc EXCEPT ![s] = "post"]
    BY <1>6 DEF StartThread, InModule
  <2> QED BY <2>1, FlowKept DEF Started, TypeInv, TypeOK, results
<1>7. ASSUME NEW s \in Services, SkipService(s) PROVE FlowInv'
  <2>1. /\ InModule /\ InModule' /\ UNCHANGED issued /\ SkipServices({s})
        /\ wpc' = [wpc EXCEPT ![s] = "skipped"] /\ s \in batch
    BY <1>7 DEF SkipService, InModule
  <2>2. wpc[s] = "idle" /\ s \notin failed
    BY <2>1 DEF OrderInv, Sorted, FlowInv, FailureStopsFlow, Started
  <2> QED BY <2>1, <2>2, FlowKept DEF Started, SkipServices, TypeInv, TypeOK
<1>8. ASSUME NEW s \in Services, Thread(s) PROVE FlowInv'
  <2>1. /\ InModule /\ InModule' /\ wpc[s] \in Running /\ UNCHANGED sorter
        /\ \A t \in Services \ {s} : wpc'[t] = wpc[t]
        /\ wpc'[s] \in Running \cup {"dead", "ended"}
        /\ UNCHANGED results \/ \E r \in Responses : SortOutUnlessSkipped(s, r)
    BY <1>8, ThreadEffect DEF InModule
  <2>2. s \in issued' /\ Started(s)' /\ failed' \subseteq failed \cup {s}
    BY <2>1 DEF OrderInv, Sorted, Running, Started, sorter, SortOutUnlessSkipped, SortOut, results
  <2> QED BY <2>1, <2>2, FlowKept DEF Started, Running, sorter
<1>9. CASE GetResult
  <2> DEFINE p == Head(queue)
  <2>1. /\ InModule /\ InModule' /\ UNCHANGED <<issued, wpc>>
        /\ SortOutUnlessSkipped(p, resp[p])
    BY <1>9 DEF GetResult, InModule, threads
  <2>2. p \in Services /\ wpc[p] \in Finished
    <3>1. Len(queue) >= 1 /\ p = queue[1] /\ p \in Services
      BY <1>9, HeadTailProperties, EmptySeq, LenProperties DEF GetResult, TypeInv, TypeOK
    <3> QED BY <3>1, LenProperties DEF OrderInv, QueueFresh, TypeInv, TypeOK
  <2>3. \A t \in failed' \ failed : t = p /\ wpc[p] = "ended"
    BY <2>1, <2>2 DEF FlowInv, SkipsListed, SortOutUnlessSkipped, SortOut, Finished, results
  <2>4. \A t \in failed' \ failed : t \in issued' /\ Started(t)'
    BY <2>1, <2>2, <2>3 DEF OrderInv, Sorted, Started
  <2> QED BY <2>1, <2>4, FlowKept DEF Started
<1> QED BY <1>1, <1>2, <1>3, <1>4, <1>5, <1>6, <1>7, <1>8, <1>9 DEF Next, Main, Exited

\* After a module with a failed service no later module is touched: whatever
\* is failed while a module is processed was started by that module.
THEOREM FailuresStopTheFlow == Spec => []FailureStopsFlow
<1>1. Init => FlowInv
  BY DEF Init, FlowInv, CleanStart, SkipsListed, FailureStopsFlow, InModule
<1>2. FlowInv => FailureStopsFlow
  BY DEF FlowInv
<1> QED BY TypeInit, TypeStep, OrderInit, OrderStep, <1>1, <1>2, FlowStep, PTL DEF Spec
=============================================================================
