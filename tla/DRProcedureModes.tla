---------------------------- MODULE DRProcedureModes ----------------------------
(***************************************************************************)
(* What a procedure leaves behind: every service in the summary, no        *)
(* service active on both sites, and a summary that is true.               *)
(***************************************************************************)
EXTENDS DRProcedureRefinement

LEMMA CliKept == ASSUME [Next]_vars PROVE UNCHANGED cli
BY DEF Next, Main, Thread, Environment, Exited, vars, SkipModule, BreakFlow, PassModule, StartModule,
   EndFlow, GetReady, GetResult, FinishModule, StartThread, SkipService, PostNowhere, PostAccepted,
   PostNoReply, PollReached, PollHealthAllowed, PollUnhealthy, PollFailed, Polled, ThreadDies,
   PutResult, ServiceApplies, ServiceFails, RemoveCR

----------------------------------------------------------------------------
(* The summary.  A collected service is in one of the lists, and no list    *)
(* loses a service but to another one.                                      *)

Reported == done \cup failed \cup warned \cup skipped
Due(k) == Graph(Flow[k].module) \cap located[FirstAvailable]

ReportInv ==
  /\ \A k \in 1..Len(Flow) : k < step /\ Concerned(k) => Due(k) \subseteq Reported
  /\ InModule => tsdone \subseteq Reported
  /\ pc = "end" => \A k \in 1..Len(Flow) : Concerned(k) => k < step

LEMMA ReportedGrows ==
  ASSUME TypeInv, [Next]_vars
  PROVE  Reported \subseteq Reported'
BY ListsEffect DEF Reported, SortOutUnlessSkipped, SortOut, SkipServices, results

\* What is due and what is concerned is settled by the command line.
LEMMA DueKept ==
  ASSUME UNCHANGED cli, NEW k \in 1..Len(Flow)
  PROVE  Due(k)' = Due(k) /\ Concerned(k)' = Concerned(k)
BY DEF cli, Due, Concerned, Graph, UsedSites, FirstAvailable

\* Steps at which the flow does not move on.
LEMMA ReportStays ==
  ASSUME TypeInv, ReportInv, [Next]_vars, UNCHANGED step, pc' # "end" \/ pc = "end",
         InModule' => tsdone' \subseteq Reported'
  PROVE  ReportInv'
BY CliKept, DueKept, ReportedGrows DEF ReportInv

\* The flow moves on to the next step.
LEMMA ReportMoves ==
  ASSUME TypeInv, ReportInv, [Next]_vars, step \in 1..Len(Flow), step' = step + 1, pc' = "flow",
         Concerned(step) => Due(step) \subseteq Reported'
  PROVE  ReportInv'
<1>1. \A k \in 1..Len(Flow) : k < step' => k < step \/ k = step
  BY CommandAssumption
<1>2. \A k \in 1..Len(Flow) : k < step' /\ Concerned(k)' => Due(k)' \subseteq Reported'
  BY <1>1, CliKept, DueKept, ReportedGrows DEF ReportInv
<1> QED BY <1>2 DEF ReportInv, InModule

LEMMA StepType == ASSUME TypeInv PROVE Len(Flow) \in Nat /\ step \in 1..(Len(Flow) + 1)
BY CommandAssumption DEF TypeInv, TypeOK

LEMMA ReportStep == TypeInv /\ OrderInv /\ ReportInv /\ [Next]_vars => ReportInv'
<1> SUFFICES ASSUME TypeInv, OrderInv, ReportInv, [Next]_vars PROVE ReportInv'
  OBVIOUS
<1>1. CASE SkipModule
  <2>1. /\ step \in 1..Len(Flow) /\ step' = step + 1 /\ pc' = "flow"
        /\ SkipServices({s \in located[FirstAvailable] : ModuleOf[s] = Flow[step].module})
    BY <1>1, StepType DEF SkipModule, AtStep
  <2>2. Due(step) \subseteq {s \in located[FirstAvailable] : ModuleOf[s] = Flow[step].module}
    BY DEF Due, Graph
  <2>3. Due(step) \subseteq Reported'
    BY <2>1, <2>2 DEF SkipServices, Reported
  <2> QED BY <2>1, <2>3, ReportMoves
<1>2. CASE PassModule
  <2>1. step \in 1..Len(Flow) /\ step' = step + 1 /\ pc' = "flow" /\ ~Concerned(step)
    BY <1>2, StepType DEF PassModule, AtStep, Irrelevant, Concerned, States
  <2> QED BY <2>1, ReportMoves
<1>3. CASE FinishModule
  <2>1. step \in 1..Len(Flow) /\ step' = step + 1 /\ pc' = "flow" /\ InModule /\ UNCHANGED results
    BY <1>3, StepType DEF FinishModule, InModule, TypeInv, TypeOK
  <2>2. tsdone = Graph(Flow[step].module)
    BY <1>3, <2>1, AllCollected DEF FinishModule, Nodes
  <2>3. Due(step) \subseteq Reported'
    BY <2>1, <2>2 DEF Due, ReportInv, Reported, results
  <2> QED BY <2>1, <2>3, ReportMoves
<1>4. CASE BreakFlow \/ EndFlow
  <2>1. \A k \in 1..Len(Flow) : Concerned(k) => k < step
    <3>1. CASE EndFlow
      BY <3>1, StepType DEF EndFlow
    <3>2. CASE BreakFlow
      <4>1. step \in 1..Len(Flow) /\ cmd \in {"standby", "disable", "return"} /\ Flow[step].states = "active"
        BY <3>2, StepType DEF BreakFlow, AtStep, BreaksFlow, States
      <4>2. \A k \in 1..Len(Flow) : ~(k < step) => step \in 1..k
        BY <4>1
      <4> QED BY <4>1, <4>2 DEF Concerned
    <3> QED BY <1>4, <3>1, <3>2
  <2>2. UNCHANGED <<step, results>> /\ pc' = "end"
    BY <1>4 DEF BreakFlow, EndFlow, flowVars
  <2>3. \A k \in 1..Len(Flow) : Due(k)' = Due(k) /\ Concerned(k)' = Concerned(k)
    BY CliKept, DueKept
  <2> QED BY <2>1, <2>2, <2>3 DEF ReportInv, Reported, InModule, results
<1>5. CASE StartModule
  BY <1>5, ReportStays DEF StartModule, flowVars
<1>6. CASE GetResult
  <2>1. /\ InModule /\ pc' # "end" /\ UNCHANGED step /\ tsdone' = tsdone \cup {Head(queue)}
        /\ SortOutUnlessSkipped(Head(queue), resp[Head(queue)])
    BY <1>6 DEF GetResult, InModule, flowVars
  <2>2. Head(queue) \in Reported'
    BY <2>1 DEF SortOutUnlessSkipped, SortOut, Reported, results
  <2>3. tsdone' \subseteq Reported'
    BY <2>1, <2>2, ReportedGrows DEF ReportInv
  <2> QED BY <2>1, <2>3, ReportStays
<1>7. CASE GetReady \/ Environment \/ (\E s \in Services : StartThread(s) \/ SkipService(s)) \/ UNCHANGED vars
  <2>1. UNCHANGED <<step, tsdone>> /\ (InModule' => InModule) /\ (pc' # "end" \/ pc = "end")
    BY <1>7 DEF GetReady, Environment, ServiceApplies, ServiceFails, RemoveCR, StartThread, SkipService,
       vars, flowVars, sorter, InModule
  <2> QED BY <2>1, ReportedGrows, ReportStays DEF ReportInv
<1>8. ASSUME NEW s \in Services, Thread(s) PROVE ReportInv'
  <2>1. UNCHANGED <<step, tsdone>> /\ (InModule' => InModule) /\ (pc' # "end" \/ pc = "end")
    BY <1>8, ThreadEffect DEF flowVars, sorter, InModule
  <2> QED BY <2>1, ReportedGrows, ReportStays DEF ReportInv
<1> QED BY <1>1, <1>2, <1>3, <1>4, <1>5, <1>6, <1>7, <1>8 DEF Next, Main, Exited

LEMMA ReportInit == Init => ReportInv
<1> SUFFICES ASSUME Init PROVE ReportInv
  OBVIOUS
<1>1. step = 1 /\ pc = "flow"
  BY DEF Init
<1> QED BY <1>1 DEF ReportInv, InModule

\* The summary names every selected service the command concerns, whatever failed,
\* was skipped or lost its resource on the way.
THEOREM SummaryIsComplete == Spec => []EveryServiceReported
<1>1. ReportInv => EveryServiceReported
  <2>1. DOMAIN Flow = 1..Len(Flow)
    BY CommandAssumption
  <2> QED BY <2>1 DEF ReportInv, EveryServiceReported, Due, Reported
<1> QED BY TypeInit, TypeStep, OrderInit, OrderStep, ReportInit, ReportStep, <1>1, PTL DEF Spec

----------------------------------------------------------------------------
(* A switchover.  A service may be asked to become active on its site only  *)
(* when the opposite site has given it up, and from then on nothing asks    *)
(* the opposite site to take it back.                                       *)

Switchover == cmd = "move" /\ ~force
Guarded(s) == s \notin Lenient /\ StandbyFirst(s)
\* The opposite site is not active, or its lookup no longer finds the service.
GivenUp(s) == mode["opposite"][s] # "active" \/ s \in removed["opposite"]

\* A module that was to passivate s and had no failure has done so.
PassivatedBefore(s) ==
  \A k \in 1..Len(Flow) :
    k < step /\ Flow[k].module = ModuleOf[s] /\ Flow[k].states = "passive" => GivenUp(s)

\* A thread goes on to the second half of its plan, or hands over the success of a
\* passivation, only after the service was seen to be given up.
SeenGivenUp(s) ==
  /\ phase[s] # 1 => GivenUp(s)
  /\ States = "passive" /\ wpc[s] \in {"put", "ended"} /\ IsOk(resp[s]) => GivenUp(s)

GuardInv(s) ==
  /\ pending["opposite"][s] \in {None, "standby"}
  /\ pending["site"][s] = "active" => GivenUp(s)
  /\ mode["site"][s] = "active" => GivenUp(s)
  /\ InModule => SeenGivenUp(s)
  /\ InModule \/ (pc = "flow" /\ drStatus) => (s \in Selected => PassivatedBefore(s))

ModeInv ==
  Switchover =>
    /\ up = Sites /\ \A x \in Sites : Selected \subseteq located[x]
    /\ \A s \in Services : Guarded(s) => GuardInv(s)

\* The plan of a service of a switchover that passivates before it activates.
LEMMA SwitchoverPlan ==
  ASSUME TypeInv, InModule, Switchover, NEW s \in Services, Guarded(s), s \in Nodes
  PROVE  /\ States = "all" => Plan(s) = <<On("opposite", "standby"), On("site", "active")>>
         /\ States = "passive" => Plan(s) = <<On("opposite", "standby")>>
         /\ States = "active" => /\ Plan(s) = <<On("site", "active")>>
                                 /\ \E k \in 1..Len(Flow) : /\ k < step /\ Flow[k].module = ModuleOf[s]
                                                            /\ Flow[k].states = "passive"
<1>1. step \in 1..Len(Flow) /\ DOMAIN Flow = 1..Len(Flow) /\ States \in StatesKinds
  BY CommandAssumption, StepCmdType DEF TypeInv, TypeOK, InModule
<1>2. ModuleOf[s] = Flow[step].module
  BY DEF Nodes, Graph
<1>3. CASE States = "all"
  <2>1. SequenceOf["site"][s] = "standby"
    BY <1>1, <1>2, <1>3 DEF Guarded, StandbyFirst, States
  <2>2. StepCmd = "move"
    BY <1>3 DEF StepCmd, Switchover
  <2>3. Plan(s) = <<On("opposite", "standby"), On("site", "active")>>
    BY <2>1, <2>2 DEF Plan, DROperationSequence, SiteCmds, Switchover
  <2> QED BY <1>3, <2>3
<1>4. CASE States = "passive"
  <2>1. StepCmd = "standby" /\ StepSite = "opposite"
    BY <1>4 DEF StepCmd, StepSite, Switchover, DRCmds
  <2> QED BY <1>4, <2>1 DEF Plan, SiteCmds, Convert
<1>5. CASE States = "active"
  <2>1. StepCmd = "active" /\ StepSite = "site"
    BY <1>5 DEF StepCmd, StepSite, Switchover, DRCmds
  <2>2. Plan(s) = <<On("site", "active")>>
    BY <2>1 DEF Plan, SiteCmds, Convert
  <2>3. \E k \in 1..Len(Flow) : k < step /\ Flow[k].module = ModuleOf[s] /\ Flow[k].states = "passive"
    BY <1>1, <1>2, <1>5 DEF Guarded, StandbyFirst, States
  <2> QED BY <1>5, <2>2, <2>3
<1> QED BY <1>1, <1>3, <1>4, <1>5 DEF StatesKinds

\* What a running thread of such a service is about to do.
LEMMA SwitchoverNow ==
  ASSUME TypeInv, OrderInv, ModeInv, Switchover, NEW s \in Services, Guarded(s), wpc[s] \in Running
  PROVE  /\ InModule /\ s \in located["site"] /\ s \in located["opposite"]
         /\ \/ Now(s) = On("opposite", "standby") /\ phase[s] = 1
            \/ Now(s) = On("site", "active") /\ GivenUp(s)
         /\ States = "passive" => Now(s) = On("opposite", "standby")
         /\ phase[s] < Len(Plan(s)) => Now(s) = On("opposite", "standby") /\ phase[s] = 1
<1>1. InModule /\ phase[s] \in 1..2 /\ phase[s] <= Len(Plan(s))
  BY NowType DEF TypeInv, TypeOK, PlanBound
<1>2. s \in Nodes
  BY <1>1 DEF OrderInv, Sorted, Running
<1>3. s \in Selected /\ s \in located["site"] /\ s \in located["opposite"] /\ GuardInv(s)
  BY <1>2 DEF Nodes, Graph, ModeInv, Sites
<1>4. States \in StatesKinds
  BY <1>1, StepCmdType DEF TypeInv, TypeOK, InModule
<1>5. CASE States = "all"
  <2>1. Plan(s) = <<On("opposite", "standby"), On("site", "active")>>
    BY <1>1, <1>2, <1>5, SwitchoverPlan
  <2>2. phase[s] = 2 => GivenUp(s)
    BY <1>1, <1>3 DEF GuardInv, SeenGivenUp
  <2> QED BY <1>1, <1>3, <1>5, <2>1, <2>2 DEF Now
<1>6. CASE States = "passive"
  <2>1. Plan(s) = <<On("opposite", "standby")>>
    BY <1>1, <1>2, <1>6, SwitchoverPlan
  <2> QED BY <1>1, <1>3, <1>6, <2>1 DEF Now
<1>7. CASE States = "active"
  <2>1. Plan(s) = <<On("site", "active")>>
    BY <1>1, <1>2, <1>7, SwitchoverPlan
  <2>2. \E k \in 1..Len(Flow) : k < step /\ Flow[k].module = ModuleOf[s] /\ Flow[k].states = "passive"
    BY <1>1, <1>2, <1>7, SwitchoverPlan
  <2>3. GivenUp(s)
    BY <1>1, <1>3, <2>2 DEF GuardInv, PassivatedBefore
  <2> QED BY <1>1, <1>3, <1>7, <2>1, <2>3 DEF Now
<1> QED BY <1>4, <1>5, <1>6, <1>7 DEF StatesKinds

\* The opposite site does not take a service back, whatever the services do.
LEMMA StaysGivenUp ==
  ASSUME TypeInv, ModeInv, Switchover, NEW s \in Services, Guarded(s), GivenUp(s),
         Environment \/ UNCHANGED <<mode, removed>>
  PROVE  GivenUp(s)'
<1>1. CASE UNCHANGED <<mode, removed>>
  BY <1>1 DEF GivenUp
<1>2. ASSUME NEW x \in Sites, NEW t \in Services,
             ServiceApplies(x, t) \/ ServiceFails(x, t) \/ RemoveCR(x, t)
      PROVE  GivenUp(s)'
  <2>1. pending["opposite"][s] \in {None, "standby"}
    BY DEF ModeInv, GuardInv
  <2>2. /\ mode'["opposite"][s] \in {mode["opposite"][s], "standby"}
        /\ removed["opposite"] \subseteq removed'["opposite"]
    BY <1>2, <2>1 DEF ServiceApplies, ServiceFails, RemoveCR, Sites, TypeInv, TypeOK
  <2> QED BY <2>2 DEF GivenUp
<1> QED BY <1>1, <1>2 DEF Environment

LEMMA SwitchoverKept ==
  ASSUME [Next]_vars, Switchover'
  PROVE  /\ Switchover /\ UNCHANGED <<cli, up, located>>
         /\ \A s \in Services : Guarded(s)' = Guarded(s)
<1>1. UNCHANGED cli
  BY CliKept
<1> QED BY <1>1 DEF cli, Switchover, Guarded, StandbyFirst

\* The services change modes.
LEMMA GuardEnvironment ==
  ASSUME TypeInv, ModeInv, Switchover, Environment, NEW s \in Services, Guarded(s)
  PROVE  GuardInv(s)'
<1>1. GuardInv(s) /\ UNCHANGED <<pc, flowVars, threads>> /\ InModule' = InModule
  BY DEF ModeInv, Environment, ServiceApplies, ServiceFails, RemoveCR, InModule
<1>2. GivenUp(s) => GivenUp(s)'
  BY StaysGivenUp
<1>3. PICK x \in Sites, t \in Services : ServiceApplies(x, t) \/ ServiceFails(x, t) \/ RemoveCR(x, t)
  BY DEF Environment
<1>4. /\ pending' = pending \/ pending' = [pending EXCEPT ![x][t] = None]
      /\ mode' = mode \/ mode' = [mode EXCEPT ![x][t] = pending[x][t]]
  BY <1>3 DEF ServiceApplies, ServiceFails, RemoveCR
<1>5. /\ \A y \in Sites : pending'[y][s] \in {pending[y][s], None}
      /\ mode'["site"][s] \in {mode["site"][s], pending["site"][s]}
  BY <1>4 DEF TypeInv, TypeOK, Sites
<1>6. None # "active"
  BY DEF None
<1>7. pending'["opposite"][s] \in {None, "standby"} /\ (pending'["site"][s] = "active" => GivenUp(s)')
  BY <1>1, <1>2, <1>5, <1>6 DEF GuardInv, Sites
<1>8. mode'["site"][s] = "active" => GivenUp(s)'
  BY <1>1, <1>2, <1>5, <1>6 DEF GuardInv
<1>9. InModule' => SeenGivenUp(s)'
  BY <1>1, <1>2 DEF GuardInv, SeenGivenUp, States, IsOk, threads, flowVars
<1>10. PassivatedBefore(s) => PassivatedBefore(s)'
  BY <1>1, <1>2 DEF PassivatedBefore, flowVars
<1> QED BY <1>1, <1>7, <1>8, <1>9, <1>10 DEF GuardInv, flowVars

\* What a step of a thread does to the world and to its own progress.
LEMMA ThreadWorld ==
  ASSUME TypeInv, NEW s \in Services, Thread(s)
  PROVE  /\ UNCHANGED <<mode, removed>>
         /\ UNCHANGED pending \/ Request(s)
         /\ \A t \in Services \ {s} : UNCHANGED <<phase[t], wpc[t], resp[t]>>
         /\ \/ UNCHANGED phase /\ wpc'[s] \in {"poll", "dead"}
            \/ wpc[s] = "put" /\ UNCHANGED <<phase, resp>>
            \/ PostNowhere(s)
            \/ PostNoReply(s)
            \/ PollReached(s) \/ PollHealthAllowed(s) \/ PollUnhealthy(s) \/ PollFailed(s)
<1>1. wpc \in [Services -> {"idle", "post", "poll", "put", "ended", "skipped", "dead"}]
      /\ resp \in [Services -> Responses] /\ phase \in [Services -> 1..2]
  BY DEF TypeInv, TypeOK, Responses
<1>2. ASSUME NEW r, Advance(s, r)
      PROVE  \A t \in Services \ {s} : UNCHANGED <<phase[t], wpc[t], resp[t]>>
  BY <1>1, <1>2 DEF Advance
<1>3. CASE PostNowhere(s) \/ PostNoReply(s)
  BY <1>2, <1>3 DEF PostNowhere, PostNoReply, world
<1>4. CASE PollReached(s) \/ PollHealthAllowed(s) \/ PollUnhealthy(s) \/ PollFailed(s)
  BY <1>2, <1>4 DEF PollReached, PollHealthAllowed, PollUnhealthy, PollFailed, Polled, world
<1>5. CASE PostAccepted(s) \/ ThreadDies(s) \/ PutResult(s)
  BY <1>1, <1>5 DEF PostAccepted, ThreadDies, PutResult, world
<1> QED BY <1>3, <1>4, <1>5 DEF Thread

\* A thread that takes a step has been told that its service was given up before it
\* goes on, and never takes an unfinished passivation for a success.
LEMMA GuardOwnThread ==
  ASSUME TypeInv, OrderInv, ModeInv, Switchover, NEW s \in Services, Guarded(s), Thread(s)
  PROVE  SeenGivenUp(s)'
<1>1. /\ InModule /\ wpc[s] \in Running /\ UNCHANGED <<cli, pc, flowVars>>
  BY ThreadEffect
<1>2. GuardInv(s) /\ SeenGivenUp(s)
  BY <1>1 DEF ModeInv, GuardInv
<1>3. States' = States /\ GivenUp(s)' = GivenUp(s)
  BY <1>1, ThreadWorld DEF States, GivenUp, flowVars
<1>4. /\ s \in located["site"] /\ s \in located["opposite"]
      /\ \/ Now(s) = On("opposite", "standby") /\ phase[s] = 1
         \/ Now(s) = On("site", "active") /\ GivenUp(s)
      /\ States = "passive" => Now(s) = On("opposite", "standby")
      /\ phase[s] < Len(Plan(s)) => Now(s) = On("opposite", "standby") /\ phase[s] = 1
  BY <1>1, SwitchoverNow
<1>5. ASSUME NEW r \in Responses, Advance(s, r),
             IsOk(r) /\ Now(s) = On("opposite", "standby") => GivenUp(s)
      PROVE  SeenGivenUp(s)'
  <2>1. resp'[s] = r /\ (phase'[s] = phase[s] \/ (IsOk(r) /\ phase[s] < Len(Plan(s))))
    BY <1>5 DEF Advance, TypeInv, TypeOK
  <2>2. phase'[s] # 1 => GivenUp(s)
    BY <1>2, <1>4, <1>5, <2>1 DEF SeenGivenUp
  <2>3. States = "passive" /\ IsOk(r) => GivenUp(s)
    BY <1>4, <1>5
  <2> QED BY <1>3, <2>1, <2>2, <2>3 DEF SeenGivenUp
<1>6. ~IsOk(Response(Forced("standby"), "standby")) /\ ~IsOk(Response(FALSE, "standby"))
  BY DEF Response, Forced, Tolerated, IsOk, Switchover
<1>7. On("opposite", "standby").site = "opposite" /\ On("opposite", "standby").mode = "standby"
  BY DEF On
<1>8. CASE PostNowhere(s)
  <2>1. Now(s) = On("opposite", "standby") => GivenUp(s)
    BY <1>4, <1>7, <1>8 DEF PostNowhere, Managed, GivenUp
  <2> QED BY <1>5, <1>8, <2>1, ResponseType DEF PostNowhere
<1>9. CASE PostNoReply(s)
  <2>1. Now(s) = On("opposite", "standby") => ~IsOk(Response(Forced(Now(s).mode), Now(s).mode))
    BY <1>6, <1>7
  <2> QED BY <1>5, <1>9, <2>1, ResponseType, ForcedType DEF PostNoReply, TypeInv
<1>10. CASE PollReached(s)
  <2>1. Now(s) = On("opposite", "standby") => GivenUp(s)
    BY <1>7, <1>10 DEF PollReached, GivenUp
  <2> QED BY <1>5, <1>10, <2>1, ResponseType DEF PollReached, Polled
<1>11. CASE PollUnhealthy(s)
  <2>1. Now(s) = On("opposite", "standby") => ~IsOk(Response(Forced(Now(s).mode), Now(s).mode))
    BY <1>6, <1>7
  <2> QED BY <1>5, <1>11, <2>1, ResponseType, ForcedType DEF PollUnhealthy, Polled, TypeInv
<1>12. CASE PollFailed(s)
  <2>1. Now(s) = On("opposite", "standby") => ~IsOk(Response(FALSE, Now(s).mode))
    BY <1>6, <1>7
  <2> QED BY <1>5, <1>12, <2>1, ResponseType DEF PollFailed, Polled
<1>13. ~PollHealthAllowed(s)
  BY DEF PollHealthAllowed, Guarded
<1>14. CASE UNCHANGED phase /\ wpc'[s] \in {"poll", "dead"}
  BY <1>2, <1>3, <1>14 DEF SeenGivenUp
<1>15. CASE wpc[s] = "put" /\ UNCHANGED <<phase, resp>>
  BY <1>2, <1>3, <1>15 DEF SeenGivenUp, IsOk
<1> QED BY <1>8, <1>9, <1>10, <1>11, <1>12, <1>13, <1>14, <1>15, ThreadWorld

LEMMA GuardThread ==
  ASSUME TypeInv, OrderInv, ModeInv, Switchover, NEW t \in Services, Thread(t),
         NEW s \in Services, Guarded(s)
  PROVE  GuardInv(s)'
<1>1. /\ InModule /\ InModule' /\ wpc[t] \in Running
      /\ UNCHANGED <<cli, pc, flowVars, mode, removed>> /\ (UNCHANGED pending \/ Request(t))
  BY ThreadEffect, ThreadWorld DEF InModule
<1>2. GuardInv(s) /\ GivenUp(s)' = GivenUp(s) /\ States' = States
  BY <1>1 DEF ModeInv, GivenUp, States, flowVars
<1>3. /\ pending'["opposite"][s] \in {None, "standby"}
      /\ pending'["site"][s] = "active" => GivenUp(s)
  <2>1. CASE UNCHANGED pending
    BY <1>2, <2>1 DEF GuardInv
  <2>2. CASE Request(t) /\ t # s
    <3>1. \A x \in Sites : pending'[x][s] = pending[x][s]
      BY <2>2 DEF Request, TypeInv, TypeOK
    <3> QED BY <1>2, <3>1 DEF GuardInv, Sites
  <2>3. CASE Request(t) /\ t = s
    <3>1. \/ Now(s) = On("opposite", "standby")
          \/ Now(s) = On("site", "active") /\ GivenUp(s)
      BY <1>1, <2>3, SwitchoverNow
    <3>2. pending' = [pending EXCEPT ![Now(s).site][s] = Now(s).mode]
          /\ pending \in [Sites -> [Services -> Modes \cup {None}]]
      BY <2>3 DEF Request, TypeInv, TypeOK
    <3>3. CASE Now(s) = On("opposite", "standby")
      <4>1. pending'["opposite"][s] = "standby" /\ pending'["site"][s] = pending["site"][s]
        BY <3>2, <3>3 DEF On, Sites
      <4> QED BY <1>2, <4>1 DEF GuardInv
    <3>4. CASE Now(s) = On("site", "active") /\ GivenUp(s)
      <4>1. pending'["opposite"][s] = pending["opposite"][s]
        BY <3>2, <3>4 DEF On, Sites
      <4> QED BY <1>2, <3>4, <4>1 DEF GuardInv
    <3> QED BY <3>1, <3>3, <3>4
  <2> QED BY <1>1, <2>1, <2>2, <2>3
<1>4. SeenGivenUp(s)'
  <2>1. CASE t = s
    BY <2>1, GuardOwnThread
  <2>2. CASE t # s
    BY <1>1, <1>2, <2>2, ThreadWorld DEF GuardInv, SeenGivenUp, IsOk
  <2> QED BY <2>1, <2>2
<1>5. mode'["site"][s] = "active" => GivenUp(s)'
  BY <1>1, <1>2 DEF GuardInv
<1>6. PassivatedBefore(s)' = PassivatedBefore(s)
  BY <1>1, <1>2 DEF PassivatedBefore, flowVars
<1> QED BY <1>1, <1>2, <1>3, <1>4, <1>5, <1>6 DEF GuardInv

\* A step of the main thread touches no service.
LEMMA GuardMain ==
  ASSUME TypeInv, ModeInv, Switchover, UNCHANGED world, NEW s \in Services, Guarded(s),
         InModule' => SeenGivenUp(s)',
         InModule' \/ (pc' = "flow" /\ drStatus') => (s \in Selected => PassivatedBefore(s)')
  PROVE  GuardInv(s)'
BY DEF ModeInv, GuardInv, GivenUp, world

\* A module that was to passivate s and ends without a failure has seen it given up.
LEMMA PassivatedByModule ==
  ASSUME Invs, ModeInv, Switchover, InModule, ~IsActive, failed = {},
         NEW s \in Services, Guarded(s), s \in Selected, ModuleOf[s] = Flow[step].module, States = "passive"
  PROVE  GivenUp(s)
<1>1. s \in located["site"] /\ GuardInv(s) /\ up = Sites
  BY DEF ModeInv, Sites
<1>2. s \in Nodes
  <2>1. \E x \in UsedSites(ModuleOf[s]) : s \in located[x]
    BY <1>1 DEF UsedSites, Switchover, DRCmds, Sites
  <2> QED BY <2>1 DEF Nodes, Graph
<1>3. s \in tsdone
  BY <1>2, AllCollected DEF Invs
<1>4. IsOk(resp[s]) /\ wpc[s] = "ended"
  BY <1>3 DEF Invs, RecordInv, WrongIsFailed, Fresh, OrderInv, Sorted, Finished
<1> QED BY <1>1, <1>4 DEF GuardInv, SeenGivenUp

LEMMA GuardFinish ==
  ASSUME Invs, ModeInv, Switchover, FinishModule, NEW s \in Services, Guarded(s)
  PROVE  GuardInv(s)'
<1>1. /\ InModule /\ ~InModule' /\ ~IsActive /\ step' = step + 1 /\ (drStatus' => failed = {})
      /\ UNCHANGED <<mode, removed, world>>
  BY DEF FinishModule, StatusAfter, InModule, world
<1>2. step \in 1..Len(Flow) /\ Len(Flow) \in Nat
  BY <1>1, CommandAssumption DEF Invs, TypeInv, TypeOK, InModule
<1>3. ASSUME drStatus', s \in Selected,
             NEW k \in 1..Len(Flow), k < step', Flow[k].module = ModuleOf[s], Flow[k].states = "passive"
      PROVE  GivenUp(s)
  <2>1. k < step \/ k = step
    BY <1>1, <1>2, <1>3
  <2>2. CASE k < step
    BY <1>1, <1>3, <2>2 DEF ModeInv, GuardInv, PassivatedBefore
  <2>3. CASE k = step
    BY <1>1, <1>3, <2>3, PassivatedByModule DEF States
  <2> QED BY <2>1, <2>2, <2>3
<1>4. GivenUp(s)' = GivenUp(s)
  BY <1>1 DEF GivenUp
<1>5. InModule' \/ (pc' = "flow" /\ drStatus') => (s \in Selected => PassivatedBefore(s)')
  BY <1>1, <1>3, <1>4 DEF PassivatedBefore
<1> QED BY <1>1, <1>5, GuardMain DEF Invs

\* A step of the main thread that stays in the module, or enters or leaves it without
\* moving on in the flow.
LEMMA GuardInPlace ==
  ASSUME TypeInv, ModeInv, Switchover, UNCHANGED <<flowVars, world, phase, resp>>,
         NEW s \in Services, Guarded(s),
         InModule' => InModule,
         wpc'[s] \in {"put", "ended"} => wpc'[s] = wpc[s],
         pc' = "flow" => pc = "flow"
  PROVE  GuardInv(s)'
<1>1. GuardInv(s) /\ GivenUp(s)' = GivenUp(s) /\ States' = States
  BY DEF ModeInv, GivenUp, States, flowVars, world
<1>2. InModule' => SeenGivenUp(s)'
  BY <1>1 DEF GuardInv, SeenGivenUp, IsOk
<1>3. InModule' \/ (pc' = "flow" /\ drStatus') => (s \in Selected => PassivatedBefore(s)')
  BY <1>1 DEF GuardInv, PassivatedBefore, flowVars
<1> QED BY <1>2, <1>3, GuardMain

LEMMA GuardStart ==
  ASSUME TypeInv, ModeInv, Switchover, StartModule, NEW s \in Services, Guarded(s)
  PROVE  GuardInv(s)'
<1>1. /\ pc = "flow" /\ drStatus /\ UNCHANGED <<flowVars, world>>
      /\ phase'[s] = 1 /\ wpc'[s] = "idle"
  BY DEF StartModule, AtStep
<1>2. GuardInv(s) /\ GivenUp(s)' = GivenUp(s)
  BY <1>1 DEF ModeInv, GivenUp, world
<1>3. SeenGivenUp(s)'
  BY <1>1 DEF SeenGivenUp
<1>4. s \in Selected => PassivatedBefore(s)'
  BY <1>1, <1>2 DEF GuardInv, PassivatedBefore, flowVars
<1> QED BY <1>1, <1>3, <1>4, GuardMain

LEMMA ModeStep == Invs /\ ModeInv /\ [Next]_vars => ModeInv'
<1> SUFFICES ASSUME Invs, ModeInv, [Next]_vars, Switchover' PROVE ModeInv'
  BY DEF ModeInv
<1>1. Switchover /\ UNCHANGED <<cli, up, located>> /\ \A s \in Services : Guarded(s)' = Guarded(s)
  BY SwitchoverKept
<1>2. SUFFICES ASSUME NEW s \in Services, Guarded(s) PROVE GuardInv(s)'
  BY <1>1 DEF ModeInv
<1>3. TypeInv /\ OrderInv
  BY DEF Invs
<1>4. CASE FinishModule
  BY <1>1, <1>2, <1>4, GuardFinish
<1>5. CASE StartModule
  BY <1>1, <1>2, <1>3, <1>5, GuardStart
<1>6. CASE Environment
  BY <1>1, <1>2, <1>3, <1>6, GuardEnvironment
<1>7. ASSUME NEW t \in Services, Thread(t) PROVE GuardInv(s)'
  BY <1>1, <1>2, <1>3, <1>7, GuardThread
<1>8. CASE SkipModule
  <2>1. ~InModule' /\ ~drStatus' /\ UNCHANGED world
    BY <1>8 DEF SkipModule, AtStep, InModule
  <2> QED BY <1>1, <1>2, <1>3, <2>1, GuardMain
<1>9. ~PassModule
  BY <1>1 DEF PassModule, Irrelevant, Switchover
<1>10. CASE BreakFlow \/ EndFlow
  <2>1. ~InModule' /\ pc' # "flow" /\ UNCHANGED world
    BY <1>10 DEF BreakFlow, EndFlow, InModule
  <2> QED BY <1>1, <1>2, <1>3, <2>1, GuardMain
<1>11. CASE GetReady \/ GetResult \/ UNCHANGED vars
  <2>1. /\ UNCHANGED <<flowVars, world, threads>> /\ (InModule' => InModule)
        /\ (pc' = "flow" => pc = "flow")
    BY <1>11 DEF GetReady, GetResult, vars, InModule
  <2> QED BY <1>1, <1>2, <1>3, <2>1, GuardInPlace DEF threads
<1>12. ASSUME NEW t \in Services, StartThread(t) \/ SkipService(t) PROVE GuardInv(s)'
  <2>1. /\ UNCHANGED <<flowVars, world, phase, resp>> /\ InModule' = InModule
        /\ UNCHANGED pc /\ (wpc'[s] = wpc[s] \/ wpc'[s] \in {"post", "skipped"})
    BY <1>12 DEF StartThread, SkipService, InModule, Invs, TypeInv, TypeOK
  <2> QED BY <1>1, <1>2, <1>3, <2>1, GuardInPlace
<1> QED BY <1>4, <1>5, <1>6, <1>7, <1>8, <1>9, <1>10, <1>11, <1>12 DEF Next, Main, Exited

LEMMA ModeInit == Init => ModeInv
<1> SUFFICES ASSUME Init, Switchover PROVE ModeInv
  BY DEF ModeInv
<1>1. up = Sites /\ \A x \in Sites : Selected \subseteq located[x]
  BY DEF Init, ValidCommand, Switchover
<1>2. ASSUME NEW s \in Services PROVE GuardInv(s)
  <2>1. /\ pending["opposite"][s] = None /\ pending["site"][s] = None /\ None # "active"
        /\ ~InModule /\ step = 1
    BY DEF Init, Sites, InModule, None
  <2>2. mode["site"][s] = "active" => GivenUp(s)
    BY OneActiveAssumption DEF Init, GivenUp
  <2>3. PassivatedBefore(s)
    BY <2>1, CommandAssumption DEF PassivatedBefore
  <2> QED BY <2>1, <2>2, <2>3 DEF GuardInv
<1> QED BY <1>1, <1>2 DEF ModeInv

\* A switchover without --force never has a service active on both sites: for any
\* flow that passivates it before it activates it, with requests lost, late, failing
\* or answered wrongly, as long as its resource on the opposite site is not deleted.
THEOREM SwitchoverNeverTwice == Spec => []NeverActiveTwice
<1>1. Invs /\ ModeInv => NeverActiveTwice
  BY DEF ModeInv, NeverActiveTwice, GuardInv, GivenUp, Guarded, Switchover
<1> QED BY InvsHold, ModeInit, ModeStep, <1>1, PTL DEF Spec

----------------------------------------------------------------------------
(* The truth of the summary.  Every command asks a site for one mode only,  *)
(* so a service that has reached it, or has lost its resource, stays there  *)
(* whatever arrives late.                                                   *)

\* Sites that answered list the same services.
OneListing == \A c \in Clusters, x, y \in Sites : {x, y} \subseteq c.up => c.located[x] = c.located[y]

\* A module that is passivated in one step of the flow is activated in another one.
BothHalves ==
  \A k \in 1..Len(Flow), states \in {"active", "passive"} :
    Flow[k].states # "all" =>
      \E j \in 1..Len(Flow) : Flow[j].module = Flow[k].module /\ Flow[j].states \in {states, "all"}

Kept(x, s) == s \in located[x] \ removed[x] => mode[x][s] \in Promised(x)

\* The steps of the flow that concern s, and the sites they command.
Serves(k, s) == Flow[k].module = ModuleOf[s] /\ ~(cmd = "active" /\ Flow[k].states = "passive")
Targets(k) ==
  CASE cmd \in SiteCmds -> {"site"}
    [] cmd \notin SiteCmds /\ Flow[k].states = "all" -> Sites
    [] cmd \notin SiteCmds /\ Flow[k].states = "active" -> {IF cmd = "move" THEN "site" ELSE "opposite"}
    [] OTHER -> {IF cmd = "move" THEN "opposite" ELSE "site"}

Settled(s) ==
  \A k \in 1..Len(Flow) : k < step /\ Serves(k, s) => \A x \in Targets(k) : Kept(x, s)

\* A thread that goes on, or hands over an acceptable response, has seen its service
\* where the command wants it.
ThreadKept(s) ==
  /\ phase[s] # 1 => Kept(Plan(s)[1].site, s)
  /\ wpc[s] \in {"put", "ended"} /\ IsOk(resp[s]) => phase[s] = Len(Plan(s)) /\ Kept(Now(s).site, s)

\* What is collected and not ok is not reported as done.
WrongIsListed(s) == s \in tsdone /\ ~IsOk(resp[s]) => s \in failed \cup skipped

Justified(s) ==
  /\ s \in Graph(ModuleOf[s]) /\ Settled(s)
  /\ \E k \in 1..Len(Flow) : Serves(k, s) /\ (k < step \/ (InModule /\ k = step))

KeptInv(s) ==
  /\ \A x \in Sites : pending[x][s] \in Promised(x) \cup {None}
  /\ InModule => ThreadKept(s) /\ WrongIsListed(s)
  /\ InModule \/ (pc = "flow" /\ drStatus) => (s \in Graph(ModuleOf[s]) => Settled(s))
  /\ s \in done \cup warned => Justified(s)

AppliedInv ==
  /\ up # {} /\ (\A m : UsedSites(m) \subseteq up) /\ \A x, y \in Sites : {x, y} \subseteq up => located[x] = located[y]
  /\ InModule => ~(cmd = "active" /\ States = "passive")
  /\ ~force => \A s \in Services \ Lenient : KeptInv(s)

\* A step of the plan asks for what is promised, and a failure is tolerated only
\* where nothing is promised.  The plan visits the sites the step commands.
LEMMA PlanPromised ==
  ASSUME TypeInv, InModule, NEW s \in Services
  PROVE  /\ \A i \in 1..Len(Plan(s)) :
              /\ Plan(s)[i].mode \in Promised(Plan(s)[i].site)
              /\ Tolerated(Plan(s)[i].mode) => Promised(Plan(s)[i].site) = Modes
         /\ \A x \in Targets(step) : \E i \in 1..Len(Plan(s)) : Plan(s)[i].site = x
         /\ Len(Plan(s)) \in 1..2
<1>1. States \in StatesKinds /\ cmd \in SiteCmds \cup DRCmds
  BY StepCmdType, CommandAssumption DEF TypeInv, TypeOK, InModule
<1>2. CASE cmd \in SiteCmds
  <2>1. cmd \notin DRCmds /\ cmd # "move" /\ cmd # "stop"
    BY <1>2 DEF SiteCmds, DRCmds
  <2>2. Plan(s) = <<On("site", Convert(cmd))>>
    <3>1. StepSite = "site"
      BY <2>1 DEF StepSite
    <3>2. StepCmd \in {cmd, Convert(cmd)}
      BY <2>1 DEF StepCmd
    <3>3. StepCmd \in SiteCmds /\ Convert(StepCmd) = Convert(cmd)
      BY <1>2, <3>2 DEF Convert, SiteCmds
    <3> QED BY <3>1, <3>3 DEF Plan
  <2>3. Promised("site") = {Convert(cmd)} /\ Targets(step) = {"site"}
    BY <1>2, <2>1 DEF Promised, Targets
  <2> QED BY <2>1, <2>2, <2>3 DEF On, Tolerated
<1>3. CASE cmd \in DRCmds
  <2>1. cmd \notin SiteCmds /\ cmd \in {"move", "stop"}
    BY <1>3 DEF SiteCmds, DRCmds
  <2>2. CASE States = "all"
    <3>1. Plan(s) = DROperationSequence(s) /\ Targets(step) = Sites
      BY <2>1, <2>2 DEF Plan, StepCmd, Targets, States
    <3> QED BY <2>1, <3>1 DEF DROperationSequence, On, Tolerated, Promised, Sites, Modes
  <2>3. CASE States = "active"
    <3>1. Plan(s) = <<On(IF cmd = "stop" THEN "opposite" ELSE "site", "active")>>
      BY <1>3, <2>1, <2>3 DEF Plan, StepCmd, StepSite, SiteCmds, Convert
    <3>2. Targets(step) = {IF cmd = "move" THEN "site" ELSE "opposite"}
      BY <2>1, <2>3 DEF Targets, States
    <3> QED BY <2>1, <3>1, <3>2 DEF On, Tolerated, Promised
  <2>4. CASE States = "passive"
    <3>1. Plan(s) = <<On(IF cmd = "move" THEN "opposite" ELSE "site", "standby")>>
      BY <1>3, <2>1, <2>4 DEF Plan, StepCmd, StepSite, SiteCmds, Convert
    <3>2. Targets(step) = {IF cmd = "move" THEN "opposite" ELSE "site"}
      BY <2>1, <2>4 DEF Targets, States
    <3> QED BY <2>1, <3>1, <3>2 DEF On, Tolerated, Promised, Modes
  <2> QED BY <1>1, <2>2, <2>3, <2>4 DEF StatesKinds
<1> QED BY <1>1, <1>2, <1>3

\* Nothing is promised but modes, and what is promised does not change.
LEMMA PromisedKept ==
  ASSUME UNCHANGED cli
  PROVE  /\ \A x \in Sites : Promised(x)' = Promised(x)
         /\ \A k \in 1..Len(Flow) : Targets(k)' = Targets(k)
         /\ \A k \in 1..Len(Flow), s \in Services : Serves(k, s)' = Serves(k, s)
         /\ \A m : Graph(m)' = Graph(m)
BY DEF cli, Promised, Targets, Serves, Graph, UsedSites

LEMMA TargetsType == \A k : Targets(k) \subseteq Sites
BY DEF Targets, Sites

\* A service that is where the command wants it stays there.
LEMMA KeptStays ==
  ASSUME TypeInv, [Next]_vars, NEW s \in Services, NEW x \in Sites, Kept(x, s),
         pending[x][s] \in Promised(x) \cup {None}
  PROVE  Kept(x, s)'
<1>1. UNCHANGED cli /\ Promised(x)' = Promised(x)
  BY CliKept, PromisedKept
<1>2. CASE UNCHANGED <<mode, removed>>
  BY <1>1, <1>2 DEF Kept, cli
<1>3. ASSUME NEW y \in Sites, NEW t \in Services,
             ServiceApplies(y, t) \/ ServiceFails(y, t) \/ RemoveCR(y, t)
      PROVE  Kept(x, s)'
  <2>1. /\ mode'[x][s] = mode[x][s] \/ (mode'[x][s] = pending[x][s] /\ pending[x][s] # None)
        /\ removed[x] \subseteq removed'[x]
    <3>1. CASE ServiceApplies(y, t) \/ ServiceFails(y, t)
      <4>1. UNCHANGED mode \/ (pending[y][t] # None /\ mode' = [mode EXCEPT ![y][t] = pending[y][t]])
        BY <3>1 DEF ServiceApplies, ServiceFails
      <4>2. UNCHANGED removed
        BY <3>1 DEF ServiceApplies, ServiceFails
      <4>3. mode \in [Sites -> [Services -> Modes]]
        BY DEF TypeInv, TypeOK
      <4>4. \/ mode'[x][s] = mode[x][s]
            \/ x = y /\ s = t /\ pending[y][t] # None /\ mode'[x][s] = pending[y][t]
        BY <4>1, <4>3
      <4> QED BY <4>2, <4>4
    <3>2. CASE RemoveCR(y, t)
      BY <3>2 DEF RemoveCR, TypeInv, TypeOK
    <3> QED BY <1>3, <3>1, <3>2
  <2> QED BY <1>1, <2>1 DEF Kept, cli
<1>4. Environment \/ UNCHANGED <<mode, removed>>
  BY ThreadWorld DEF Next, Main, Exited, SkipModule, BreakFlow, PassModule, StartModule, EndFlow,
     GetReady, GetResult, FinishModule, StartThread, SkipService, world, vars
<1> QED BY <1>2, <1>3, <1>4 DEF Environment

\* Nothing else is ever asked of a service.
LEMMA PendingStays ==
  ASSUME TypeInv, [Next]_vars, NEW s \in Services, NEW x \in Sites,
         pending[x][s] \in Promised(x) \cup {None}
  PROVE  pending'[x][s] \in Promised(x) \cup {None}
<1>1. CASE UNCHANGED pending
  BY <1>1
<1>2. ASSUME NEW t \in Services, Thread(t), Request(t) PROVE pending'[x][s] \in Promised(x) \cup {None}
  <2>1. InModule /\ wpc[t] \in Running
    BY <1>2, ThreadEffect
  <2>2. phase[t] \in 1..Len(Plan(t)) /\ Now(t).site \in Sites /\ Now(t) = Plan(t)[phase[t]]
    BY <2>1, NowType, PlanPromised DEF TypeInv, TypeOK, PlanBound, Now
  <2>3. Now(t).mode \in Promised(Now(t).site)
    BY <2>1, <2>2, PlanPromised
  <2>4. pending'[x][s] = pending[x][s] \/ (x = Now(t).site /\ pending'[x][s] = Now(t).mode)
    BY <1>2, <2>2 DEF Request, TypeInv, TypeOK
  <2> QED BY <2>3, <2>4
<1>3. ASSUME NEW y \in Sites, NEW t \in Services,
             ServiceApplies(y, t) \/ ServiceFails(y, t) \/ RemoveCR(y, t)
      PROVE  pending'[x][s] \in Promised(x) \cup {None}
  <2>1. pending' = pending \/ pending' = [pending EXCEPT ![y][t] = None]
    BY <1>3 DEF ServiceApplies, ServiceFails, RemoveCR
  <2> QED BY <2>1 DEF TypeInv, TypeOK
<1>4. \/ Environment \/ UNCHANGED pending
      \/ \E t \in Services : Thread(t) /\ Request(t)
  BY ThreadWorld DEF Next, Main, Exited, SkipModule, BreakFlow, PassModule, StartModule, EndFlow,
     GetReady, GetResult, FinishModule, StartThread, SkipService, world, vars
<1> QED BY <1>1, <1>2, <1>3, <1>4 DEF Environment

\* Services keep being where the steps behind them wanted them.
LEMMA SettledStays ==
  ASSUME TypeInv, [Next]_vars, NEW s \in Services, Settled(s),
         \A x \in Sites : pending[x][s] \in Promised(x) \cup {None}
  PROVE  \A k \in 1..Len(Flow) : k < step /\ Serves(k, s)' => \A x \in Targets(k)' : Kept(x, s)'
<1> SUFFICES ASSUME NEW k \in 1..Len(Flow), k < step, Serves(k, s)', NEW x \in Targets(k)' PROVE Kept(x, s)'
  OBVIOUS
<1>1. Serves(k, s) /\ x \in Targets(k) /\ x \in Sites
  BY CliKept, PromisedKept, TargetsType
<1> QED BY <1>1, KeptStays DEF Settled

\* A service of the module being processed is justified in either list.
LEMMA JustifiedInModule ==
  ASSUME TypeInv, AppliedInv, InModule, NEW s \in Services, s \in Nodes, Settled(s)
  PROVE  Justified(s) /\ Serves(step, s) /\ step \in 1..Len(Flow) /\ s \in Graph(ModuleOf[s])
<1>1. step \in 1..Len(Flow)
  BY StepType DEF InModule, TypeInv, TypeOK
<1>2. ModuleOf[s] = Flow[step].module /\ s \in Graph(ModuleOf[s])
  BY DEF Nodes, Graph
<1>3. Serves(step, s)
  BY <1>2 DEF Serves, AppliedInv, States
<1> QED BY <1>1, <1>2, <1>3 DEF Justified

\* A step during which the flow stays where it is.
LEMMA KeptInPlace ==
  ASSUME TypeInv, AppliedInv, [Next]_vars, NEW s \in Services, KeptInv(s), UNCHANGED step,
         InModule' => ThreadKept(s)' /\ WrongIsListed(s)',
         InModule' \/ (pc' = "flow" /\ drStatus') => InModule \/ (pc = "flow" /\ drStatus),
         InModule => InModule' ,
         s \in done' \cup warned' => s \in done \cup warned \/ (InModule /\ s \in Nodes)
  PROVE  KeptInv(s)'
<1>1. /\ \A x \in Sites : Promised(x)' = Promised(x)
      /\ \A k \in 1..Len(Flow) : Targets(k)' = Targets(k) /\ Serves(k, s)' = Serves(k, s)
      /\ \A m : Graph(m)' = Graph(m)
  BY CliKept, PromisedKept
<1>2. \A x \in Sites : pending'[x][s] \in Promised(x) \cup {None}
  BY PendingStays DEF KeptInv
<1>3. Settled(s) => Settled(s)'
  BY SettledStays DEF KeptInv, Settled
<1>4. s \in done' \cup warned' => Justified(s)
  <2> SUFFICES ASSUME InModule, s \in Nodes PROVE Justified(s)
    BY DEF KeptInv
  <2>1. s \in Graph(ModuleOf[s])
    BY DEF Nodes, Graph
  <2> QED BY <2>1, JustifiedInModule DEF KeptInv
<1>5. Justified(s) => Justified(s)'
  BY <1>1, <1>3 DEF Justified
<1> QED BY <1>1, <1>2, <1>3, <1>4, <1>5 DEF KeptInv

\* A service that was collected and is in neither of the lists of what went wrong is
\* where the step wants it on every site it commands.
LEMMA CollectedIsKept ==
  ASSUME Invs, AppliedInv, InModule, NEW s \in Services, KeptInv(s), s \in tsdone, s \notin failed \cup skipped
  PROVE  \A x \in Targets(step) : Kept(x, s)
<1>1. IsOk(resp[s]) /\ ThreadKept(s)
  BY DEF KeptInv, WrongIsListed
<1>2. wpc[s] = "ended"
  BY <1>1 DEF Invs, RecordInv, Fresh, OrderInv, Sorted, Finished
<1>3. phase[s] = Len(Plan(s)) /\ Kept(Now(s).site, s) /\ (phase[s] # 1 => Kept(Plan(s)[1].site, s))
  BY <1>1, <1>2 DEF ThreadKept
<1>4. Len(Plan(s)) \in 1..2 /\ \A x \in Targets(step) : \E i \in 1..Len(Plan(s)) : Plan(s)[i].site = x
  BY PlanPromised DEF Invs
<1>5. \A i \in 1..Len(Plan(s)) : Kept(Plan(s)[i].site, s)
  <2> SUFFICES ASSUME NEW i \in 1..Len(Plan(s)) PROVE Kept(Plan(s)[i].site, s)
    OBVIOUS
  <2>1. \A n \in 1..2 : \A j \in 1..n : j = n \/ (j = 1 /\ n # 1)
    OBVIOUS
  <2>2. i = phase[s] \/ (i = 1 /\ phase[s] # 1)
    BY <1>3, <1>4, <2>1
  <2> QED BY <1>3, <2>2 DEF Now
<1> QED BY <1>4, <1>5

\* The module is complete.
LEMMA KeptFinish ==
  ASSUME Invs, AppliedInv, ResultListsDisjoint, FinishModule, NEW s \in Services, KeptInv(s)
  PROVE  KeptInv(s)'
<1>1. /\ InModule /\ ~InModule' /\ ~IsActive /\ step' = step + 1 /\ (drStatus' => failed = {})
      /\ UNCHANGED <<mode, removed, world, results, cli>>
  BY DEF FinishModule, StatusAfter, InModule, world
<1>2. step \in 1..Len(Flow) /\ Len(Flow) \in Nat /\ TypeInv
  BY <1>1, CommandAssumption DEF Invs, TypeInv, TypeOK, InModule
<1>3. /\ \A x \in Sites : Promised(x)' = Promised(x)
      /\ \A k \in 1..Len(Flow) : Targets(k)' = Targets(k) /\ Serves(k, s)' = Serves(k, s)
      /\ \A m : Graph(m)' = Graph(m)
  BY <1>1, PromisedKept
<1>4. ASSUME Settled(s), s \in Graph(ModuleOf[s]), s \notin failed \cup skipped PROVE Settled(s)'
  <2> SUFFICES ASSUME NEW k \in 1..Len(Flow), k < step', Serves(k, s), NEW x \in Targets(k) PROVE Kept(x, s)'
    BY <1>3 DEF Settled
  <2>1. Kept(x, s)' = Kept(x, s)
    BY <1>1, <1>3, TargetsType DEF Kept, cli
  <2>2. CASE k < step
    BY <1>4, <2>1, <2>2 DEF Settled
  <2>3. CASE k = step
    <3>1. s \in Nodes
      BY <1>4, <2>3 DEF Serves, Nodes
    <3>2. s \in tsdone
      BY <1>1, <3>1, AllCollected DEF Invs
    <3> QED BY <1>1, <1>4, <2>1, <2>3, <3>2, CollectedIsKept
  <2> QED BY <1>1, <1>2, <2>2, <2>3
<1>5. drStatus' => failed \cup skipped = {}
  BY <1>1 DEF Invs, RecordInv, WrongIsFailed
<1>6. s \in done \cup warned => s \notin failed \cup skipped
  BY DEF ResultListsDisjoint
<1>7. s \in Graph(ModuleOf[s]) => Settled(s)
  BY <1>1 DEF KeptInv
<1>8. s \in done' \cup warned' => Justified(s)'
  <2> SUFFICES ASSUME s \in done \cup warned PROVE Justified(s)'
    BY <1>1 DEF results
  <2>1. Justified(s)
    BY DEF KeptInv
  <2>2. Settled(s)'
    BY <1>4, <1>6, <2>1 DEF Justified
  <2>3. \E k \in 1..Len(Flow) : Serves(k, s)' /\ k < step'
    <3>1. PICK k \in 1..Len(Flow) : Serves(k, s) /\ (k < step \/ k = step)
      BY <2>1 DEF Justified
    <3>2. k < step'
      BY <1>1, <1>2, <3>1
    <3> QED BY <1>3, <3>1, <3>2
  <2> QED BY <1>3, <2>1, <2>2, <2>3 DEF Justified
<1>9. \A x \in Sites : pending'[x][s] \in Promised(x)' \cup {None}
  BY <1>1, <1>3 DEF KeptInv, world
<1>10. drStatus' => (s \in Graph(ModuleOf[s])' => Settled(s)')
  BY <1>3, <1>4, <1>5, <1>7
<1> QED BY <1>1, <1>8, <1>9, <1>10 DEF KeptInv

\* A former step failed: whatever the rest of the flow would have processed is taken
\* off the lists, because the first site lists all that any site lists.
LEMMA KeptSkip ==
  ASSUME Invs, AppliedInv, ResultListsDisjoint, SkipModule, NEW s \in Services, KeptInv(s)
  PROVE  KeptInv(s)'
<1>1. /\ pc = "flow" /\ pc' = "flow" /\ ~drStatus' /\ ~InModule /\ ~InModule' /\ step' = step + 1
      /\ UNCHANGED <<cli, mode, removed, world>>
      /\ SkipServices({t \in located[FirstAvailable] : ModuleOf[t] = Flow[step].module})
  BY DEF SkipModule, AtStep, InModule, world
<1>2. step \in 1..Len(Flow) /\ Len(Flow) \in Nat /\ TypeInv
  BY StepType DEF SkipModule, AtStep, Invs
<1>3. /\ \A x \in Sites : Promised(x)' = Promised(x)
      /\ \A k \in 1..Len(Flow) : Targets(k)' = Targets(k) /\ Serves(k, s)' = Serves(k, s)
      /\ \A m : Graph(m)' = Graph(m)
  BY <1>1, PromisedKept
<1>4. FirstAvailable \in up
  <2>1. up # {} /\ up \subseteq Sites /\ FirstSite \in Sites
    BY <1>2, CommandAssumption DEF AppliedInv, TypeInv, TypeOK
  <2>2. CASE FirstSite \notin up
    <3>1. PICK y \in up : y # FirstSite
      BY <2>1, <2>2
    <3>2. \A x \in Sites : x # FirstSite => x = y
      BY <2>1, <3>1 DEF Sites
    <3> QED BY <2>1, <2>2, <3>1, <3>2 DEF FirstAvailable
  <2> QED BY <2>2 DEF FirstAvailable
<1>5. ASSUME s \in done' \cup warned' PROVE Justified(s)'
  <2>1. s \in done \cup warned /\ s \notin failed /\ Justified(s)
    BY <1>1, <1>5 DEF SkipServices, ResultListsDisjoint, KeptInv
  <2>2. s \in located[FirstAvailable]
    <3>1. PICK x \in UsedSites(ModuleOf[s]) : s \in located[x]
      BY <2>1 DEF Justified, Graph
    <3>2. x \in up /\ x \in Sites /\ FirstAvailable \in Sites
      BY <1>2, <1>4 DEF AppliedInv, TypeInv, TypeOK
    <3> QED BY <1>4, <3>1, <3>2 DEF AppliedInv
  <2>3. ModuleOf[s] # Flow[step].module
    BY <1>1, <1>5, <2>1, <2>2 DEF SkipServices
  <2>4. Settled(s)'
    <3> SUFFICES ASSUME NEW k \in 1..Len(Flow), k < step', Serves(k, s), NEW x \in Targets(k) PROVE Kept(x, s)'
      BY <1>3 DEF Settled
    <3>1. k < step
      BY <1>1, <1>2, <2>3 DEF Serves
    <3>2. Kept(x, s)
      BY <2>1, <3>1 DEF Justified, Settled
    <3> QED BY <1>1, <1>3, <3>2, TargetsType DEF Kept, cli
  <2>5. PICK k \in 1..Len(Flow) : Serves(k, s) /\ k < step
    BY <1>1, <2>1 DEF Justified
  <2>6. k < step' /\ Serves(k, s)'
    BY <1>1, <1>2, <1>3, <2>5
  <2> QED BY <1>3, <2>1, <2>4, <2>6 DEF Justified
<1> QED BY <1>1, <1>3, <1>5 DEF KeptInv, world

\* The command does not concern the module.
LEMMA KeptPass ==
  ASSUME TypeInv, AppliedInv, PassModule, NEW s \in Services, KeptInv(s)
  PROVE  KeptInv(s)'
<1>1. /\ pc = "flow" /\ pc' = "flow" /\ drStatus /\ ~InModule /\ ~InModule' /\ step' = step + 1
      /\ UNCHANGED <<cli, mode, removed, world, results>>
      /\ cmd = "active" /\ Flow[step].states = "passive"
  BY DEF PassModule, AtStep, InModule, world, Irrelevant, States
<1>2. step \in 1..Len(Flow) /\ Len(Flow) \in Nat
  BY StepType DEF PassModule, AtStep
<1>3. /\ \A x \in Sites : Promised(x)' = Promised(x)
      /\ \A k \in 1..Len(Flow) : Targets(k)' = Targets(k) /\ Serves(k, s)' = Serves(k, s)
      /\ \A m : Graph(m)' = Graph(m)
  BY <1>1, PromisedKept
<1>4. Settled(s) => Settled(s)'
  <2> SUFFICES ASSUME Settled(s), NEW k \in 1..Len(Flow), k < step', Serves(k, s), NEW x \in Targets(k)
               PROVE  Kept(x, s)'
    BY <1>3 DEF Settled
  <2>1. k < step
    BY <1>1, <1>2 DEF Serves
  <2>2. Kept(x, s)
    BY <2>1 DEF Settled
  <2> QED BY <1>1, <1>3, <2>2, TargetsType DEF Kept, cli
<1>5. s \in done' \cup warned' => Justified(s)'
  <2> SUFFICES ASSUME s \in done \cup warned PROVE Justified(s)'
    BY <1>1 DEF results
  <2>1. Justified(s)
    BY DEF KeptInv
  <2>2. PICK k \in 1..Len(Flow) : Serves(k, s) /\ k < step
    BY <1>1, <2>1 DEF Justified
  <2>3. k < step' /\ Serves(k, s)'
    BY <1>1, <1>2, <1>3, <2>2
  <2> QED BY <1>3, <1>4, <2>1, <2>3 DEF Justified
<1> QED BY <1>1, <1>3, <1>4, <1>5 DEF KeptInv, world

LEMMA KeptStart ==
  ASSUME TypeInv, AppliedInv, StartModule, NEW s \in Services, KeptInv(s)
  PROVE  KeptInv(s)'
<1>1. /\ pc = "flow" /\ drStatus /\ ~InModule /\ InModule' /\ UNCHANGED <<cli, mode, removed, step, world, results>>
      /\ phase'[s] = 1 /\ wpc'[s] = "idle" /\ tsdone' = {}
  BY DEF StartModule, AtStep, InModule, flowVars, world
<1>2. /\ \A x \in Sites : Promised(x)' = Promised(x)
      /\ \A k \in 1..Len(Flow) : Targets(k)' = Targets(k) /\ Serves(k, s)' = Serves(k, s)
      /\ \A m : Graph(m)' = Graph(m)
  BY <1>1, PromisedKept
<1>3. ThreadKept(s)' /\ WrongIsListed(s)'
  BY <1>1 DEF ThreadKept, WrongIsListed
<1>4. Settled(s) => Settled(s)'
  BY <1>1, <1>2, TargetsType DEF Settled, Kept, cli
<1>5. Justified(s) => Justified(s)'
  BY <1>1, <1>2, <1>4 DEF Justified
<1> QED BY <1>1, <1>2, <1>3, <1>4, <1>5 DEF KeptInv, world, results

\* The end of the procedure.
LEMMA KeptEnd ==
  ASSUME TypeInv, AppliedInv, BreakFlow \/ EndFlow, NEW s \in Services, KeptInv(s)
  PROVE  KeptInv(s)'
<1>1. /\ ~InModule /\ ~InModule' /\ pc' = "end" /\ UNCHANGED <<cli, mode, removed, step, world, results>>
  BY DEF BreakFlow, EndFlow, AtStep, InModule, flowVars, world
<1>2. /\ \A x \in Sites : Promised(x)' = Promised(x)
      /\ \A k \in 1..Len(Flow) : Targets(k)' = Targets(k) /\ Serves(k, s)' = Serves(k, s)
      /\ \A m : Graph(m)' = Graph(m)
  BY <1>1, PromisedKept
<1>3. Settled(s) => Settled(s)'
  BY <1>1, <1>2, TargetsType DEF Settled, Kept, cli
<1>4. Justified(s) => Justified(s)'
  BY <1>1, <1>2, <1>3 DEF Justified
<1> QED BY <1>1, <1>2, <1>4 DEF KeptInv, world, results

\* A thread that takes a step has seen where its service is before it goes on.
LEMMA KeptOwnThread ==
  ASSUME Invs, AppliedInv, ~force, NEW s \in Services \ Lenient, Thread(s), KeptInv(s)
  PROVE  ThreadKept(s)'
<1>1. /\ InModule /\ wpc[s] \in Running /\ TypeInv /\ UNCHANGED <<cli, pc, flowVars, mode, removed>>
      /\ phase[s] \in 1..Len(Plan(s)) /\ Len(Plan(s)) \in 1..2 /\ Now(s).site \in Sites
  <2>1. InModule /\ wpc[s] \in Running /\ TypeInv /\ UNCHANGED <<cli, pc, flowVars, mode, removed>>
    BY ThreadEffect, ThreadWorld DEF Invs
  <2>2. Len(Plan(s)) \in 1..2 /\ Now(s).site \in Sites
    BY <2>1, NowType, PlanPromised
  <2>3. phase[s] \in 1..2 /\ phase[s] <= Len(Plan(s))
    BY <2>1 DEF TypeInv, TypeOK, PlanBound
  <2> QED BY <2>1, <2>2, <2>3
<1>2. ThreadKept(s) /\ Now(s) = Plan(s)[phase[s]]
  BY <1>1 DEF KeptInv, Now
<1>3. Plan(s)' = Plan(s) /\ Len(Plan(s))' = Len(Plan(s)) /\ \A x \in Sites : Kept(x, s)' = Kept(x, s)
  BY <1>1, PlanStable, PromisedKept DEF Kept, cli, flowVars
<1>4. Plan(s)[1].site \in Sites
  BY <1>1, PlanType DEF InModule, TypeInv, TypeOK
<1>5. ASSUME NEW r \in Responses, Advance(s, r), IsOk(r) => Kept(Now(s).site, s)
      PROVE  ThreadKept(s)'
  <2>1. phase \in [Services -> 1..2] /\ resp \in [Services -> Responses] /\ resp'[s] = r
        /\ wpc \in [Services -> {"idle", "post", "poll", "put", "ended", "skipped", "dead"}]
    BY <1>1, <1>5 DEF Advance, TypeInv, TypeOK, Responses
  <2>2. CASE IsOk(r) /\ phase[s] < Len(Plan(s))
    <3>1. wpc'[s] = "post" /\ Kept(Now(s).site, s)
      BY <1>5, <2>1, <2>2 DEF Advance
    <3>2. phase[s] = 1
      <4>1. \A n \in 1..2 : \A k \in 1..n : k < n => k = 1
        OBVIOUS
      <4> QED BY <1>1, <2>2, <4>1
    <3>3. Kept(Plan(s)[1].site, s)'
      BY <1>2, <1>3, <1>4, <3>1, <3>2
    <3> QED BY <1>3, <3>1, <3>3 DEF ThreadKept
  <2>3. CASE ~(IsOk(r) /\ phase[s] < Len(Plan(s)))
    <3>1. wpc'[s] = "put" /\ phase'[s] = phase[s]
      BY <1>5, <2>1, <2>3 DEF Advance
    <3>2. Now(s)' = Now(s)
      BY <1>3, <3>1 DEF Now
    <3>3. phase[s] # 1 => Kept(Plan(s)[1].site, s)'
      BY <1>2, <1>3, <1>4 DEF ThreadKept
    <3>4. IsOk(r) => phase[s] = Len(Plan(s))
      BY <1>1, <2>3
    <3>5. IsOk(r) => Kept(Now(s).site, s)'
      BY <1>1, <1>3, <1>5, <3>2
    <3>6. IsOk(resp[s])' = IsOk(r)
      BY <2>1 DEF IsOk
    <3> QED BY <1>3, <3>1, <3>2, <3>3, <3>4, <3>5, <3>6 DEF ThreadKept
  <2> QED BY <2>2, <2>3
<1>6. Tolerated(Now(s).mode) => Kept(Now(s).site, s)
  <2>1. Tolerated(Now(s).mode) => Promised(Now(s).site) = Modes
    BY <1>1, <1>2, PlanPromised
  <2> QED BY <1>1, <2>1 DEF Kept, TypeInv, TypeOK
<1>7. Now(s).mode \in Promised(Now(s).site)
  BY <1>1, <1>2, PlanPromised
<1>8. \A st \in BOOLEAN : \A m : IsOk(Response(st, m)) => st \/ Tolerated(m)
  BY DEF IsOk, Response
<1>9. Forced(Now(s).mode) \in BOOLEAN /\ (Forced(Now(s).mode) => Tolerated(Now(s).mode))
  BY <1>1, ForcedType DEF Forced, TypeInv
<1>10. CASE PostNowhere(s)
  BY <1>5, <1>10, ResponseType DEF PostNowhere, Managed, Kept
<1>11. CASE PostNoReply(s)
  BY <1>5, <1>6, <1>8, <1>9, <1>11, ResponseType DEF PostNoReply
<1>12. CASE PollReached(s)
  BY <1>5, <1>7, <1>12, ResponseType DEF PollReached, Polled, Kept
<1>13. ~PollHealthAllowed(s)
  BY DEF PollHealthAllowed
<1>14. CASE PollUnhealthy(s)
  BY <1>5, <1>6, <1>8, <1>9, <1>14, ResponseType DEF PollUnhealthy, Polled
<1>15. CASE PollFailed(s)
  BY <1>5, <1>6, <1>8, <1>15, ResponseType DEF PollFailed, Polled
<1>16. CASE UNCHANGED phase /\ wpc'[s] \in {"poll", "dead"}
  BY <1>2, <1>3, <1>4, <1>16 DEF ThreadKept
<1>17. CASE wpc[s] = "put" /\ UNCHANGED <<phase, resp>>
  <2>1. Now(s)' = Now(s) /\ IsOk(resp[s])' = IsOk(resp[s])
    BY <1>3, <1>17 DEF Now, IsOk
  <2> QED BY <1>1, <1>2, <1>3, <1>4, <1>17, <2>1 DEF ThreadKept
<1> QED BY <1>1, <1>10, <1>11, <1>12, <1>13, <1>14, <1>15, <1>16, <1>17, ThreadWorld

\* A step of any thread.
LEMMA KeptThread ==
  ASSUME Invs, AppliedInv, ~force, NEW t \in Services, Thread(t), NEW s \in Services \ Lenient, KeptInv(s)
  PROVE  KeptInv(s)'
<1>1. /\ InModule /\ InModule' /\ wpc[t] \in Running /\ TypeInv /\ UNCHANGED <<cli, pc, flowVars, sorter, mode, removed>>
      /\ [Next]_vars
  BY ThreadEffect, ThreadWorld DEF Invs, InModule, Next
<1>2. t \in Nodes /\ t \notin tsdone
  BY <1>1 DEF Invs, OrderInv, Sorted, Running, Finished
<1>3. ThreadKept(s)'
  <2>1. CASE t = s
    BY <2>1, KeptOwnThread
  <2>2. CASE t # s
    <3>1. UNCHANGED <<phase[s], wpc[s], resp[s]>>
      BY <1>1, <2>2, ThreadWorld
    <3>2. Plan(s)' = Plan(s) /\ Now(s)' = Now(s) /\ \A x \in Sites : Kept(x, s)' = Kept(x, s)
      BY <1>1, <3>1, PlanStable, PromisedKept DEF Kept, cli, flowVars, Now
    <3>3. Plan(s)[1].site \in Sites /\ (phase[s] = Len(Plan(s)) => Now(s).site \in Sites)
      <4>1. Len(Plan(s)) \in 1..2 /\ \A i \in 1..Len(Plan(s)) : Plan(s)[i].site \in Sites
        BY <1>1, PlanType DEF InModule, TypeInv, TypeOK
      <4>2. 1 \in 1..Len(Plan(s)) /\ Len(Plan(s)) \in 1..Len(Plan(s))
        BY <4>1
      <4> QED BY <4>1, <4>2 DEF Now
    <3>4. ThreadKept(s)
      BY <1>1 DEF KeptInv
    <3> QED BY <3>1, <3>2, <3>3, <3>4 DEF ThreadKept, IsOk
  <2> QED BY <2>1, <2>2
<1>4. WrongIsListed(s)'
  <2>1. failed \subseteq failed' /\ skipped \subseteq skipped'
    BY <1>1, ListsGrow
  <2>2. s \in tsdone => UNCHANGED resp[s]
    BY <1>1, <1>2, ThreadWorld
  <2> QED BY <1>1, <2>1, <2>2 DEF KeptInv, WrongIsListed, sorter, IsOk
<1>5. s \in done' \cup warned' => s \in done \cup warned \/ (InModule /\ s \in Nodes)
  <2>1. UNCHANGED results \/ \E r \in Responses : SortOutUnlessSkipped(t, r)
    BY <1>1, ThreadEffect
  <2> QED BY <1>1, <1>2, <2>1 DEF SortOutUnlessSkipped, SortOut, results
<1> QED BY <1>1, <1>3, <1>4, <1>5, KeptInPlace DEF flowVars

LEMMA KeptStep ==
  ASSUME Invs, AppliedInv, ResultListsDisjoint, [Next]_vars, ~force, NEW s \in Services \ Lenient
  PROVE  KeptInv(s)'
<1>1. KeptInv(s) /\ TypeInv
  BY DEF AppliedInv, Invs
<1>2. CASE SkipModule
  BY <1>1, <1>2, KeptSkip
<1>3. CASE PassModule
  BY <1>1, <1>3, KeptPass
<1>4. CASE StartModule
  BY <1>1, <1>4, KeptStart
<1>5. CASE BreakFlow \/ EndFlow
  BY <1>1, <1>5, KeptEnd
<1>6. CASE FinishModule
  BY <1>1, <1>6, KeptFinish
<1>7. ASSUME NEW t \in Services, Thread(t) PROVE KeptInv(s)'
  BY <1>1, <1>7, KeptThread
<1>8. ASSUME UNCHANGED <<cli, flowVars, phase, resp, tsdone>>, InModule' = InModule,
             pc' = "flow" => pc = "flow",
             failed \subseteq failed' /\ skipped \subseteq skipped',
             done' \cup warned' \subseteq done \cup warned,
             wpc'[s] = wpc[s] \/ wpc'[s] \in {"post", "skipped"}
      PROVE  KeptInv(s)'
  <2>1. Plan(s)' = Plan(s) /\ Now(s)' = Now(s)
    BY <1>8, PlanStable DEF flowVars, Now
  <2>2. \A x \in Sites : Kept(x, s) => Kept(x, s)'
    BY <1>1, KeptStays DEF KeptInv
  <2>3. ASSUME InModule PROVE ThreadKept(s)' /\ WrongIsListed(s)'
    <3>1. Len(Plan(s)) \in 1..2 /\ \A i \in 1..Len(Plan(s)) : Plan(s)[i].site \in Sites
      BY <1>1, <2>3, PlanType DEF InModule, TypeInv, TypeOK
    <3>2. Plan(s)[1].site \in Sites /\ (phase[s] = Len(Plan(s)) => Now(s).site \in Sites)
      <4>1. 1 \in 1..Len(Plan(s)) /\ Len(Plan(s)) \in 1..Len(Plan(s))
        BY <3>1
      <4> QED BY <3>1, <4>1 DEF Now
    <3>3. ThreadKept(s) /\ WrongIsListed(s)
      BY <1>1, <2>3 DEF KeptInv
    <3>4. ThreadKept(s)'
      BY <1>8, <2>1, <2>2, <3>2, <3>3 DEF ThreadKept, IsOk
    <3>5. WrongIsListed(s)'
      BY <1>8, <3>3 DEF WrongIsListed, IsOk
    <3> QED BY <3>4, <3>5
  <2> QED BY <1>1, <1>8, <2>3, KeptInPlace DEF flowVars
<1>9. CASE Environment
  BY <1>8, <1>9 DEF Environment, ServiceApplies, ServiceFails, RemoveCR, InModule, threads, sorter, results
<1>10. CASE GetReady \/ UNCHANGED vars
  BY <1>8, <1>10 DEF GetReady, vars, InModule, threads, sorter, results
<1>11. ASSUME NEW t \in Services, StartThread(t) \/ SkipService(t) PROVE KeptInv(s)'
  <2>1. wpc'[s] = wpc[s] \/ wpc'[s] \in {"post", "skipped"}
    BY <1>1, <1>11 DEF StartThread, SkipService, TypeInv, TypeOK
  <2> QED BY <1>8, <1>11, <2>1 DEF StartThread, SkipService, SkipServices, InModule, results
<1>12. CASE GetResult
  <2>1. /\ InModule /\ InModule' /\ UNCHANGED <<cli, flowVars, threads, mode, removed>> /\ pc' # "flow"
        /\ tsdone' = tsdone \cup {Head(queue)} /\ SortOutUnlessSkipped(Head(queue), resp[Head(queue)])
    BY <1>12 DEF GetResult, InModule, world
  <2>2. Head(queue) \in Nodes
    BY <1>12, HeadCollected DEF Invs, OrderInv, Sorted, InModule, GetResult
  <2>3. Plan(s)' = Plan(s) /\ Now(s)' = Now(s) /\ \A x \in Sites : Kept(x, s)' = Kept(x, s)
    BY <2>1, PlanStable, PromisedKept DEF flowVars, Now, threads, Kept, cli
  <2>4. ThreadKept(s)'
    <3>1. Len(Plan(s)) \in 1..2 /\ \A i \in 1..Len(Plan(s)) : Plan(s)[i].site \in Sites
      BY <1>1, <2>1, PlanType DEF InModule, TypeInv, TypeOK
    <3>2. Plan(s)[1].site \in Sites /\ (phase[s] = Len(Plan(s)) => Now(s).site \in Sites)
      <4>1. 1 \in 1..Len(Plan(s)) /\ Len(Plan(s)) \in 1..Len(Plan(s))
        BY <3>1
      <4> QED BY <3>1, <4>1 DEF Now
    <3>3. ThreadKept(s)
      BY <1>1, <2>1 DEF KeptInv
    <3> QED BY <2>1, <2>3, <3>2, <3>3 DEF ThreadKept, IsOk, threads
  <2>5. WrongIsListed(s)'
    <3>1. WrongIsListed(s) /\ UNCHANGED resp
      BY <1>1, <2>1 DEF KeptInv, threads
    <3> QED BY <2>1, <3>1 DEF WrongIsListed, SortOutUnlessSkipped, SortOut, IsOk, results
  <2>6. s \in done' \cup warned' => s \in done \cup warned \/ s \in Nodes
    BY <2>1, <2>2 DEF SortOutUnlessSkipped, SortOut, results
  <2> QED BY <1>1, <2>1, <2>4, <2>5, <2>6, KeptInPlace DEF flowVars
<1> QED BY <1>2, <1>3, <1>4, <1>5, <1>6, <1>7, <1>9, <1>10, <1>11, <1>12 DEF Next, Main, Exited

LEMMA AppliedStep == Invs /\ AppliedInv /\ ResultListsDisjoint /\ [Next]_vars => AppliedInv'
<1> SUFFICES ASSUME Invs, AppliedInv, ResultListsDisjoint, [Next]_vars PROVE AppliedInv'
  OBVIOUS
<1>1. UNCHANGED cli
  BY CliKept
<1>2. ~force' => \A s \in Services \ Lenient : KeptInv(s)'
  BY <1>1, KeptStep DEF cli
<1>3. InModule' => ~(cmd' = "active" /\ States' = "passive")
  <2>1. CASE InModule' /\ InModule /\ step' = step
    BY <1>1, <2>1 DEF AppliedInv, States, cli
  <2>2. CASE StartModule
    BY <1>1, <2>2 DEF StartModule, Irrelevant, States, cli, flowVars
  <2>3. (InModule /\ step' = step) \/ ~InModule' \/ StartModule
    BY ThreadEffect DEF Invs, Next, Main, Exited, Environment, SkipModule, BreakFlow, PassModule, EndFlow, AtStep,
       GetReady, GetResult, FinishModule, StartThread, SkipService, ServiceApplies, ServiceFails, RemoveCR,
       InModule, vars, flowVars
  <2> QED BY <2>1, <2>2, <2>3
<1>4. /\ up' # {} /\ (\A m : UsedSites(m)' \subseteq up')
      /\ \A x, y \in Sites : {x, y} \subseteq up' => located'[x] = located'[y]
  BY <1>1 DEF AppliedInv, UsedSites, cli
<1> QED BY <1>2, <1>3, <1>4 DEF AppliedInv

LEMMA AppliedInit == ASSUME OneListing PROVE Init => AppliedInv
<1> SUFFICES ASSUME Init PROVE AppliedInv
  OBVIOUS
<1>1. ~InModule /\ step = 1 /\ done = {} /\ warned = {}
  BY DEF Init, InModule
<1>2. up # {} /\ \A m : UsedSites(m) \subseteq up
  BY DEF Init, ValidCommand, UsedSites, Sites, DRCmds
<1>3. \A x, y \in Sites : {x, y} \subseteq up => located[x] = located[y]
  BY OneListing DEF Init, OneListing
<1>4. ASSUME NEW s \in Services PROVE KeptInv(s)
  <2>1. \A x \in Sites : pending[x][s] = None
    BY DEF Init
  <2>2. Settled(s)
    BY <1>1, CommandAssumption DEF Settled
  <2> QED BY <1>1, <2>1, <2>2 DEF KeptInv
<1> QED BY <1>1, <1>2, <1>3, <1>4 DEF AppliedInv

\* What was promised has been kept when the flow is over: a step that commands one
\* site of a switchover or failover has a counterpart that commands the other one.
LEMMA EndIsKept ==
  ASSUME BothHalves, TypeInv, AppliedInv, ReportInv, pc = "end",
         NEW s \in Services, Justified(s), NEW x \in Sites
  PROVE  Kept(x, s)
<1>1. ~InModule /\ cmd \in SiteCmds \cup DRCmds /\ \A k \in 1..Len(Flow) : Flow[k].states \in StatesKinds
  <2>1. \A k \in 1..Len(Flow) : Flow[k] \in [module: Modules, states: StatesKinds]
    BY CommandAssumption, ElementOfSeq
  <2> QED BY <2>1, CommandAssumption DEF InModule, TypeInv, TypeOK
<1>2. PICK k \in 1..Len(Flow) : Serves(k, s) /\ k < step
  BY <1>1 DEF Justified
<1>3. CASE cmd \in SiteCmds
  <2>1. cmd # "move" /\ cmd # "stop" /\ Targets(k) = {"site"}
    BY <1>3 DEF SiteCmds, Targets
  <2>2. Kept("site", s)
    BY <1>2, <2>1 DEF Justified, Settled
  <2>3. Promised("opposite") = Modes
    BY <2>1 DEF Promised
  <2>4. Kept("opposite", s)
    BY <2>3 DEF Kept, TypeInv, TypeOK, Sites
  <2> QED BY <2>2, <2>4 DEF Sites
<1>4. CASE cmd \in DRCmds
  <2>1. cmd \notin SiteCmds /\ cmd \in {"move", "stop"}
    BY <1>4 DEF SiteCmds, DRCmds
  <2>2. \A j \in 1..Len(Flow) : j < step
    BY <2>1 DEF ReportInv, Concerned
  <2>3. \A j \in 1..Len(Flow) : Flow[j].module = ModuleOf[s] => \A y \in Targets(j) : Kept(y, s)
    BY <2>1, <2>2 DEF Justified, Settled, Serves
  <2>4. CASE Flow[k].states = "all"
    BY <1>2, <2>1, <2>3, <2>4 DEF Targets, Serves
  <2>5. CASE Flow[k].states # "all"
    <3>1. PICK i \in 1..Len(Flow) : Flow[i].module = Flow[k].module /\ Flow[i].states \in {"active", "all"}
      BY <2>5 DEF BothHalves
    <3>2. PICK j \in 1..Len(Flow) : Flow[j].module = Flow[k].module /\ Flow[j].states \in {"passive", "all"}
      BY <2>5 DEF BothHalves
    <3>3. x \in Targets(i) \cup Targets(j)
      BY <2>1, <3>1, <3>2 DEF Targets, Sites
    <3> QED BY <1>2, <2>3, <3>1, <3>2, <3>3 DEF Serves
  <2> QED BY <2>4, <2>5
<1> QED BY <1>1, <1>3, <1>4

\* Where the sites agree on what they list and the flow has both halves of every
\* module it splits, a service the summary calls done or warned is in the mode the
\* command promised, for any services, graph, flow and loss of requests.
THEOREM SummaryIsTrue == ASSUME OneListing, BothHalves PROVE Spec => []ReportedIsApplied
<1>1. TypeInv /\ AppliedInv /\ ReportInv => ReportedIsApplied
  BY EndIsKept, BothHalves DEF AppliedInv, KeptInv, ReportedIsApplied, Kept, TypeInv, TypeOK
<1>2. Init => AppliedInv
  BY OneListing, AppliedInit
<1> QED BY InvsHold, ListsNeverOverlap, TypeInit, TypeStep, OrderInit, OrderStep, <1>1, <1>2,
           ReportInit, ReportStep, AppliedStep, PTL DEF Spec, Invs
=============================================================================
