------------------------- MODULE DRProcedureRefinement -------------------------
(***************************************************************************)
(* DRProcedure implements OrderedExecution: the sorter, the threads and    *)
(* the queue together run the services of a module in their order, and     *)
(* dr_status says whether all of them succeeded.                           *)
(***************************************************************************)
EXTENDS DRProcedureProofs

----------------------------------------------------------------------------
(* What a failure is known by.  dr_status is computed from the list of      *)
(* failures alone, so every response that is not ok must have led to one,   *)
(* and whatever is in the list must have such a response.                   *)

Fresh == {"idle", "skipped"}

\* Nothing is on record when a module begins.
CleanRecord == pc = "flow" /\ drStatus => failed = {} /\ skipped = {}

\* A service is marked for a predecessor that was collected without success.
MarkedForCause ==
  \A s \in failedSucc : \E p \in Preds(s) : p \in tsdone /\ ~IsOk(resp[p])

\* A failure on record is one of the response that is handed over.
FailedIsFinal == \A s \in failed : ~IsOk(resp[s]) /\ wpc[s] \notin {"post", "poll"}

\* Whatever went wrong is on record as a failure.
WrongIsFailed ==
  /\ \A p \in tsdone : ~IsOk(resp[p]) => failed # {}
  /\ failedSucc # {} \/ skipped # {} => failed # {}

RecordInv ==
  /\ CleanRecord
  /\ InModule => /\ drStatus /\ MarkedForCause /\ FailedIsFinal /\ WrongIsFailed
                 /\ \A s \in Services : wpc[s] \in Fresh => ~IsOk(resp[s])

\* What a step of a thread does to its response and to the lists.
LEMMA ThreadRecord ==
  ASSUME TypeInv, NEW s \in Services, Thread(s)
  PROVE  \/ /\ wpc[s] \in {"post", "poll"}
            /\ \E r \in Responses :
                 /\ resp' = [resp EXCEPT ![s] = r]
                 /\ wpc'[s] \in {"post", "put"} /\ (IsOk(r) \/ wpc'[s] = "put")
                 /\ UNCHANGED results \/ SortOutUnlessSkipped(s, r)
         \/ /\ wpc[s] \in {"post", "poll"} /\ wpc'[s] \in {"poll", "dead"}
            /\ UNCHANGED <<resp, results>>
         \/ wpc[s] = "put" /\ wpc'[s] = "ended" /\ UNCHANGED <<resp, results>>
<1>1. wpc[s] \in {"idle", "post", "poll", "put", "ended", "skipped", "dead"} /\ s \in DOMAIN wpc
  BY DEF TypeInv, TypeOK
<1>2. ASSUME NEW r, Advance(s, r)
      PROVE  /\ resp' = [resp EXCEPT ![s] = r]
             /\ wpc'[s] \in {"post", "put"} /\ (IsOk(r) \/ wpc'[s] = "put")
  BY <1>1, <1>2 DEF Advance
<1>3. CASE PostNowhere(s)
  BY <1>2, <1>3, ResponseType DEF PostNowhere
<1>4. CASE PostNoReply(s)
  BY <1>2, <1>4, ResponseType, ForcedType DEF PostNoReply, TypeInv
<1>5. ASSUME NEW st \in BOOLEAN, Polled(s, st), wpc[s] = "poll"
      PROVE  \E r \in Responses :
               /\ resp' = [resp EXCEPT ![s] = r]
               /\ wpc'[s] \in {"post", "put"} /\ (IsOk(r) \/ wpc'[s] = "put")
               /\ UNCHANGED results \/ SortOutUnlessSkipped(s, r)
  BY <1>2, <1>5, ResponseType DEF Polled
<1>6. CASE PollReached(s) \/ PollHealthAllowed(s) \/ PollUnhealthy(s) \/ PollFailed(s)
  BY <1>5, <1>6, ForcedType
     DEF PollReached, PollHealthAllowed, PollUnhealthy, PollFailed, TypeInv
<1>7. CASE PostAccepted(s) \/ ThreadDies(s) \/ PutResult(s)
  BY <1>1, <1>7 DEF PostAccepted, ThreadDies, PutResult
<1> QED BY <1>3, <1>4, <1>6, <1>7 DEF Thread

\* Steps that leave the module as it is.
LEMMA RecordStutter ==
  ASSUME TypeInv, RecordInv, UNCHANGED <<cli, flowVars, pc, sorter, wpc, resp, results>>
  PROVE  RecordInv'
<1>1. /\ UNCHANGED <<step, drStatus, tsdone, failedSucc, failed, skipped>>
      /\ failedSucc \subseteq Services /\ InModule' = InModule
  BY DEF flowVars, sorter, results, InModule, TypeInv, TypeOK
<1>2. \A s \in Services : Preds(s)' = Preds(s)
  BY <1>1, PlanStable
<1>3. MarkedForCause' = MarkedForCause
  BY <1>1, <1>2 DEF MarkedForCause, IsOk
<1>4. FailedIsFinal' = FailedIsFinal /\ WrongIsFailed' = WrongIsFailed /\ CleanRecord' = CleanRecord
  BY <1>1 DEF FailedIsFinal, WrongIsFailed, CleanRecord, IsOk
<1> QED BY <1>1, <1>3, <1>4 DEF RecordInv, IsOk

LEMMA RecordDispatch ==
  ASSUME TypeInv, OrderInv, FlowInv, RecordInv, NEW s \in Services, StartThread(s) \/ SkipService(s)
  PROVE  RecordInv'
<1>1. /\ InModule /\ InModule' /\ pc' # "flow" /\ s \in batch
      /\ UNCHANGED <<cli, flowVars, tsdone, failedSucc, resp>>
      /\ \A t \in Services \ {s} : wpc'[t] = wpc[t]
      /\ \/ wpc'[s] = "post" /\ UNCHANGED results
         \/ s \in failedSucc /\ wpc'[s] = "skipped" /\ SkipServices({s})
  BY DEF StartThread, SkipService, InModule, TypeInv, TypeOK
<1>2. wpc[s] = "idle" /\ s \in issued
  BY <1>1 DEF OrderInv, Sorted
<1>3. \A t \in Services : Preds(t)' = Preds(t)
  BY <1>1, PlanStable DEF flowVars
<1>4. failed \subseteq Services /\ failedSucc \subseteq Services
  BY DEF TypeInv, TypeOK
<1>5. UNCHANGED failed
  BY <1>1 DEF SkipServices, results
<1>6. MarkedForCause'
  BY <1>1, <1>3, <1>4 DEF RecordInv, MarkedForCause, IsOk
<1>7. \A t \in Services : wpc'[t] \in Fresh => ~IsOk(resp'[t])
  BY <1>1, <1>2 DEF RecordInv, Fresh, IsOk
<1>8. WrongIsFailed'
  BY <1>1, <1>5 DEF RecordInv, WrongIsFailed, IsOk, results
<1>9. FailedIsFinal'
  <2>1. CASE wpc'[s] = "skipped"
    BY <1>1, <1>4, <1>5, <2>1 DEF RecordInv, FailedIsFinal, IsOk
  <2>2. CASE wpc'[s] = "post"
    <3>1. s \notin failed
      BY <1>1, <1>2 DEF FlowInv, FailureStopsFlow, Started
    <3> QED BY <1>1, <1>4, <1>5, <2>2, <3>1 DEF RecordInv, FailedIsFinal, IsOk
  <2> QED BY <1>1, <2>1, <2>2
<1> QED BY <1>1, <1>6, <1>7, <1>8, <1>9 DEF RecordInv, CleanRecord, flowVars

LEMMA RecordThread ==
  ASSUME TypeInv, OrderInv, RecordInv, NEW s \in Services, Thread(s), [Next]_vars
  PROVE  RecordInv'
<1>1. /\ InModule /\ InModule' /\ pc' # "flow" /\ wpc[s] \in Running
      /\ UNCHANGED <<cli, pc, flowVars, sorter>>
      /\ \A t \in Services \ {s} : wpc'[t] = wpc[t] /\ resp'[t] = resp[t]
      /\ wpc'[s] \in Running \cup {"dead", "ended"}
  BY ThreadEffect DEF InModule
<1>2. /\ s \notin tsdone /\ s \in issued
      /\ tsdone \subseteq Services /\ failedSucc \subseteq Services /\ failed \subseteq Services
  BY <1>1 DEF OrderInv, Sorted, Running, Finished, TypeInv, TypeOK
<1>3. \A t \in Services : Preds(t)' = Preds(t)
  BY <1>1, PlanStable DEF flowVars
<1>4. UNCHANGED <<tsdone, failedSucc, drStatus>> /\ failed \subseteq failed'
  BY <1>1, ListsGrow DEF sorter, flowVars
<1>5. \A p \in tsdone : resp'[p] = resp[p]
  BY <1>1, <1>2
<1>6. MarkedForCause'
  BY <1>1, <1>2, <1>3, <1>4, <1>5 DEF RecordInv, MarkedForCause, IsOk
<1>7. UNCHANGED skipped
  BY ThreadRecord DEF SortOutUnlessSkipped, SortOut, results
<1>8. WrongIsFailed'
  BY <1>1, <1>2, <1>4, <1>5, <1>7 DEF RecordInv, WrongIsFailed, IsOk
<1>9. \A t \in Services : wpc'[t] \in Fresh => ~IsOk(resp'[t])
  BY <1>1 DEF RecordInv, Fresh, Running, IsOk
<1>10. FailedIsFinal'
  <2>1. \A t \in failed' \ {s} : t \in failed
    BY ThreadRecord DEF SortOutUnlessSkipped, SortOut, results
  <2>2. \A t \in failed' \ {s} : ~IsOk(resp'[t]) /\ wpc'[t] \notin {"post", "poll"}
    BY <1>1, <1>2, <2>1 DEF RecordInv, FailedIsFinal, IsOk
  <2>3. ASSUME s \in failed' PROVE ~IsOk(resp'[s]) /\ wpc'[s] \notin {"post", "poll"}
    <3>1. CASE s \in failed
      <4>1. ~IsOk(resp[s]) /\ wpc[s] \notin {"post", "poll"}
        BY <1>1, <3>1 DEF RecordInv, FailedIsFinal
      <4> QED BY <4>1, ThreadRecord DEF IsOk
    <3>2. CASE s \notin failed
      <4>1. PICK r \in Responses :
              /\ resp' = [resp EXCEPT ![s] = r] /\ (IsOk(r) \/ wpc'[s] = "put")
              /\ UNCHANGED results \/ SortOutUnlessSkipped(s, r)
        BY <2>3, <3>2, ThreadRecord DEF results
      <4>2. ~IsOk(r)
        BY <2>3, <3>2, <4>1 DEF SortOutUnlessSkipped, SortOut, IsOk, results
      <4>3. resp'[s] = r
        BY <4>1 DEF TypeInv, TypeOK
      <4> QED BY <4>1, <4>2, <4>3
    <3> QED BY <3>1, <3>2
  <2> QED BY <2>2, <2>3 DEF FailedIsFinal, IsOk
<1> QED BY <1>1, <1>4, <1>6, <1>8, <1>9, <1>10 DEF RecordInv, CleanRecord

\* The result that is taken from the queue.
LEMMA HeadCollected ==
  ASSUME TypeInv, OrderInv, GetResult
  PROVE  /\ Head(queue) \in Services /\ Head(queue) \in issued
         /\ wpc[Head(queue)] \in Finished /\ Head(queue) \notin tsdone
<1>1. /\ queue \in Seq(Services) /\ Head(queue) \in Services /\ Head(queue) = queue[1]
      /\ Len(queue) \in Nat \ {0}
  BY HeadTailProperties, EmptySeq, LenProperties DEF GetResult, TypeInv, TypeOK
<1>2. InModule
  BY DEF GetResult, InModule
<1> QED BY <1>1, <1>2 DEF OrderInv, QueueFresh, Sorted, Finished

LEMMA RecordGetResult ==
  ASSUME TypeInv, OrderInv, RecordInv, GetResult, [Next]_vars
  PROVE  RecordInv'
<1> DEFINE s == Head(queue)
<1>1. /\ InModule /\ InModule' /\ pc' # "flow"
      /\ tsdone' = tsdone \cup {s} /\ failedSucc' = Doomed(s)
      /\ SortOutUnlessSkipped(s, resp[s])
      /\ UNCHANGED <<cli, flowVars, issued, threads>>
  BY DEF GetResult, InModule
<1>2. s \in Services /\ s \in issued /\ wpc[s] \in Finished /\ s \notin tsdone
  BY HeadCollected
<1> HIDE DEF s
<1>3. \A t \in Services : Preds(t)' = Preds(t)
  BY <1>1, PlanStable DEF flowVars
<1>4. UNCHANGED <<wpc, resp, drStatus, skipped>> /\ failed \subseteq failed' /\ failed' \subseteq failed \cup {s}
  BY <1>1 DEF threads, flowVars, SortOutUnlessSkipped, SortOut, results
<1>5. failedSucc \subseteq Services
  BY DEF TypeInv, TypeOK
<1>6. ~IsOk(resp[s]) => failed' # {}
  <2> SUFFICES ASSUME ~IsOk(resp[s]) PROVE failed' # {}
    OBVIOUS
  <2>1. CASE s \in skipped
    BY <1>1, <1>4, <2>1 DEF RecordInv, WrongIsFailed
  <2>2. CASE s \notin skipped
    BY <1>1, <2>2 DEF SortOutUnlessSkipped, SortOut, IsOk
  <2> QED BY <2>1, <2>2
<1>7. MarkedForCause'
  <2> SUFFICES ASSUME NEW t \in failedSucc'
               PROVE  \E p \in Preds(t)' : p \in tsdone' /\ ~IsOk(resp[p])
    BY <1>4 DEF MarkedForCause, IsOk
  <2>1. CASE t \in failedSucc
    BY <1>1, <1>3, <1>5, <2>1 DEF RecordInv, MarkedForCause
  <2>2. CASE t \notin failedSucc
    <3>1. ~IsOk(resp[s]) /\ t \in Successors(s)
      BY <1>1, <2>2 DEF Doomed
    <3>2. t \in Services /\ s \in Preds(t)
      BY <1>1, <1>2, <3>1, NodesType DEF Successors, Preds, OrderInv, Sorted
    <3> QED BY <1>1, <1>3, <3>1, <3>2
  <2> QED BY <2>1, <2>2
<1>8. FailedIsFinal'
  <2> SUFFICES ASSUME NEW t \in failed' PROVE ~IsOk(resp[t]) /\ wpc[t] \notin {"post", "poll"}
    BY <1>4 DEF FailedIsFinal, IsOk
  <2>1. CASE t \in failed
    BY <1>1, <2>1 DEF RecordInv, FailedIsFinal
  <2>2. CASE t \notin failed
    <3>1. t = s /\ ~IsOk(resp[s])
      BY <1>1, <1>4, <2>2 DEF SortOutUnlessSkipped, SortOut, IsOk, results
    <3> QED BY <1>2, <3>1 DEF Finished
  <2> QED BY <2>1, <2>2
<1>9. WrongIsFailed'
  <2>1. \A p \in tsdone' : ~IsOk(resp[p]) => failed' # {}
    BY <1>1, <1>4, <1>6 DEF RecordInv, WrongIsFailed
  <2>2. failedSucc' # {} => failed' # {}
    BY <1>1, <1>4, <1>6 DEF RecordInv, WrongIsFailed, Doomed
  <2> QED BY <1>1, <1>4, <2>1, <2>2 DEF RecordInv, WrongIsFailed, IsOk
<1>10. \A t \in Services : wpc'[t] \in Fresh => ~IsOk(resp'[t])
  BY <1>1, <1>4 DEF RecordInv, IsOk
<1> QED BY <1>1, <1>4, <1>7, <1>8, <1>9, <1>10 DEF RecordInv, CleanRecord

LEMMA RecordStep ==
  TypeInv /\ OrderInv /\ FlowInv /\ RecordInv /\ [Next]_vars => RecordInv'
<1> SUFFICES ASSUME TypeInv, OrderInv, FlowInv, RecordInv, [Next]_vars PROVE RecordInv'
  OBVIOUS
<1>1. CASE SkipModule \/ BreakFlow \/ PassModule \/ EndFlow
  BY <1>1 DEF SkipModule, BreakFlow, PassModule, EndFlow, AtStep, RecordInv, CleanRecord,
     InModule, flowVars, results
<1>2. CASE StartModule
  <2>1. /\ InModule' /\ pc' # "flow" /\ drStatus' /\ failed' = {} /\ skipped' = {}
        /\ tsdone' = {} /\ failedSucc' = {} /\ \A s \in Services : resp'[s] = NotOk
    BY <1>2 DEF StartModule, AtStep, InModule, RecordInv, CleanRecord, flowVars, results
  <2> QED BY <2>1 DEF RecordInv, CleanRecord, MarkedForCause, FailedIsFinal, WrongIsFailed,
             IsOk, NotOk
<1>3. CASE FinishModule
  BY <1>3 DEF FinishModule, StatusAfter, RecordInv, CleanRecord, WrongIsFailed, InModule, results
<1>4. CASE GetReady
  <2>1. /\ InModule /\ InModule' /\ pc' # "flow"
        /\ UNCHANGED <<cli, step, drStatus, tsdone, failedSucc, wpc, resp, failed, skipped>>
        /\ failedSucc \subseteq Services
    BY <1>4 DEF GetReady, InModule, flowVars, threads, results, TypeInv, TypeOK
  <2>2. \A s \in Services : Preds(s)' = Preds(s)
    BY <2>1, PlanStable
  <2>3. MarkedForCause'
    BY <2>1, <2>2 DEF RecordInv, MarkedForCause, IsOk
  <2> QED BY <2>1, <2>3 DEF RecordInv, CleanRecord, FailedIsFinal, WrongIsFailed, IsOk
<1>5. CASE GetResult
  BY <1>5, RecordGetResult
<1>6. ASSUME NEW s \in Services, StartThread(s) \/ SkipService(s) PROVE RecordInv'
  BY <1>6, RecordDispatch
<1>7. ASSUME NEW s \in Services, Thread(s) PROVE RecordInv'
  BY <1>7, RecordThread
<1>8. CASE Environment \/ UNCHANGED vars
  BY <1>8, RecordStutter DEF Environment, ServiceApplies, ServiceFails, RemoveCR, vars, threads
<1> QED BY <1>1, <1>2, <1>3, <1>4, <1>5, <1>6, <1>7, <1>8 DEF Next, Main, Exited

LEMMA RecordInit == Init => RecordInv
BY DEF Init, RecordInv, CleanRecord, InModule

----------------------------------------------------------------------------
(* The refinement, action by action. *)

Invs == TypeInv /\ OrderInv /\ FlowInv /\ RecordInv

LEMMA ProgressIn ==
  ASSUME NEW s \in Services, InModule
  PROVE  /\ wpc[s] = "idle" => Progress(s) = "waiting"
         /\ wpc[s] = "skipped" => Progress(s) = "skipped"
         /\ wpc[s] \notin Fresh =>
              Progress(s) = IF s \in tsdone THEN IF IsOk(resp[s]) THEN "ok" ELSE "failed"
                            ELSE "running"
BY DEF Progress, Fresh

LEMMA ProgressOut ==
  ASSUME NEW s \in Services, ~InModule
  PROVE  Progress(s) = "waiting"
BY DEF Progress

\* What is collected has settled.
LEMMA ProgressDone ==
  ASSUME OrderInv, RecordInv, InModule, NEW p \in Services, p \in tsdone
  PROVE  IF IsOk(resp[p]) THEN Progress(p) = "ok" ELSE Progress(p) \in {"failed", "skipped"}
<1>1. wpc[p] \in Finished
  BY DEF OrderInv, Sorted
<1>2. wpc[p] = "skipped" => ~IsOk(resp[p])
  BY DEF RecordInv, Fresh
<1> QED BY <1>1, <1>2, ProgressIn DEF Fresh, Finished

\* The mapped state does not change when nothing it is made of does.
LEMMA MappedStutter ==
  ASSUME InModule' = InModule, UNCHANGED drStatus,
         InModule => Nodes' = Nodes /\ \A s \in Services : Progress(s)' = Progress(s)
  PROVE  UNCHANGED Ordered!vars
<1>1. \A s \in Services : Progress(s)' = Progress(s)
  BY ProgressOut DEF Progress
<1> QED BY <1>1 DEF Ordered!vars

LEMMA MapStart ==
  ASSUME Invs, NEW s \in Services, StartThread(s), Invs'
  PROVE  Ordered!Start(s)
<1>1. /\ InModule /\ InModule' /\ s \in batch
      /\ UNCHANGED <<cli, flowVars, tsdone, resp>> /\ wpc' = [wpc EXCEPT ![s] = "post"]
  BY DEF StartThread, InModule
<1>2. s \in Nodes /\ wpc[s] = "idle" /\ s \notin tsdone /\ tsdone \subseteq Services
  BY <1>1 DEF Invs, OrderInv, Sorted, Finished, TypeInv, TypeOK
<1>3. Nodes' = Nodes /\ Preds(s)' = Preds(s) /\ Preds(s) \subseteq Services
  BY <1>1, PlanStable, NodesType DEF flowVars, Preds
<1>4. \A p \in Preds(s) : Progress(p) = "ok"
  <2>1. \A p \in Preds(s) : p \in tsdone /\ IsOk(resp[p])
    BY <1>1, <1>3 DEF Invs, OrderInv, DependenciesAreOk, Started, IsOk, TypeInv, TypeOK
  <2> QED BY <1>1, <1>3, <2>1, ProgressDone DEF Invs
<1>5. Progress(s) = "waiting"
  BY <1>1, <1>2, ProgressIn
<1>6. \A t \in Services : Progress(t)' = IF t = s THEN "running" ELSE Progress(t)
  BY <1>1, <1>2 DEF Progress, IsOk, Invs, TypeInv, TypeOK
<1> QED BY <1>1, <1>2, <1>3, <1>4, <1>5, <1>6 DEF Ordered!Start, Ordered!Preds, Preds, flowVars

LEMMA MapSkip ==
  ASSUME Invs, NEW s \in Services, SkipService(s)
  PROVE  Ordered!Skip(s)
<1>1. /\ InModule /\ InModule' /\ s \in batch /\ s \in failedSucc
      /\ UNCHANGED <<cli, flowVars, tsdone, resp>> /\ wpc' = [wpc EXCEPT ![s] = "skipped"]
  BY DEF SkipService, InModule
<1>2. s \in Nodes /\ wpc[s] = "idle"
  BY <1>1 DEF Invs, OrderInv, Sorted
<1>3. Nodes' = Nodes /\ Preds(s) \subseteq Services
  BY <1>1, PlanStable, NodesType DEF flowVars, Preds
<1>4. \E p \in Preds(s) : Progress(p) \in {"failed", "skipped"}
  <2>1. PICK p \in Preds(s) : p \in tsdone /\ ~IsOk(resp[p])
    BY <1>1 DEF Invs, RecordInv, MarkedForCause
  <2> QED BY <1>1, <1>3, <2>1, ProgressDone DEF Invs
<1>5. Progress(s) = "waiting"
  BY <1>1, <1>2, ProgressIn
<1>6. \A t \in Services : Progress(t)' = IF t = s THEN "skipped" ELSE Progress(t)
  BY <1>1, <1>2 DEF Progress, IsOk, Invs, TypeInv, TypeOK
<1> QED BY <1>1, <1>2, <1>3, <1>4, <1>5, <1>6
        DEF Ordered!Skip, Ordered!Preds, Ordered!Bad, Preds, flowVars

\* A collected result settles its service, unless that was skipped.
LEMMA MapGetResult ==
  ASSUME Invs, GetResult
  PROVE  Ordered!Settle(Head(queue)) \/ UNCHANGED Ordered!vars
<1>1. PICK s \in Services : s = Head(queue)
  BY HeadCollected DEF Invs
<1>2. /\ InModule /\ InModule' /\ tsdone' = tsdone \cup {s}
      /\ UNCHANGED <<cli, flowVars, threads>>
      /\ wpc[s] \in Finished /\ s \notin tsdone
  BY <1>1, HeadCollected DEF Invs, GetResult, InModule
<1>3. Nodes' = Nodes /\ UNCHANGED <<wpc, resp, drStatus>>
  BY <1>2, PlanStable DEF flowVars, threads
<1>4. \A t \in Services \ {s} : Progress(t)' = Progress(t)
  BY <1>2, <1>3 DEF Progress, IsOk
<1>5. CASE wpc[s] = "skipped"
  <2>1. Progress(s)' = Progress(s)
    BY <1>2, <1>3, <1>5 DEF Progress
  <2> QED BY <1>2, <1>3, <1>4, <2>1, MappedStutter
<1>6. CASE wpc[s] = "ended"
  <2>1. Progress(s) = "running" /\ Progress(s)' \in {"ok", "failed"}
    BY <1>2, <1>3, <1>6 DEF Progress
  <2>2. PICK v \in {"ok", "failed"} : Progress(s)' = v
    BY <2>1
  <2>3. \A t \in Services : Progress(t)' = IF t = s THEN v ELSE Progress(t)
    BY <1>4, <2>2
  <2>4. Ordered!Settle(s)
    BY <1>2, <1>3, <2>1, <2>3 DEF Ordered!Settle
  <2> QED BY <1>1, <2>4
<1> QED BY <1>2, <1>5, <1>6 DEF Finished

LEMMA MapStartModule ==
  ASSUME Invs, StartModule
  PROVE  Ordered!Begin
<1>1. ~InModule /\ InModule' /\ drStatus /\ drStatus' = drStatus /\ wpc' = [s \in Services |-> "idle"]
  BY DEF StartModule, AtStep, InModule, flowVars
<1>2. \A s \in Services : Progress(s) = "waiting" /\ Progress(s)' = "waiting"
  BY <1>1 DEF Progress
<1>3. Nodes' \subseteq Services
  BY ServicesAssumption DEF Nodes, Graph
<1> QED BY <1>1, <1>2, <1>3 DEF Ordered!Begin

\* The sorter is done only when every service of the graph is: without a cycle some
\* service that is left would be ready.
LEMMA AllCollected ==
  ASSUME TypeInv, OrderInv, InModule, ~IsActive
  PROVE  tsdone = Nodes
<1>1. issued = tsdone /\ Ready = {} /\ tsdone \subseteq Nodes
  BY DEF IsActive, OrderInv, Sorted
<1> DEFINE N == Nodes \ tsdone
<1>2. SUFFICES ASSUME N # {} PROVE FALSE
  BY <1>1
<1>3. Flow[step].module \in Modules
  <2>1. Flow \in Seq([module: Modules, states: StatesKinds])
    BY CommandAssumption
  <2>2. step \in 1..Len(Flow)
    BY <2>1 DEF TypeInv, TypeOK, InModule
  <2>3. Flow[step] \in [module: Modules, states: StatesKinds]
    BY <2>1, <2>2, ElementOfSeq
  <2> QED BY <2>3
<1>4. N \in (SUBSET {s \in Services : ModuleOf[s] = Flow[step].module}) \ {{}}
  <2>1. \A s \in Nodes : s \in Services /\ ModuleOf[s] = Flow[step].module
    BY ServicesAssumption DEF Nodes, Graph
  <2> QED BY <1>2, <2>1
<1>5. PICK s \in N : After[s] \cap N = {}
  BY <1>3, <1>4, AcyclicAssumption
<1>6. Preds(s) \subseteq tsdone /\ s \in Nodes \ issued
  BY <1>1, <1>5 DEF Preds
<1> QED BY <1>1, <1>6 DEF Ready

LEMMA MapFinishModule ==
  ASSUME Invs, FinishModule
  PROVE  Ordered!Complete
<1>1. /\ InModule /\ ~InModule' /\ tsdone = Nodes /\ drStatus' = (failed = {})
  BY AllCollected DEF FinishModule, StatusAfter, InModule, Invs
<1>2. \A s \in Services : Progress(s)' = "waiting"
  BY <1>1 DEF Progress
<1>3. \A s \in Nodes : IF IsOk(resp[s]) THEN Progress(s) = "ok" ELSE Progress(s) \in {"failed", "skipped"}
  BY <1>1, NodesType, ProgressDone DEF Invs
<1>4. failed = {} <=> \A s \in Nodes : Progress(s) = "ok"
  <2>1. ASSUME failed = {}, NEW s \in Nodes PROVE Progress(s) = "ok"
    BY <1>1, <1>3, <2>1 DEF Invs, RecordInv, WrongIsFailed
  <2>2. ASSUME NEW s \in failed PROVE s \in Nodes /\ Progress(s) # "ok"
    <3>1. s \in issued /\ ~IsOk(resp[s])
      BY <1>1 DEF Invs, FlowInv, FailureStopsFlow, RecordInv, FailedIsFinal
    <3> QED BY <1>1, <1>3, <3>1 DEF Invs, OrderInv, Sorted
  <2> QED BY <2>1, <2>2
<1>5. \A s \in Nodes : s \in Services
  BY NodesType
<1> QED BY <1>1, <1>2, <1>3, <1>4, <1>5 DEF Ordered!Complete, Ordered!Settled, Ordered!Bad

LEMMA MapThread ==
  ASSUME Invs, NEW s \in Services, Thread(s)
  PROVE  UNCHANGED Ordered!vars
<1>1. /\ InModule /\ wpc[s] \in Running /\ wpc'[s] \in Running \cup {"dead", "ended"}
      /\ UNCHANGED <<cli, pc, flowVars, sorter>>
      /\ \A t \in Services \ {s} : wpc'[t] = wpc[t] /\ resp'[t] = resp[t]
  BY ThreadEffect DEF Invs
<1>2. s \notin tsdone /\ UNCHANGED <<tsdone, drStatus>> /\ InModule'
  BY <1>1 DEF Invs, OrderInv, Sorted, Running, Finished, sorter, flowVars, InModule
<1>3. Progress(s) = "running" /\ Progress(s)' = "running"
  BY <1>1, <1>2 DEF Progress, Running
<1>4. \A t \in Services : Progress(t)' = Progress(t)
  BY <1>1, <1>2, <1>3 DEF Progress, IsOk
<1> QED BY <1>1, <1>2, <1>4, MappedStutter, PlanStable DEF flowVars

\* Each step of the program is a step of the abstract specification or none.
LEMMA MapStep == Invs /\ Invs' /\ [Next]_vars => [Ordered!Next]_Ordered!vars
<1> SUFFICES ASSUME Invs, Invs', [Next]_vars PROVE Ordered!Next \/ UNCHANGED Ordered!vars
  OBVIOUS
<1>1. CASE StartModule
  BY <1>1, MapStartModule DEF Ordered!Next
<1>2. CASE FinishModule
  BY <1>2, MapFinishModule DEF Ordered!Next
<1>3. CASE GetResult
  <2>1. Head(queue) \in Services
    BY <1>3, HeadCollected DEF Invs
  <2> QED BY <1>3, <2>1, MapGetResult DEF Ordered!Next
<1>4. ASSUME NEW s \in Services, StartThread(s) PROVE Ordered!Next
  BY <1>4, MapStart DEF Ordered!Next
<1>5. ASSUME NEW s \in Services, SkipService(s) PROVE Ordered!Next
  BY <1>5, MapSkip DEF Ordered!Next
<1>6. ASSUME NEW s \in Services, Thread(s) PROVE UNCHANGED Ordered!vars
  BY <1>6, MapThread
<1>7. CASE SkipModule \/ BreakFlow \/ PassModule \/ EndFlow
  <2>1. ~InModule /\ ~InModule' /\ UNCHANGED drStatus
    BY <1>7 DEF SkipModule, BreakFlow, PassModule, EndFlow, AtStep, InModule, flowVars
  <2>2. InModule' = InModule /\ ~InModule
    BY <2>1 DEF InModule
  <2> QED BY <2>1, <2>2, MappedStutter
<1>8. CASE GetReady \/ Environment \/ UNCHANGED vars
  <2>1. /\ InModule' = InModule /\ UNCHANGED <<cli, step, drStatus, tsdone, wpc, resp>>
    BY <1>8 DEF GetReady, Environment, ServiceApplies, ServiceFails, RemoveCR, vars,
       InModule, flowVars, sorter, threads
  <2>2. \A s \in Services : Progress(s)' = Progress(s)
    BY <2>1 DEF Progress, IsOk
  <2> QED BY <2>1, <2>2, MappedStutter, PlanStable
<1> QED BY <1>1, <1>2, <1>3, <1>4, <1>5, <1>6, <1>7, <1>8 DEF Next, Main, Exited

LEMMA MapInit == Init => Ordered!Init
BY DEF Init, Ordered!Init, Progress, InModule

LEMMA InvsHold == Spec => []Invs
<1>1. Init => Invs
  <2>1. Init => FlowInv
    BY DEF Init, FlowInv, CleanStart, SkipsListed, FailureStopsFlow, InModule
  <2> QED BY <2>1, TypeInit, OrderInit, RecordInit DEF Invs
<1>2. Invs /\ [Next]_vars => Invs'
  BY TypeStep, OrderStep, FlowStep, RecordStep DEF Invs
<1> QED BY <1>1, <1>2, PTL DEF Spec

\* Threads, queue, sorter and dr_status do what OrderedExecution promises, for any
\* services, dependencies and flow: a service runs only after all it waits for
\* succeeded, is skipped only for one that did not, and the next module begins only
\* when the current one is complete and clean.
THEOREM ImplementsOrderedExecution == Spec => RefinesOrderedExecution
BY MapInit, MapStep, InvsHold, PTL DEF Spec, RefinesOrderedExecution, Ordered!Spec
=============================================================================
