--------------------------- MODULE PreparationProofs ---------------------------
(***************************************************************************)
(* Theorems about Preparation, for every cluster, flow and command line:   *)
(* what is started can be run to its end, and what the failed site lists   *)
(* never keeps a failover from starting.                                   *)
(***************************************************************************)
EXTENDS Preparation, SequenceTheorems, TLAPS

\* What OrderModule has left for a module that is no longer to be ordered.
Computed(m) ==
  /\ graph[m] = Ordering(m)
  /\ issue[m] = (Ordering(m) = NoGraph \/ WrongDeps(OrderedSites(m), m))

\* The modules that have been ordered, and those that have passed validation.
OrderedInv ==
  /\ graph \in [Modules -> [nodes: SUBSET Services, edges: SUBSET (Services \X Services),
                            cyclic: BOOLEAN]]
  /\ issue \in [Modules -> BOOLEAN]
  /\ pc \in {"order", "validate", "predict", "started", "refused"}
  /\ \A m \in Modules : (pc = "order" => m \notin todo) => Computed(m)

Unavailable == Running # {} /\ sm.up = {}

ValidatedInv ==
  /\ pc \in {"validate", "predict"} => \A m \in Modules \ todo : Allowed(m)
  /\ pc = "predict" => module \in Modules /\ Allowed(module) /\ cmd \in SiteCmds
  /\ pc = "started" => \A m \in Modules : Allowed(m)
  /\ pc = "refused" =>
       Unavailable \/ cmd \in SiteCmds \/ \E m \in Modules : ~ Allowed(m)

IInv == OrderedInv /\ ValidatedInv

----------------------------------------------------------------------------
\* An order that exists holds the members of the module and has no cycle.
LEMMA OrderShape ==
  ASSUME NEW sites, NEW m, Order(sites, m) # NoGraph
  PROVE  /\ Order(sites, m).nodes = Members(sites, m)
         /\ ~ Order(sites, m).cyclic
         /\ ~ Cyclic(Order(sites, m).nodes, Order(sites, m).edges)
  BY DEF Order

\* The order of a module is an order over the sites it was made from.
LEMMA OrderingIsOrder ==
  ASSUME NEW m PROVE Ordering(m) = Order(OrderedSites(m), m)
  BY DEF Ordering, OrderedSites

\* An order has the type of a graph.
LEMMA OrderType ==
  ASSUME NEW sites, NEW m
  PROVE  Order(sites, m) \in [nodes: SUBSET Services, edges: SUBSET (Services \X Services),
                              cyclic: BOOLEAN]
<1>1. Members(sites, m) \subseteq Services
  BY DEF Members
<1>2. Edges(sites, m) \subseteq Members(sites, m) \X Members(sites, m)
  BY DEF Edges
<1>3. Edges(sites, m) \subseteq Services \X Services
  BY <1>1, <1>2
<1>4. NoGraph \in [nodes: SUBSET Services, edges: SUBSET (Services \X Services),
                   cyclic: BOOLEAN]
  BY DEF NoGraph
<1> QED
  BY <1>1, <1>3, <1>4 DEF Order

\* A module with missing dependencies has members.
LEMMA WrongDepsHasMembers ==
  ASSUME NEW sites, NEW m, WrongDeps(sites, m) PROVE Members(sites, m) # {}
  BY DEF WrongDeps

----------------------------------------------------------------------------
\* Everything the invariant reads of the command line and the cluster stays.
Kept == UNCHANGED input

LEMMA KeptMembers ==
  ASSUME Kept, NEW sites, NEW m PROVE Members(sites, m)' = Members(sites, m)
<1>1. UNCHANGED <<cmd, sel, sm>>
  BY DEF Kept, input
<1>2. ASSUME NEW x, NEW s PROVE Belongs(x, s, m)' = Belongs(x, s, m)
  BY <1>1 DEF Belongs, Listed, Selected, Running
<1> QED
  BY <1>2 DEF Members

LEMMA KeptDeps ==
  ASSUME Kept, NEW sites, NEW m, NEW s, NEW list
  PROVE  /\ Deps(sites, m, s, list)' = Deps(sites, m, s, list)
         /\ \A d : Begins(sites, m, s, list, d)' = Begins(sites, m, s, list, d)
<1>1. UNCHANGED <<cmd, sel, sm>>
  BY DEF Kept, input
<1>2. ASSUME NEW x PROVE Belongs(x, s, m)' = Belongs(x, s, m)
  BY <1>1 DEF Belongs, Listed, Selected, Running
<1> QED
  BY <1>1, <1>2 DEF Deps, Begins

LEMMA KeptOrder ==
  ASSUME Kept, NEW sites, NEW m
  PROVE  Order(sites, m)' = Order(sites, m) /\ WrongDeps(sites, m)' = WrongDeps(sites, m)
<1>1. Members(sites, m)' = Members(sites, m)
  BY KeptMembers
<1>2. \A s, list : /\ Deps(sites, m, s, list)' = Deps(sites, m, s, list)
                   /\ \A d : Begins(sites, m, s, list, d)' = Begins(sites, m, s, list, d)
  BY KeptDeps
<1>3. Edges(sites, m)' = Edges(sites, m)
  BY <1>1, <1>2 DEF Edges
<1>4. Order(sites, m)' = Order(sites, m)
  BY <1>1, <1>3 DEF Order
<1>5. WrongDeps(sites, m)' = WrongDeps(sites, m)
  BY <1>1, <1>2 DEF WrongDeps
<1> QED
  BY <1>4, <1>5

LEMMA KeptOrdering ==
  ASSUME Kept, NEW m
  PROVE  /\ Ordering(m)' = Ordering(m)
         /\ WrongDeps(OrderedSites(m), m)' = WrongDeps(OrderedSites(m), m)
<1>1. UNCHANGED <<cmd, sel, sm>>
  BY DEF Kept, input
<1>2. UsedSites' = UsedSites
  BY <1>1 DEF UsedSites, Available
<1>3. \A sites : Order(sites, m)' = Order(sites, m) /\ WrongDeps(sites, m)' = WrongDeps(sites, m)
  BY KeptOrder
<1>4. Ordering(m)' = Ordering(m)
  BY <1>1, <1>2, <1>3 DEF Ordering
<1>5. OrderedSites(m)' = OrderedSites(m)
  BY <1>1, <1>2, <1>3 DEF OrderedSites
<1> QED
  BY <1>3, <1>4, <1>5

\* So does the verdict of validation, as long as the orders stay.
LEMMA KeptServices ==
  ASSUME Kept, UNCHANGED globals, NEW m PROVE ToValidate(m)' = ToValidate(m)
BY DEF Kept, input, globals, ToValidate, Running, Available, Listed

LEMMA KeptAllowed ==
  ASSUME Kept, UNCHANGED globals, NEW m PROVE Allowed(m)' = Allowed(m)
<1>1. UNCHANGED <<cmd, sel, sm, graph, issue>>
  BY DEF Kept, input, globals
<1>2. ToValidate(m)' = ToValidate(m)
  BY KeptServices
<1>3. DepIssueAllowed(m)' = DepIssueAllowed(m)
  BY <1>1 DEF DepIssueAllowed
<1>4. \A services : /\ DepsConsistent(services)' = DepsConsistent(services)
                   /\ SequenceConsistent(services)' = SequenceConsistent(services)
  BY <1>1 DEF DepsConsistent, SequenceConsistent, BothList, Listed
<1>5. \A services, sites : OnSites(services, sites)' = OnSites(services, sites)
  BY <1>1 DEF OnSites, Listed
<1> QED
  BY <1>1, <1>2, <1>3, <1>4, <1>5 DEF Allowed

----------------------------------------------------------------------------
\* Before anything is ordered nothing is claimed of any module.
LEMMA InitInv == Init => IInv
<1> SUFFICES ASSUME Init PROVE IInv
  OBVIOUS
<1>1. OrderedInv
  BY DEF Init, OrderedInv, NoGraph
<1>2. ValidatedInv
  BY DEF Init, ValidatedInv
<1> QED
  BY <1>1, <1>2 DEF IInv

\* A step that leaves the orders alone keeps what they are.
LEMMA OrdersKept ==
  ASSUME OrderedInv, Kept, UNCHANGED globals,
         pc' \in {"order", "validate", "predict", "started", "refused"},
         \A m \in Modules : (pc' = "order" => m \notin todo') => (pc = "order" => m \notin todo)
  PROVE  OrderedInv'
<1>1. UNCHANGED <<graph, issue>>
  BY DEF globals
<1>2. \A m \in Modules : Computed(m)' = Computed(m)
  <2> SUFFICES ASSUME NEW m \in Modules PROVE Computed(m)' = Computed(m)
    OBVIOUS
  <2>1. /\ Ordering(m)' = Ordering(m)
        /\ WrongDeps(OrderedSites(m), m)' = WrongDeps(OrderedSites(m), m)
    BY KeptOrdering
  <2> QED
    BY <1>1, <2>1 DEF Computed
<1> QED
  BY <1>1, <1>2 DEF OrderedInv

\* Ordering one module.
LEMMA OrderModuleInv ==
  ASSUME IInv, NEW m \in Modules, OrderModule(m) PROVE IInv'
<1>1. /\ pc = "order" /\ pc' = "order" /\ todo' = todo \ {m}
      /\ graph' = [graph EXCEPT ![m] = Ordering(m)]
      /\ issue' = [issue EXCEPT ![m] = Ordering(m) = NoGraph \/ WrongDeps(OrderedSites(m), m)]
      /\ Kept
  BY DEF OrderModule, Kept
<1>2. Ordering(m) \in [nodes: SUBSET Services, edges: SUBSET (Services \X Services),
                      cyclic: BOOLEAN]
  BY OrderingIsOrder, OrderType
<1>3. graph' \in [Modules -> [nodes: SUBSET Services, edges: SUBSET (Services \X Services),
                             cyclic: BOOLEAN]]
  BY <1>1, <1>2 DEF IInv, OrderedInv
<1>4. issue' \in [Modules -> BOOLEAN]
  BY <1>1 DEF IInv, OrderedInv
<1>5. \A n \in Modules : n \notin todo' => Computed(n)'
  <2> SUFFICES ASSUME NEW n \in Modules, n \notin todo' PROVE Computed(n)'
    OBVIOUS
  <2>1. /\ Ordering(n)' = Ordering(n)
        /\ WrongDeps(OrderedSites(n), n)' = WrongDeps(OrderedSites(n), n)
    BY <1>1, KeptOrdering
  <2>2. CASE n = m
    <3>1. graph'[n] = Ordering(n)
      BY <1>1, <2>2 DEF IInv, OrderedInv
    <3>2. issue'[n] = (Ordering(n) = NoGraph \/ WrongDeps(OrderedSites(n), n))
      BY <1>1, <2>2 DEF IInv, OrderedInv
    <3> QED
      BY <2>1, <3>1, <3>2 DEF Computed
  <2>3. CASE n # m
    <3>1. n \notin todo
      BY <1>1, <2>3
    <3>2. Computed(n)
      BY <1>1, <3>1 DEF IInv, OrderedInv
    <3>3. graph'[n] = graph[n] /\ issue'[n] = issue[n]
      BY <1>1, <2>3 DEF IInv, OrderedInv
    <3> QED
      BY <2>1, <3>2, <3>3 DEF Computed
  <2> QED
    BY <2>2, <2>3
<1>6. OrderedInv'
  BY <1>1, <1>3, <1>4, <1>5 DEF OrderedInv
<1>7. ValidatedInv'
  BY <1>1 DEF ValidatedInv
<1> QED
  BY <1>6, <1>7 DEF IInv

\* Every other step leaves the orders alone.
LEMMA ValidationInv ==
  ASSUME IInv, [Next]_vars, \A m \in Modules : ~ OrderModule(m) PROVE IInv'
<1> USE DEF IInv
<1>a. ASSUME Kept, UNCHANGED globals
      PROVE /\ \A m \in Modules : Allowed(m)' = Allowed(m)
            /\ Unavailable' = Unavailable /\ (cmd \in SiteCmds)' = (cmd \in SiteCmds)
  <2>1. \A m \in Modules : Allowed(m)' = Allowed(m)
    BY <1>a, KeptAllowed
  <2>2. UNCHANGED <<cmd, sel, sm>>
    BY <1>a DEF Kept, input
  <2> QED
    BY <2>1, <2>2 DEF Unavailable, Running
<1>1. CASE OrderDone
  <2>1. /\ pc = "order" /\ todo = {} /\ pc' = "validate" /\ todo' = Modules
        /\ Kept /\ UNCHANGED globals
    BY <1>1 DEF OrderDone, Kept
  <2>2. OrderedInv'
    BY <2>1, OrdersKept
  <2>3. ValidatedInv'
    BY <2>1 DEF ValidatedInv
  <2> QED
    BY <2>2, <2>3
<1>2. ASSUME NEW m \in Modules, RefuseModule(m) PROVE IInv'
  <2>1. /\ pc = "validate" /\ pc' = "refused" /\ (Unavailable \/ ~ Allowed(m))
        /\ Kept /\ UNCHANGED globals
    BY <1>2 DEF RefuseModule, Refuse, Kept, Unavailable
  <2>2. OrderedInv'
    BY <2>1, OrdersKept
  <2>3. ValidatedInv'
    BY <1>a, <2>1 DEF ValidatedInv
  <2> QED
    BY <2>2, <2>3
<1>3. ASSUME NEW m \in Modules, AcceptModule(m) PROVE IInv'
  <2>1. pc = "validate" /\ Allowed(m) /\ Kept /\ UNCHANGED globals
    BY <1>3 DEF AcceptModule, Kept
  <2>2. CASE cmd \in SiteCmds
    <3>1. pc' = "predict" /\ module' = m /\ UNCHANGED todo
      BY <1>3, <2>2 DEF AcceptModule
    <3>2. OrderedInv'
      BY <2>1, <3>1, OrdersKept
    <3>3. ValidatedInv'
      BY <1>a, <2>1, <2>2, <3>1 DEF ValidatedInv
    <3> QED
      BY <3>2, <3>3
  <2>3. CASE cmd \notin SiteCmds
    <3>1. pc' = "validate" /\ todo' = todo \ {m}
      BY <1>3, <2>1, <2>3 DEF AcceptModule
    <3>2. OrderedInv'
      BY <2>1, <3>1, OrdersKept
    <3>3. ValidatedInv'
      BY <1>a, <2>1, <3>1 DEF ValidatedInv
    <3> QED
      BY <3>2, <3>3
  <2> QED
    BY <2>2, <2>3
<1>4. ASSUME NEW s \in Services, Predict(s) PROVE IInv'
  <2>1. /\ pc = "predict" /\ pc' = pc /\ todo' = todo /\ module' = module
        /\ Kept /\ UNCHANGED globals
    BY <1>4 DEF Predict, Kept
  <2>2. OrderedInv'
    BY <2>1, OrdersKept
  <2>3. ValidatedInv'
    BY <1>a, <2>1 DEF ValidatedInv
  <2> QED
    BY <2>2, <2>3
<1>5. CASE PredictDone
  <2>1. /\ pc = "predict" /\ pc' = "validate" /\ todo' = todo \ {module}
        /\ Kept /\ UNCHANGED globals
    BY <1>5 DEF PredictDone, Kept
  <2>2. OrderedInv'
    BY <2>1, OrdersKept
  <2>3. ValidatedInv'
    BY <1>a, <2>1 DEF ValidatedInv
  <2> QED
    BY <2>2, <2>3
<1>6. CASE PredictFails
  <2>1. pc = "predict" /\ pc' = "refused" /\ Kept /\ UNCHANGED globals
    BY <1>6 DEF PredictFails, Refuse, Kept
  <2>2. OrderedInv'
    BY <2>1, OrdersKept
  <2>3. ValidatedInv'
    BY <1>a, <2>1 DEF ValidatedInv
  <2> QED
    BY <2>2, <2>3
<1>7. CASE Start
  <2>1. pc = "validate" /\ todo = {} /\ pc' = "started" /\ Kept /\ UNCHANGED globals
    BY <1>7 DEF Start, Kept
  <2>2. OrderedInv'
    BY <2>1, OrdersKept
  <2>3. ValidatedInv'
    BY <1>a, <2>1 DEF ValidatedInv
  <2> QED
    BY <2>2, <2>3
<1>8. ASSUME NEW s \in Services, NEW m \in Modes, OtherClient(s, m) PROVE IInv'
  <2>1. UNCHANGED <<pc, todo, module>> /\ Kept /\ UNCHANGED globals
    BY <1>8 DEF OtherClient, Kept, predicting
  <2>2. OrderedInv'
    BY <2>1, OrdersKept DEF OrderedInv
  <2>3. ValidatedInv'
    BY <1>a, <2>1 DEF ValidatedInv
  <2> QED
    BY <2>2, <2>3
<1>9. CASE UNCHANGED vars
  <2>1. UNCHANGED <<pc, todo, module>> /\ Kept /\ UNCHANGED globals
    BY <1>9 DEF vars, Kept, predicting
  <2>2. OrderedInv'
    BY <2>1, OrdersKept DEF OrderedInv
  <2>3. ValidatedInv'
    BY <1>a, <2>1 DEF ValidatedInv
  <2> QED
    BY <2>2, <2>3
<1> QED
  BY <1>1, <1>2, <1>3, <1>4, <1>5, <1>6, <1>7, <1>8, <1>9 DEF Next

\* The invariant holds in every reachable state.
LEMMA Invariance == Spec => []IInv
<1>1. IInv /\ [Next]_vars => IInv'
  BY OrderModuleInv, ValidationInv
<1> QED
  BY InitInv, <1>1, PTL DEF Spec

----------------------------------------------------------------------------
\* A procedure is started only on graphs without cycles, for any lists of
\* dependencies the sites give: the assumption process_ts_services makes when it
\* waits for the next ready service.
THEOREM StartedGraphsRunnable == Spec => []GraphsRunnable
<1>1. IInv => GraphsRunnable
  <2> SUFFICES ASSUME IInv, pc = "started", NEW m \in Modules
               PROVE  ~ graph[m].cyclic /\ ~ Cyclic(graph[m].nodes, graph[m].edges)
    BY DEF GraphsRunnable
  <2>1. Computed(m) /\ Allowed(m)
    BY DEF IInv, OrderedInv, ValidatedInv
  <2>2. graph[m] # NoGraph
    BY <2>1 DEF Computed, Allowed, DepIssueAllowed
  <2>3. graph[m] = Order(OrderedSites(m), m)
    BY <2>1, OrderingIsOrder DEF Computed
  <2> QED
    BY <2>2, <2>3, OrderShape
<1> QED
  BY <1>1, Invariance, PTL

\* A failover is refused only when the surviving site does not answer or cannot
\* order its own services: nothing the failed site lists keeps it from starting.
THEOREM FailoverSurvives == Spec => []StopSurvives
<1>1. IInv => StopSurvives
  <2> SUFFICES ASSUME IInv, pc = "refused", cmd = "stop", "opposite" \in sm.up
               PROVE  \E m \in Modules : Order(<<"opposite">>, m) = NoGraph
    BY DEF StopSurvives
  <2>1. PICK m \in Modules : ~ Allowed(m)
    BY DEF IInv, ValidatedInv, Unavailable, SiteCmds
  <2>2. Computed(m)
    BY DEF IInv, OrderedInv
  <2>3. issue[m] /\ (graph[m] = NoGraph \/ graph[m].nodes = {})
    BY <2>1 DEF Allowed, DepIssueAllowed, SiteCmds
  <2>4. CASE graph[m] = NoGraph
    BY <2>2, <2>4 DEF Computed, Ordering
  <2>5. CASE graph[m] # NoGraph
    <3>1. graph[m] = Order(OrderedSites(m), m)
      BY <2>2, OrderingIsOrder DEF Computed
    <3>2. Members(OrderedSites(m), m) = {}
      BY <2>3, <2>5, <3>1, OrderShape
    <3>3. WrongDeps(OrderedSites(m), m)
      BY <2>2, <2>3, <2>5 DEF Computed
    <3> QED
      BY <3>2, <3>3, WrongDepsHasMembers
  <2> QED
    BY <2>4, <2>5
<1> QED
  BY <1>1, Invariance, PTL

----------------------------------------------------------------------------
(* Types *)

Known == sm \in Clusters

\* What the constants say of the command line and the cluster.
LEMMA InputType ==
  ASSUME Known, cmd \in Cmds, sel \in Selections
  PROVE  /\ sm.up \subseteq Sites
         /\ \A x \in Sites : Listed(x) \subseteq Services /\ (x \notin sm.up => Listed(x) = {})
         /\ \A x \in Sites : \A s \in Listed(x) : sm.conf[x][s] \in Confs
         /\ Running \subseteq Services /\ sel.skip \subseteq Services /\ sel.run \subseteq Services
         /\ cmd \in SiteCmds \cup DRCmds
         /\ "site" \in Sites /\ "opposite" \in Sites
<1>1. /\ sm.up \subseteq Sites
      /\ \A x \in Sites : Listed(x) \subseteq Services /\ (x \notin sm.up => Listed(x) = {})
      /\ \A x \in Sites : \A s \in Listed(x) : sm.conf[x][s] \in Confs
  BY ClusterAssumption DEF Known, Listed
<1>2. Running \subseteq Services /\ sel.skip \subseteq Services /\ sel.run \subseteq Services
  BY CommandAssumption DEF Running
<1> QED BY <1>1, <1>2, CommandAssumption DEF Sites

LEMMA ServicesType ==
  ASSUME TypeOK, Known, NEW m \in Modules PROVE ToValidate(m) \subseteq Services
<1>1. Running \subseteq Services
  BY InputType DEF TypeOK
<1>2. graph[m].nodes \subseteq Services
  BY DEF TypeOK, Graphs
<1> QED BY <1>1, <1>2 DEF ToValidate

LEMMA InitTypes == Init => TypeOK /\ Known
<1> SUFFICES ASSUME Init PROVE TypeOK /\ Known
  OBVIOUS
<1>1. Known /\ cmd \in Cmds /\ sel \in Selections
  BY DEF Init, Known
<1>2. sm.up \subseteq Sites /\ Listed("site") \cup Listed("opposite") \subseteq Services
  BY <1>1, InputType
<1>3. graph \in [Modules -> Graphs] /\ \A m \in Modules : graph[m].edges \subseteq graph[m].nodes \X graph[m].nodes
  BY DEF Init, NoGraph, Graphs
<1>4. mode \in [Services -> Modes \cup {Unknown}] /\ moves \in 0..MaxMoves
  BY CommandAssumption DEF Init
<1> QED BY <1>1, <1>2, <1>3, <1>4 DEF Init, TypeOK

\* An order joins members of the module only.
LEMMA OrderEdges ==
  ASSUME NEW sites, NEW m
  PROVE  Order(sites, m) \in Graphs /\ Order(sites, m).edges \subseteq Order(sites, m).nodes \X Order(sites, m).nodes
<1>1. Order(sites, m) \in Graphs
  BY OrderType DEF Graphs
<1>2. Edges(sites, m) \subseteq Members(sites, m) \X Members(sites, m)
  BY DEF Edges
<1>3. NoGraph.edges = {}
  BY DEF NoGraph
<1> QED BY <1>1, <1>2, <1>3 DEF Order

LEMMA StepTypes == IInv /\ TypeOK /\ Known /\ [Next]_vars => TypeOK' /\ Known'
<1> SUFFICES ASSUME IInv, TypeOK, Known, [Next]_vars PROVE TypeOK' /\ Known'
  OBVIOUS
<1>1. /\ UNCHANGED <<cmd, sel, sm>> /\ Known'
      /\ (cmd \in Cmds /\ sel \in Selections /\ sm.up \subseteq Sites
            /\ Listed("site") \cup Listed("opposite") \subseteq Services)'
  <2>1. UNCHANGED input
    BY DEF Next, vars, OrderModule, RefuseModule, AcceptModule, Refuse, OrderDone, Predict,
           PredictDone, PredictFails, Start, OtherClient
  <2> QED BY <2>1 DEF input, Known, TypeOK, Listed
<1>2. /\ (graph \in [Modules -> Graphs] /\ issue \in [Modules -> BOOLEAN])'
      /\ (\A m \in Modules : graph[m].edges \subseteq graph[m].nodes \X graph[m].nodes)'
  <2>1. ASSUME NEW m \in Modules, OrderModule(m)
        PROVE  /\ graph' \in [Modules -> Graphs] /\ issue' \in [Modules -> BOOLEAN]
               /\ \A n \in Modules : graph'[n].edges \subseteq graph'[n].nodes \X graph'[n].nodes
    <3>1. /\ graph' = [graph EXCEPT ![m] = Ordering(m)]
          /\ issue' = [issue EXCEPT ![m] = Ordering(m) = NoGraph \/ WrongDeps(OrderedSites(m), m)]
      BY <2>1 DEF OrderModule
    <3>2. Ordering(m) \in Graphs /\ Ordering(m).edges \subseteq Ordering(m).nodes \X Ordering(m).nodes
      BY OrderingIsOrder, OrderEdges
    <3>3. issue' \in [Modules -> BOOLEAN]
      BY <3>1 DEF TypeOK
    <3>4. graph' \in [Modules -> Graphs]
      BY <3>1, <3>2 DEF TypeOK
    <3>5. \A n \in Modules : graph'[n] = IF n = m THEN Ordering(m) ELSE graph[n]
      BY <3>1 DEF TypeOK
    <3> QED BY <3>2, <3>3, <3>4, <3>5 DEF TypeOK
  <2>2. CASE UNCHANGED globals
    BY <2>2 DEF globals, TypeOK
  <2> QED BY <2>1, <2>2 DEF Next, vars, RefuseModule, AcceptModule, Refuse, OrderDone, Predict,
           PredictDone, PredictFails, Start, OtherClient
<1>3. /\ todo' \subseteq Modules
      /\ pc' \in {"order", "validate", "predict", "started", "refused"}
  BY DEF TypeOK, Next, vars, OrderModule, RefuseModule, AcceptModule, Refuse, OrderDone, Predict,
         PredictDone, PredictFails, Start, OtherClient
<1>4. mode' \in [Services -> Modes \cup {Unknown}] /\ moves' \in 0..MaxMoves
  <2>1. CASE UNCHANGED world
    BY <2>1 DEF world, TypeOK
  <2>2. ASSUME NEW s \in Services, NEW m \in Modes, OtherClient(s, m)
        PROVE  mode' \in [Services -> Modes \cup {Unknown}] /\ moves' \in 0..MaxMoves
    BY <2>2, CommandAssumption DEF OtherClient, TypeOK
  <2> QED BY <2>1, <2>2 DEF Next, vars, OrderModule, RefuseModule, AcceptModule, Refuse, OrderDone,
           Predict, PredictDone, PredictFails, Start
<1>5. /\ listed' \subseteq Services /\ predict' \subseteq Services
      /\ module' \in Modules \cup {Default} /\ bad' \in BOOLEAN
      /\ seen' \in [Services -> Modes \cup {Unknown, NotAsked}]
  <2>1. ASSUME NEW m \in Modules, AcceptModule(m)
        PROVE  /\ listed' \subseteq Services /\ predict' \subseteq Services
               /\ module' \in Modules \cup {Default} /\ bad' \in BOOLEAN /\ seen' = seen
    <3>1. ToValidate(m) \subseteq Services /\ Restricted(ToValidate(m)) \subseteq Services
      BY ServicesType DEF Restricted
    <3> QED BY <2>1, <3>1 DEF AcceptModule, TypeOK
  <2>2. ASSUME NEW s \in Services, Predict(s)
        PROVE  /\ listed' \subseteq Services /\ predict' \subseteq Services
               /\ module' \in Modules \cup {Default} /\ bad' \in BOOLEAN
               /\ seen' \in [Services -> Modes \cup {Unknown, NotAsked}]
    <3>1. bad' \in BOOLEAN
      BY <2>2 DEF Predict, TypeOK
    <3>2. seen' \in [Services -> Modes \cup {Unknown, NotAsked}]
      <4>1. mode[s] \in Modes \cup {Unknown}
        BY DEF TypeOK
      <4> QED BY <2>2, <4>1 DEF Predict, TypeOK
    <3> QED BY <2>2, <3>1, <3>2 DEF Predict, TypeOK
  <2>3. ASSUME PredictDone
        PROVE  UNCHANGED predicting /\ listed' \subseteq Services
    <3>1. module \in Modules
      BY <2>3 DEF PredictDone, IInv, ValidatedInv
    <3>2. ToValidate(module) \subseteq Services
      BY <3>1, ServicesType
    <3> QED BY <2>3, <3>2 DEF PredictDone, TypeOK
  <2>4. CASE UNCHANGED <<listed, predicting>>
    BY <2>4 DEF predicting, TypeOK
  <2> QED BY <2>1, <2>2, <2>3, <2>4 DEF Next, vars, OrderModule, RefuseModule, Refuse, OrderDone,
           PredictFails, Start, OtherClient, predicting, TypeOK
<1>6. ignored' \subseteq Services
  <2>1. ASSUME Start PROVE ignored' \subseteq Services
    <3>1. sel.skip \subseteq Services /\ Listed("site") \cup Listed("opposite") \subseteq Services
      BY InputType DEF TypeOK
    <3> QED BY <2>1, <3>1 DEF Start, Ignored
  <2>2. CASE UNCHANGED ignored
    BY <2>2 DEF TypeOK
  <2> QED BY <2>1, <2>2 DEF Next, vars, OrderModule, RefuseModule, AcceptModule, Refuse, OrderDone,
           Predict, PredictDone, PredictFails, OtherClient
<1> QED BY <1>1, <1>2, <1>3, <1>4, <1>5, <1>6 DEF TypeOK

LEMMA Types == Spec => [](TypeOK /\ Known)
BY InitTypes, StepTypes, Invariance, PTL DEF Spec

\* The variables of the preparation keep their types, and no edge of a graph leaves
\* its module, for any lists of dependencies.
THEOREM TypeCorrect == Spec => []TypeOK
BY Types, PTL

----------------------------------------------------------------------------
(* What has passed validation, and what was looked at. *)

Passed == UNION {ToValidate(n) : n \in Modules \ todo}

AccountInv ==
  /\ pc = "order" => listed = {}
  /\ pc \in {"validate", "predict", "started"} => listed = Passed
  /\ pc = "started" => todo = {} /\ ignored = Ignored

\* The mode that was read leads into no forbidden state.
Looked(s) == seen[s] # NotAsked /\ Predicted(seen[s]) \notin Forbidden(s)

LookedAt(services) == \A s \in services : Looked(s)

LookedInv ==
  /\ pc \in {"validate", "started"} /\ cmd \in SiteCmds =>
       \A n \in Modules \ todo : LookedAt(Restricted(ToValidate(n)))
  /\ pc = "predict" =>
       bad \/ /\ \A n \in Modules \ todo : LookedAt(Restricted(ToValidate(n)))
              /\ LookedAt(Restricted(ToValidate(module)) \ predict)

LEMMA AccountInit == Init => AccountInv /\ LookedInv
BY DEF Init, AccountInv, LookedInv

LEMMA AccountStep == IInv /\ TypeOK /\ AccountInv /\ [Next]_vars => AccountInv'
<1> SUFFICES ASSUME IInv, TypeOK, AccountInv, [Next]_vars PROVE AccountInv'
  OBVIOUS
<1>1. ASSUME Kept, UNCHANGED globals PROVE \A n \in Modules : ToValidate(n)' = ToValidate(n)
  BY <1>1, KeptServices
<1>2. ASSUME UNCHANGED <<pc, todo, listed, ignored>>, Kept, UNCHANGED globals PROVE AccountInv'
  <2>1. Passed' = Passed /\ Ignored' = Ignored
    BY <1>1, <1>2 DEF Passed, Ignored, Kept, input, Listed
  <2> QED BY <1>2, <2>1 DEF AccountInv
<1>3. ASSUME NEW m \in Modules, OrderModule(m) PROVE AccountInv'
  BY <1>3 DEF OrderModule, AccountInv
<1>4. CASE OrderDone
  <2>1. pc' = "validate" /\ todo' = Modules /\ listed' = {}
    BY <1>4 DEF OrderDone, AccountInv
  <2>2. Passed' = {}
    BY <2>1 DEF Passed
  <2> QED BY <2>1, <2>2 DEF AccountInv
<1>5. CASE pc' = "refused"
  BY <1>5 DEF AccountInv
<1>6. ASSUME NEW m \in Modules, AcceptModule(m) PROVE AccountInv'
  <2>1. m \in todo /\ pc = "validate" /\ Kept /\ UNCHANGED globals
    BY <1>6 DEF AcceptModule, Kept
  <2>2. \A n \in Modules : ToValidate(n)' = ToValidate(n)
    BY <1>1, <2>1
  <2>3. CASE cmd \in SiteCmds
    <3>1. pc' = "predict" /\ UNCHANGED <<todo, listed>>
      BY <1>6, <2>3 DEF AcceptModule
    <3>2. Passed' = Passed
      BY <2>2, <3>1 DEF Passed
    <3> QED BY <2>1, <3>1, <3>2 DEF AccountInv
  <2>4. CASE cmd \notin SiteCmds
    <3>1. pc' = "validate" /\ todo' = todo \ {m} /\ listed' = listed \cup ToValidate(m)
      BY <1>6, <2>1, <2>4 DEF AcceptModule
    <3>2. Passed' = Passed \cup ToValidate(m)
      BY <2>2, <3>1 DEF Passed
    <3> QED BY <2>1, <3>1, <3>2 DEF AccountInv
  <2> QED BY <2>3, <2>4
<1>7. ASSUME NEW s \in Services, Predict(s) PROVE AccountInv'
  BY <1>2, <1>7 DEF Predict, Kept
<1>8. CASE PredictDone
  <2>1. /\ pc = "predict" /\ module \in Modules /\ Kept /\ UNCHANGED globals /\ pc' = "validate"
        /\ todo' = todo \ {module} /\ listed' = listed \cup ToValidate(module)
    BY <1>8 DEF PredictDone, Kept, IInv, ValidatedInv
  <2>2. Passed' = Passed \cup ToValidate(module)
    BY <1>1, <2>1 DEF Passed
  <2> QED BY <2>1, <2>2 DEF AccountInv
<1>9. CASE Start
  <2>1. /\ pc = "validate" /\ todo = {} /\ pc' = "started" /\ ignored' = Ignored
        /\ UNCHANGED <<todo, listed>> /\ Kept /\ UNCHANGED globals
    BY <1>9 DEF Start, Kept
  <2>2. Passed' = Passed /\ Ignored' = Ignored
    BY <1>1, <2>1 DEF Passed, Ignored, Kept, input, Listed
  <2> QED BY <2>1, <2>2 DEF AccountInv
<1>10. ASSUME NEW s \in Services, NEW m \in Modes, OtherClient(s, m) PROVE AccountInv'
  BY <1>2, <1>10 DEF OtherClient, Kept
<1>11. CASE UNCHANGED vars
  BY <1>2, <1>11 DEF vars, Kept
<1> QED BY <1>3, <1>4, <1>5, <1>6, <1>7, <1>8, <1>9, <1>10, <1>11
        DEF Next, RefuseModule, PredictFails, Refuse

LEMMA LookedStep == IInv /\ TypeOK /\ LookedInv /\ [Next]_vars => LookedInv'
<1> SUFFICES ASSUME IInv, TypeOK, LookedInv, [Next]_vars PROVE LookedInv'
  OBVIOUS
<1>1. ASSUME Kept, UNCHANGED globals
      PROVE  \A n \in Modules : Restricted(ToValidate(n))' = Restricted(ToValidate(n))
  BY <1>1, KeptServices DEF Restricted
<1>2. ASSUME Kept, UNCHANGED seen PROVE \A s : Looked(s)' = Looked(s)
  BY <1>2 DEF Looked, Predicted, Forbidden, Kept, input
<1>3. ASSUME UNCHANGED <<pc, todo, module, predict, bad, seen>>, Kept, UNCHANGED globals PROVE LookedInv'
  <2>1. pc = "predict" => module \in Modules
    BY DEF IInv, ValidatedInv
  <2> QED BY <1>1, <1>2, <1>3, <2>1 DEF LookedInv, LookedAt, Kept, input
<1>4. CASE pc' = "refused" \/ pc' = "order"
  BY <1>4 DEF LookedInv
<1>5. CASE OrderDone
  BY <1>5 DEF OrderDone, LookedInv
<1>6. ASSUME NEW m \in Modules, AcceptModule(m) PROVE LookedInv'
  <2>1. m \in todo /\ pc = "validate" /\ Kept /\ UNCHANGED globals /\ UNCHANGED <<seen, cmd>>
    BY <1>6 DEF AcceptModule, Kept, input
  <2>2. \A n \in Modules : Restricted(ToValidate(n))' = Restricted(ToValidate(n))
    BY <1>1, <2>1
  <2>3. CASE cmd \in SiteCmds
    <3>1. /\ pc' = "predict" /\ UNCHANGED todo /\ module' = m
          /\ predict' = Restricted(ToValidate(m))
      BY <1>6, <2>3 DEF AcceptModule
    <3>2. (Restricted(ToValidate(module)))' = predict'
      BY <2>2, <3>1
    <3>3. \A n \in Modules \ todo : LookedAt(Restricted(ToValidate(n)))
      BY <2>1, <2>3 DEF LookedInv
    <3> QED BY <1>2, <2>1, <2>2, <3>1, <3>2, <3>3 DEF LookedInv, LookedAt
  <2>4. CASE cmd \notin SiteCmds
    <3>1. pc' = "validate"
      BY <1>6, <2>1, <2>4 DEF AcceptModule
    <3> QED BY <2>1, <2>4, <3>1 DEF LookedInv
  <2> QED BY <2>3, <2>4
<1>7. ASSUME NEW s \in Services, Predict(s) PROVE LookedInv'
  <2>1. /\ pc = "predict" /\ s \in predict /\ predict' = predict \ {s} /\ UNCHANGED <<pc, todo, module>>
        /\ Kept /\ UNCHANGED globals /\ UNCHANGED cmd /\ module \in Modules
    BY <1>7 DEF Predict, Kept, input, IInv, ValidatedInv
  <2>2. \A n \in Modules : Restricted(ToValidate(n))' = Restricted(ToValidate(n))
    BY <1>1, <2>1
  <2>3. CASE bad'
    BY <2>1, <2>3 DEF LookedInv
  <2>4. CASE ~bad'
    <3>1. seen' = [seen EXCEPT ![s] = mode[s]] /\ ~bad /\ Predicted(mode[s]) \notin Forbidden(s)
      BY <1>7, <2>4 DEF Predict
    <3>2. mode[s] \in Modes \cup {Unknown} /\ seen \in [Services -> Modes \cup {Unknown, NotAsked}]
      BY DEF TypeOK
    <3>3. Looked(s)'
      BY <2>1, <3>1, <3>2 DEF Looked, Predicted, Forbidden, Modes, Unknown, NotAsked
    <3>4. \A t \in Services : Looked(t) => Looked(t)'
      <4> SUFFICES ASSUME NEW t \in Services, Looked(t), t # s PROVE Looked(t)'
        BY <3>3
      <4>1. seen'[t] = seen[t]
        BY <3>1, <3>2
      <4> QED BY <2>1, <4>1 DEF Looked, Predicted, Forbidden
    <3>5. \A n \in Modules : Restricted(ToValidate(n)) \subseteq Services
      <4>1. \A n \in Modules : graph[n].nodes \subseteq Services
        BY DEF TypeOK, Graphs
      <4>2. Running \subseteq Services
        BY CommandAssumption DEF Running, TypeOK
      <4> QED BY <4>1, <4>2 DEF Restricted, ToValidate
    <3>6. /\ \A n \in Modules \ todo : LookedAt(Restricted(ToValidate(n)))
          /\ LookedAt(Restricted(ToValidate(module)) \ predict)
      BY <2>1, <3>1 DEF LookedInv
    <3> QED BY <2>1, <2>2, <3>3, <3>4, <3>5, <3>6 DEF LookedInv, LookedAt
  <2> QED BY <2>3, <2>4
<1>8. CASE PredictDone
  <2>1. /\ pc = "predict" /\ module \in Modules /\ Kept /\ UNCHANGED globals /\ pc' = "validate"
        /\ todo' = todo \ {module} /\ UNCHANGED seen /\ ~bad /\ predict = {}
    BY <1>8 DEF PredictDone, Kept, IInv, ValidatedInv, predicting
  <2>2. /\ \A n \in Modules \ todo : LookedAt(Restricted(ToValidate(n)))
        /\ LookedAt(Restricted(ToValidate(module)))
    BY <2>1 DEF LookedInv
  <2> QED BY <1>1, <1>2, <2>1, <2>2 DEF LookedInv, LookedAt
<1>9. CASE Start
  <2>1. /\ pc = "validate" /\ pc' = "started" /\ UNCHANGED <<todo, seen, cmd>>
        /\ Kept /\ UNCHANGED globals
    BY <1>9 DEF Start, Kept, predicting, input
  <2> QED BY <1>1, <1>2, <2>1 DEF LookedInv, LookedAt
<1>10. ASSUME NEW s \in Services, NEW m \in Modes, OtherClient(s, m) PROVE LookedInv'
  BY <1>3, <1>10 DEF OtherClient, Kept, predicting
<1>11. CASE UNCHANGED vars
  BY <1>3, <1>11 DEF vars, Kept, predicting
<1> QED BY <1>4, <1>5, <1>6, <1>7, <1>8, <1>9, <1>10, <1>11
        DEF Next, OrderModule, RefuseModule, PredictFails, Refuse

LEMMA Accounts == Spec => [](AccountInv /\ LookedInv)
BY AccountInit, AccountStep, LookedStep, Types, Invariance, PTL DEF Spec

----------------------------------------------------------------------------
(* What a started procedure has been through. *)

LEMMA AvailableSites ==
  ASSUME TypeOK, Known
  PROVE  /\ Range(Available) \subseteq sm.up
         /\ sm.up = Sites => Range(Available) = Sites
         /\ sm.up # {} => Available[1] \in sm.up
         /\ DOMAIN Available \subseteq 1..2
<1> DEFINE other == IF FirstSite = "site" THEN "opposite" ELSE "site"
           ifUp(x) == IF x \in sm.up THEN <<x>> ELSE <<>>
<1>1. FirstSite \in Sites /\ other \in Sites /\ Sites = {FirstSite, other} /\ sm.up \subseteq Sites
  BY ClusterAssumption DEF Sites, TypeOK
<1>2. Available = ifUp(FirstSite) \o ifUp(other)
  BY DEF Available
<1> HIDE DEF other
<1>3. CASE FirstSite \in sm.up /\ other \in sm.up
  <2>1. Available = <<FirstSite>> \o <<other>>
    BY <1>2, <1>3
  <2>2. /\ <<FirstSite>> \o <<other>> \in Seq(Sites) /\ Len(<<FirstSite>> \o <<other>>) = 2
        /\ (<<FirstSite>> \o <<other>>)[1] = FirstSite /\ (<<FirstSite>> \o <<other>>)[2] = other
    <3>1. PICK a, b, S : a = <<FirstSite>> /\ b = <<other>> /\ S = Sites
      OBVIOUS
    <3>2. a \in Seq(S) /\ b \in Seq(S) /\ Len(a) = 1 /\ Len(b) = 1 /\ a[1] = FirstSite /\ b[1] = other
      BY <1>1, <3>1
    <3>3. /\ a \o b \in Seq(S) /\ Len(a \o b) = Len(a) + Len(b)
          /\ \A i \in 1 .. Len(a) + Len(b) : (a \o b)[i] = IF i <= Len(a) THEN a[i] ELSE b[i - Len(a)]
      BY <3>2, ConcatProperties, Zenon
    <3>4. Len(a \o b) = 2 /\ (a \o b)[1] = FirstSite /\ (a \o b)[2] = other
      BY <3>2, <3>3
    <3> QED BY <3>1, <3>3, <3>4
  <2>3. DOMAIN Available = 1..2 /\ Available[1] = FirstSite /\ Available[2] = other
    BY <2>1, <2>2, LenProperties
  <2> QED BY <1>1, <1>3, <2>3 DEF Range
<1>4. CASE FirstSite \in sm.up /\ other \notin sm.up
  <2>1. Available = <<FirstSite>>
    BY <1>2, <1>4
  <2> QED BY <1>1, <1>4, <2>1 DEF Range
<1>5. CASE FirstSite \notin sm.up /\ other \in sm.up
  <2>1. Available = <<other>>
    BY <1>2, <1>5
  <2> QED BY <1>1, <1>5, <2>1 DEF Range
<1>6. CASE FirstSite \notin sm.up /\ other \notin sm.up
  <2>1. Available = <<>>
    BY <1>2, <1>6
  <2> QED BY <1>1, <1>6, <2>1 DEF Range
<1> QED BY <1>3, <1>4, <1>5, <1>6

\* A started procedure: every module is ordered over the sites the command uses,
\* without a cycle, and was allowed.
LEMMA StartedModule ==
  ASSUME IInv, TypeOK, Known, pc = "started", cmd # "stop", NEW m \in Modules
  PROVE  /\ Allowed(m) /\ graph[m] # NoGraph
         /\ graph[m] = Order(UsedSites, m)
         /\ graph[m].nodes = Members(UsedSites, m)
         /\ Range(UsedSites) \subseteq sm.up /\ sm.up # {}
<1>1. Computed(m) /\ Allowed(m)
  BY DEF IInv, OrderedInv, ValidatedInv
<1>2. graph[m] # NoGraph /\ graph[m] = Order(UsedSites, m)
  BY <1>1 DEF Computed, Allowed, DepIssueAllowed, Ordering
<1>3. graph[m].nodes = Members(UsedSites, m)
  BY <1>2, OrderShape
<1>4. cmd \in SiteCmds \/ cmd = "move"
  BY InputType DEF TypeOK, DRCmds
<1>5. Range(UsedSites) \subseteq sm.up /\ sm.up # {}
  <2>1. CASE cmd \in SiteCmds
    <3>1. UsedSites = <<"site">> /\ "site" \in sm.up
      BY <1>1, <2>1 DEF UsedSites, DRCmds, SiteCmds, Allowed
    <3> QED BY <3>1 DEF Range
  <2>2. CASE cmd = "move"
    <3>1. UsedSites = Available /\ sm.up = Sites
      BY <1>1, <2>2 DEF UsedSites, DRCmds, Allowed
    <3> QED BY <3>1, AvailableSites DEF Sites
  <2> QED BY <1>4, <2>1, <2>2
<1> QED BY <1>1, <1>2, <1>3, <1>5

\* Where the modules are beyond doubt, whatever is processed was validated, though
\* the module it was validated with is the one the first site gives.
LEMMA ProcessedIsValidated ==
  ASSUME IInv, TypeOK, Known, pc = "started", cmd # "stop", Unambiguous,
         NEW m \in Modules, NEW s \in graph[m].nodes
  PROVE  \E n \in Modules : s \in ToValidate(n)
<1>1. CASE Running = {}
  BY <1>1 DEF ToValidate
<1>2. CASE Running # {}
  <2>1. PICK x \in sm.up : Belongs(x, s, m)
    BY StartedModule DEF Members
  <2>2. x \in Sites /\ s \in Listed(x) /\ sm.conf[x][s].module = m /\ s \in Running
    BY <1>2, <2>1, InputType DEF TypeOK, Belongs, Selected, Unambiguous
  <2>3. PICK y \in Sites : y = Available[1]
    BY StartedModule, AvailableSites, InputType DEF TypeOK
  <2>4. CASE s \in Listed(y)
    <3>1. sm.conf[y][s].module = m
      BY <2>2, <2>3, <2>4 DEF Unambiguous, Sites
    <3> QED BY <1>2, <2>2, <2>3, <2>4, <3>1 DEF ToValidate
  <2>5. CASE s \notin Listed(y)
    <3>1. s \in ToValidate(Default)
      BY <1>2, <2>2, <2>3, <2>5 DEF ToValidate
    <3> QED BY <3>1 DEF Unambiguous
  <2> QED BY <2>4, <2>5
<1> QED BY <1>1, <1>2

\* A per-site command leads no service into a state the configuration forbids, as
\* far as sm-client can tell: whatever is processed was looked at, and only another
\* client can have changed what was seen.
THEOREM NothingRestricted == Spec => []RestrictionsHold
<1>1. IInv /\ TypeOK /\ Known /\ AccountInv /\ LookedInv => RestrictionsHold
  <2> SUFFICES ASSUME IInv, TypeOK, Known, AccountInv, LookedInv,
                      pc = "started", cmd \in SiteCmds, Unambiguous,
                      NEW m \in Modules, NEW s \in graph[m].nodes, seen[s] \in {mode[s], NotAsked},
                      NEW r \in {s, "*"} \cap DOMAIN Restrictions
               PROVE  [x \in Sites |-> IF x = "site" THEN IF cmd = "return" THEN "standby" ELSE cmd
                                       ELSE mode[s]] \notin Restrictions[r]
    BY DEF RestrictionsHold
  <2>1. PICK n \in Modules : s \in ToValidate(n)
    BY ProcessedIsValidated DEF SiteCmds
  <2>2. s \in Restricted(ToValidate(n))
    BY <2>1 DEF Restricted
  <2>3. Looked(s)
    BY <2>2 DEF LookedInv, LookedAt, AccountInv
  <2>4. seen[s] = mode[s] /\ Predicted(mode[s]) \notin Restrictions[r]
    BY <2>3 DEF Looked, Forbidden
  <2> QED BY <2>4 DEF Predicted, Convert
<1> QED BY <1>1, Types, Invariance, Accounts, PTL

\* Without --run-services nothing a site lists is left out silently: it is in a graph
\* or among the ignored services, and in one of the two only.
THEOREM NothingForgotten == Spec => []EveryServiceAccounted
<1>1. IInv /\ TypeOK /\ Known /\ AccountInv => EveryServiceAccounted
  <2> SUFFICES ASSUME IInv, TypeOK, Known, AccountInv, pc = "started", sel.run = {}
               PROVE  LET processed == UNION {graph[m].nodes : m \in Modules}
                      IN /\ Listed("site") \cup Listed("opposite") \subseteq processed \cup ignored
                         /\ processed \cap ignored = {}
    BY DEF EveryServiceAccounted
  <2>1. listed = UNION {graph[m].nodes : m \in Modules} /\ ignored = Ignored
    BY DEF AccountInv, Passed, ToValidate, Running
  <2>2. ASSUME NEW m \in Modules, NEW s \in graph[m].nodes PROVE s \notin sel.skip
    <3>1. graph[m] = Order(OrderedSites(m), m)
      BY OrderingIsOrder DEF IInv, OrderedInv, Computed
    <3>2. graph[m] # NoGraph
      BY <2>2 DEF NoGraph
    <3>3. s \in Members(OrderedSites(m), m)
      BY <2>2, <3>1, <3>2, OrderShape
    <3> QED BY <3>3 DEF Members, Belongs, Selected
  <2> QED BY <2>1, <2>2 DEF Ignored
<1> QED BY <1>1, Types, Invariance, Accounts, PTL

----------------------------------------------------------------------------
(* Two sites that agree *)

LEMMA SingleBegin ==
  ASSUME NEW S, NEW l \in Seq(S), Len(l) <= 1, NEW d
  PROVE  (l # <<>> /\ Head(l) = d) <=> d \in Range(l)
<1>1. Len(l) \in Nat /\ DOMAIN l = 1..Len(l)
  BY LenProperties
<1>2. CASE Len(l) = 0
  <2>1. l = <<>> /\ DOMAIN l = {}
    BY <1>1, <1>2
  <2> QED BY <2>1 DEF Range
<1>3. CASE Len(l) = 1
  <2>1. l # <<>> /\ Head(l) = l[1] /\ DOMAIN l = {1}
    BY <1>1, <1>3
  <2> QED BY <2>1 DEF Range
<1> QED BY <1>1, <1>2, <1>3

Lists == {"after", "before"}

\* The list of a service that names one dependency at the most.
LEMMA ListOfOne ==
  ASSUME TypeOK, Known, SingleDeps, NEW x \in Sites, NEW s \in Listed(x), NEW list \in Lists, NEW d
  PROVE  sm.conf[x][s][list] # <<>> /\ Head(sm.conf[x][s][list]) = d <=> d \in Range(sm.conf[x][s][list])
<1>1. sm.conf[x][s] \in Confs
  BY InputType DEF TypeOK
<1>2. /\ sm.conf[x][s].after \in Seq(Names) /\ Len(sm.conf[x][s].after) <= 1
      /\ sm.conf[x][s].before \in Seq(Names) /\ Len(sm.conf[x][s].before) <= 1
  BY <1>1 DEF Confs, SingleDeps
<1>3. sm.conf[x][s][list] \in Seq(Names) /\ Len(sm.conf[x][s][list]) <= 1
  BY <1>2 DEF Lists
<1> QED BY <1>3, SingleBegin

LEMMA BeginsAtOne ==
  ASSUME TypeOK, Known, SingleDeps, NEW x \in Sites, NEW m, NEW s, NEW list \in Lists, NEW d
  PROVE  Begins(<<x>>, m, s, list, d) <=> Belongs(x, s, m) /\ d \in Range(sm.conf[x][s][list])
<1>1. DOMAIN <<x>> = {1} /\ <<x>>[1] = x
  OBVIOUS
<1>2. PICK sites : sites = <<x>>
  OBVIOUS
<1>3. Begins(sites, m, s, list, d) <=>
        Belongs(x, s, m) /\ sm.conf[x][s][list] # <<>> /\ Head(sm.conf[x][s][list]) = d
  BY <1>1, <1>2 DEF Begins
<1>4. Belongs(x, s, m) => s \in Listed(x)
  BY DEF Belongs
<1> QED BY <1>2, <1>3, <1>4, ListOfOne

\* Over two sites that give a service the same dependencies.
LEMMA BeginsAtBoth ==
  ASSUME TypeOK, Known, SingleDeps, sm.up = Sites, NEW m, NEW s, NEW list \in Lists, NEW d,
         \A x \in Sites : Belongs(x, s, m),
         \A x, y \in Sites : Range(sm.conf[x][s][list]) = Range(sm.conf[y][s][list])
  PROVE  \A x \in Sites : Begins(Available, m, s, list, d) <=> d \in Range(sm.conf[x][s][list])
<1>1. /\ Range(Available) = Sites /\ DOMAIN Available \subseteq 1..2
  BY AvailableSites
<1>2. \A i \in DOMAIN Available : Available[i] \in Sites
  BY <1>1 DEF Range
<1>3. \A x \in Sites : s \in Listed(x)
  BY DEF Belongs
<1>4. \A x \in Sites : sm.conf[x][s][list] # <<>> /\ Head(sm.conf[x][s][list]) = d
                        <=> d \in Range(sm.conf[x][s][list])
  BY <1>3, ListOfOne
<1> SUFFICES ASSUME NEW x \in Sites
             PROVE  Begins(Available, m, s, list, d) <=> d \in Range(sm.conf[x][s][list])
  OBVIOUS
<1>5. ASSUME Begins(Available, m, s, list, d) PROVE d \in Range(sm.conf[x][s][list])
  <2>1. PICK i \in DOMAIN Available :
          sm.conf[Available[i]][s][list] # <<>> /\ Head(sm.conf[Available[i]][s][list]) = d
    BY <1>5 DEF Begins
  <2> QED BY <1>2, <1>4, <2>1
<1>6. ASSUME d \in Range(sm.conf[x][s][list]) PROVE Begins(Available, m, s, list, d)
  <2>1. \A i \in DOMAIN Available :
          /\ Belongs(Available[i], s, m)
          /\ sm.conf[Available[i]][s][list] # <<>> /\ Head(sm.conf[Available[i]][s][list]) = d
    BY <1>2, <1>4, <1>6
  <2>2. 1 \in DOMAIN Available /\ \A j \in DOMAIN Available : ~(j < 1)
    <3>1. DOMAIN Available # {} /\ "site" \in Sites
      BY <1>1 DEF Range, Sites
    <3>2. Available[1] \in Sites
      BY <3>1, AvailableSites
    <3>3. Len(Available) \in Nat /\ DOMAIN Available = 1..Len(Available)
      BY LenProperties DEF Available
    <3> QED BY <1>1, <3>1, <3>3
  <2> QED BY <2>1, <2>2 DEF Begins
<1> QED BY <1>5, <1>6

\* A switchover that is started runs in one order wherever it is looked at from: both
\* sites list every service of it, in the same module, with the same dependencies and
\* the same first mode, so the graph made from both is the graph of either.
THEOREM SitesAgree == Spec => []SwitchoverAgrees
<1>1. IInv /\ TypeOK /\ Known => SwitchoverAgrees
  <2> SUFFICES ASSUME IInv, TypeOK, Known, pc = "started", cmd = "move", Unambiguous, SingleDeps,
                      NEW m \in Modules, NEW x \in Sites
               PROVE  /\ graph[m] = Order(<<x>>, m)
                      /\ \A s \in graph[m].nodes : sm.conf[x][s].sequence = sm.conf["site"][s].sequence
    BY DEF SwitchoverAgrees
  <2>1. /\ \A n \in Modules : Allowed(n) /\ graph[m] # NoGraph
        /\ graph[m] = Order(UsedSites, m) /\ graph[m].nodes = Members(UsedSites, m)
    BY StartedModule
  <2>2. /\ sm.up = Sites /\ UsedSites = Available
        /\ \A n \in Modules : /\ OnSites(ToValidate(n), Sites) /\ DepsConsistent(ToValidate(n))
                             /\ SequenceConsistent(ToValidate(n))
    BY <2>1 DEF Allowed, UsedSites, DRCmds
  <2>3. Range(Available) = Sites /\ "site" \in Sites
    BY <2>2, AvailableSites DEF Sites
  <2>4. ASSUME NEW s \in Members(Available, m)
        PROVE  \A y, z \in Sites :
                 /\ Belongs(y, s, m)
                 /\ \A list \in Lists : Range(sm.conf[y][s][list]) = Range(sm.conf[z][s][list])
                 /\ sm.conf[y][s].sequence = sm.conf[z][s].sequence
    <3>1. PICK n \in Modules : s \in ToValidate(n)
      BY <2>1, <2>2, <2>4, ProcessedIsValidated
    <3>2. \A y \in Sites : s \in Listed(y)
      BY <2>2, <3>1 DEF OnSites
    <3>3. s \in BothList(ToValidate(n))
      BY <2>2, <3>1, <3>2 DEF BothList
    <3>4. \A y, z \in Sites :
            /\ Range(sm.conf[y][s].after) = Range(sm.conf[z][s].after)
            /\ Range(sm.conf[y][s].before) = Range(sm.conf[z][s].before)
            /\ sm.conf[y][s].sequence = sm.conf[z][s].sequence
      BY <2>2, <3>3 DEF DepsConsistent, SequenceConsistent
    <3>5. PICK w \in Sites : Belongs(w, s, m)
      BY <2>3, <2>4 DEF Members
    <3>6. \A y \in Sites : sm.conf[y][s].module = sm.conf[w][s].module
      BY <3>2, <3>5 DEF Unambiguous, Sites
    <3>7. \A y \in Sites : Belongs(y, s, m)
      BY <3>2, <3>5, <3>6 DEF Belongs
    <3> QED BY <3>4, <3>7 DEF Lists
  <2>5. Members(<<x>>, m) = Members(Available, m)
    <3>1. Range(<<x>>) = {x}
      BY DEF Range
    <3> QED BY <2>3, <2>4, <3>1 DEF Members
  <2>6. ASSUME NEW s \in Members(Available, m), NEW list \in Lists, NEW d
        PROVE  Begins(Available, m, s, list, d) <=> Begins(<<x>>, m, s, list, d)
    <3>0. /\ \A y \in Sites : Belongs(y, s, m)
          /\ \A y, z \in Sites : Range(sm.conf[y][s][list]) = Range(sm.conf[z][s][list])
      BY <2>4, <2>6
    <3>1. Begins(Available, m, s, list, d) <=> d \in Range(sm.conf[x][s][list])
      BY <2>2, <2>6, <3>0, BeginsAtBoth, Zenon
    <3>2. Begins(<<x>>, m, s, list, d) <=> d \in Range(sm.conf[x][s][list])
      BY <2>4, <2>6, BeginsAtOne
    <3> QED BY <3>1, <3>2
  <2>7. Edges(<<x>>, m) = Edges(Available, m)
    <3>1. "after" \in Lists /\ "before" \in Lists
      BY DEF Lists
    <3>2. \A s, t \in Members(Available, m) :
            /\ Begins(Available, m, s, "after", t) <=> Begins(<<x>>, m, s, "after", t)
            /\ Begins(Available, m, s, "before", t) <=> Begins(<<x>>, m, s, "before", t)
      BY <2>6, <3>1
    <3> QED BY <2>5, <3>2 DEF Edges
  <2>8. graph[m] = Order(<<x>>, m)
    BY <2>1, <2>2, <2>5, <2>7 DEF Order
  <2> QED BY <2>1, <2>2, <2>3, <2>4, <2>8
<1> QED BY <1>1, Types, Invariance, PTL
================================================================================
