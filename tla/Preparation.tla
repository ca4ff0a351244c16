------------------------------ MODULE Preparation ------------------------------
(***************************************************************************)
(* What sm-client does between reading the state of the cluster and the    *)
(* first command to a service: run (sm-client) orders every module with    *)
(* make_ordered_services_to_process (prepare.py), falls back to one site   *)
(* for a failover, and lets validate_operation (validation.py) refuse the  *)
(* command.  The graphs of a started procedure are those DRProcedure runs. *)
(*                                                                         *)
(* Sites are named relative to the command line, as in DRProcedure.  The   *)
(* read-only commands, which start nothing, are left out.                  *)
(***************************************************************************)
EXTENDS Naturals, Sequences, Functions

CONSTANTS
  Services,    \* names of services a site may list
  Ghosts,      \* names found in dependencies only
  Modules,     \* the modules of the flow
  OtherModules,\* modules of services outside the flow
  PartOf,      \* <<m, n>>: the name of module m is a substring of n
  FirstSite,   \* the site the configuration lists first
  Clusters,    \* the answers of sm_get_cluster_state: [up, conf]
  Cmds,        \* the commands the operator may give
  Selections,  \* --run-services and --skip-services: [run, skip]
  Restrictions,\* the restrictions of the configuration, by service or "*"
  InitModes,   \* modes of the services on the opposite site
  MaxMoves     \* bound: mode changes by another client meanwhile

Sites == {"site", "opposite"}
Modes == {"active", "standby", "disable"}
SiteCmds == {"active", "standby", "return", "disable"}
DRCmds == {"move", "stop"}
Unknown == "--"    \* ServiceDRStatus.mode when the answer has none of the modes
NotAsked == "not asked"
Default == "stateful"
NoGraph == [nodes |-> {}, edges |-> {}, cyclic |-> TRUE]
Names == Services \cup Ghosts

Confs == [module: Modules \cup OtherModules, after: Seq(Names), before: Seq(Names),
          sequence: {"standby", "active"}]

ASSUME ClusterAssumption ==
  /\ Services \cap Ghosts = {}
  /\ \A c \in Clusters :
       /\ c.up \subseteq Sites
       /\ \A x \in Sites :
            /\ DOMAIN c.conf[x] \subseteq Services
            /\ \A s \in DOMAIN c.conf[x] : c.conf[x][s] \in Confs
            /\ x \notin c.up => DOMAIN c.conf[x] = {}
  /\ FirstSite \in Sites

ASSUME CommandAssumption ==
  /\ Cmds \subseteq SiteCmds \cup DRCmds
  /\ Selections \subseteq [run: SUBSET Services, skip: SUBSET Services]
  /\ DOMAIN Restrictions \subseteq Services \cup {"*"}
  /\ \A s \in DOMAIN Restrictions : Restrictions[s] \subseteq [Sites -> Modes]
  /\ InitModes \subseteq [Services -> Modes \cup {Unknown}]
  /\ MaxMoves \in Nat
  /\ \A m \in Modules : <<m, m>> \in PartOf

VARIABLES
  cmd, sel,              \* the command line
  sm,                    \* sm_dict: the sites that answered, what they listed
  mode, moves,           \* live modes on the opposite site, changes made to them
  pc, todo,              \* position of run, modules left in the loop
  graph, issue,          \* sm_dict.globals[m]: ts, deps_issue
  listed,                \* service_dep_ordered: the services that passed validation
  module, predict, seen, \* check_state_restrictions: module, services left, modes read
  bad,                   \* not state_is_valid
  ignored                \* settings.ignored_services once validation is over

input == <<cmd, sel, sm>>
world == <<mode, moves>>
globals == <<graph, issue>>
predicting == <<module, predict, seen, bad>>
vars == <<input, world, pc, todo, globals, listed, predicting, ignored>>

----------------------------------------------------------------------------
(* make_ordered_services_to_process *)

Listed(x) == DOMAIN sm.conf[x]
\* get_available_sites: in the order of the configuration.
Available ==
  LET ifUp(x) == IF x \in sm.up THEN <<x>> ELSE <<>>
  IN ifUp(FirstSite) \o ifUp(IF FirstSite = "site" THEN "opposite" ELSE "site")
UsedSites == IF cmd \in DRCmds THEN Available ELSE <<"site">>

\* services given to run: --run-services without --skip-services
Running == sel.run \ sel.skip
Selected(s) == (Running = {} \/ s \in Running) /\ s \notin sel.skip
Belongs(x, s, m) == s \in Listed(x) /\ <<sm.conf[x][s].module, m>> \in PartOf /\ Selected(s)

Members(sites, m) == {s \in Services : \E x \in Range(sites) : Belongs(x, s, m)}

\* The dependencies of s, put together in the order of the sites: what is among
\* them, and what they begin with.
Deps(sites, m, s, list) ==
  UNION {Range(sm.conf[x][s][list]) : x \in {y \in Range(sites) : Belongs(y, s, m)}}
Begins(sites, m, s, list, d) ==
  LET given(i) == Belongs(sites[i], s, m) /\ sm.conf[sites[i]][s][list] # <<>>
  IN \E i \in DOMAIN sites :
       /\ given(i) /\ Head(sm.conf[sites[i]][s][list]) = d
       /\ \A j \in DOMAIN sites : j < i => ~ given(j)

\* mutant: a dependency no site lists becomes an edge
Edges_Unchecked(sites, m) ==
  {e \in Names \X Members(sites, m) : Begins(sites, m, e[2], "after", e[1])}

\* build_after_before_graph: only the first entry of each list counts.
Edges(sites, m) ==
  LET nodes == Members(sites, m)
  IN {e \in nodes \X nodes : \/ Begins(sites, m, e[2], "after", e[1])
                             \/ Begins(sites, m, e[1], "before", e[2])}

\* CycleError of graphlib: a set of nodes that wait for one another.
Cyclic(nodes, edges) ==
  \E N \in (SUBSET nodes) \ {{}} : \A n \in N : \E p \in N : <<p, n>> \in edges

Order(sites, m) ==
  LET nodes == Members(sites, m)
      edges == Edges(sites, m)
  IN IF Cyclic(nodes, edges) THEN NoGraph
     ELSE [nodes |-> nodes, edges |-> edges, cyclic |-> FALSE]

\* after_before_check: some dependency is not among the services to process.
WrongDeps(sites, m) ==
  \E s \in Members(sites, m) :
    ~ Deps(sites, m, s, "after") \cup Deps(sites, m, s, "before") \subseteq Members(sites, m)

----------------------------------------------------------------------------
(* validation.py *)

\* validate_operation: the services of module m that are validated.
ToValidate(m) ==
  IF Running = {} THEN graph[m].nodes
  ELSE LET moduleOf(s) == IF s \in Listed(Available[1])
                          THEN sm.conf[Available[1]][s].module ELSE Default
       IN {s \in Running : moduleOf(s) = m}

OnSites(services, sites) == \A x \in sites : services \subseteq Listed(x)

\* mutant: the order is not required to exist
DepIssueAllowed_Unordered(m) == issue[m] => cmd = "stop"
\* check_dep_issue
DepIssueAllowed(m) ==
  issue[m] => cmd = "stop" /\ graph[m] # NoGraph /\ graph[m].nodes # {}

BothList(services) == {s \in services : \A x \in sm.up : s \in Listed(x)}
\* mutant: differing dependencies are only warned about
DepsConsistent_Warned(services) == services \subseteq Services
\* check_deps_consistency
DepsConsistent(services) ==
  \A s \in BothList(services), x, y \in sm.up :
    /\ Range(sm.conf[x][s].after) = Range(sm.conf[y][s].after)
    /\ Range(sm.conf[x][s].before) = Range(sm.conf[y][s].before)
\* check_sequence_consistency
SequenceConsistent(services) ==
  \A s \in BothList(services), x, y \in sm.up : sm.conf[x][s].sequence = sm.conf[y][s].sequence

\* What validate_stop_operation, validate_move_operation and
\* validate_sites_operation check before the state restrictions.
Allowed(m) ==
  LET services == ToValidate(m)
  IN /\ DepIssueAllowed(m)
     /\ cmd = "stop" => "opposite" \in sm.up
     /\ cmd = "move" => /\ sm.up = Sites
                        /\ OnSites(services, Sites)
                        /\ DepsConsistent(services)
                        /\ SequenceConsistent(services)
     /\ cmd \in SiteCmds => "site" \in sm.up /\ OnSites(services, {"site"})

Convert_Raw(c) == c                                 \* mutant: return is no mode
Convert(c) == IF c = "return" THEN "standby" ELSE c

\* The services check_state_restrictions looks at, and the states it forbids.
Restricted(services) ==
  IF "*" \in DOMAIN Restrictions THEN services ELSE services \cap DOMAIN Restrictions
Forbidden(s) ==
  UNION {Restrictions[r] : r \in {s, "*"} \cap DOMAIN Restrictions}
Predicted(m) == [x \in Sites |-> IF x = "site" THEN Convert(cmd) ELSE m]

----------------------------------------------------------------------------
Init ==
  /\ cmd \in Cmds /\ sel \in Selections /\ sm \in Clusters
  /\ mode \in InitModes /\ moves = 0
  /\ pc = "order" /\ todo = Modules
  /\ graph = [m \in Modules |-> NoGraph] /\ issue = [m \in Modules |-> FALSE]
  /\ listed = {} /\ ignored = {}
  /\ module = Default /\ predict = {} /\ bad = FALSE
  /\ seen = [s \in Services |-> NotAsked]

\* mutant: no second attempt for a failover
Ordering_Once(m) == Order(UsedSites, m)
\* The order of a module, over the opposite site alone when the available
\* sites together have a cycle and the command is a failover.
Ordering(m) ==
  IF Order(UsedSites, m) = NoGraph /\ cmd = "stop"
  THEN Order(<<"opposite">>, m) ELSE Order(UsedSites, m)
OrderedSites(m) ==
  IF Order(UsedSites, m) = NoGraph /\ cmd = "stop" THEN <<"opposite">> ELSE UsedSites

OrderModule(m) ==
  /\ pc = "order" /\ m \in todo
  /\ graph' = [graph EXCEPT ![m] = Ordering(m)]
  /\ issue' = [issue EXCEPT ![m] = Ordering(m) = NoGraph \/ WrongDeps(OrderedSites(m), m)]
  /\ todo' = todo \ {m}
  /\ UNCHANGED <<input, world, pc, listed, predicting, ignored>>

OrderDone ==
  /\ pc = "order" /\ todo = {}
  /\ pc' = "validate" /\ todo' = Modules
  /\ UNCHANGED <<input, world, globals, listed, predicting, ignored>>

Refuse ==
  /\ pc' = "refused"
  /\ UNCHANGED <<input, world, todo, globals, listed, predicting, ignored>>

\* With --run-services and no site available validate_operation raises.
RefuseModule(m) ==
  /\ pc = "validate" /\ m \in todo
  /\ (Running # {} /\ sm.up = {}) \/ ~ Allowed(m)
  /\ Refuse

AcceptModule(m) ==
  /\ pc = "validate" /\ m \in todo
  /\ (Running # {} => sm.up # {}) /\ Allowed(m)
  /\ IF cmd \in SiteCmds
     THEN /\ pc' = "predict" /\ module' = m /\ bad' = FALSE
          /\ predict' = Restricted(ToValidate(m))
          /\ UNCHANGED <<todo, listed>>
     ELSE /\ todo' = todo \ {m} /\ listed' = listed \cup ToValidate(m)
          /\ UNCHANGED <<pc, module, bad, predict>>
  /\ UNCHANGED <<input, world, globals, seen, ignored>>

\* The status of s on the opposite site: it may not answer, not know s, or
\* answer with no mode, which is compared with "---" and passes.
Predict(s) ==
  /\ pc = "predict" /\ s \in predict
  /\ predict' = predict \ {s}
  /\ \/ bad' = TRUE /\ seen' = seen
     \/ /\ "opposite" \in sm.up /\ s \in Listed("opposite")
        /\ seen' = [seen EXCEPT ![s] = mode[s]]
        /\ bad' = (bad \/ Predicted(mode[s]) \in Forbidden(s))
  /\ UNCHANGED <<input, world, pc, todo, globals, listed, module, ignored>>

PredictDone ==
  /\ pc = "predict" /\ predict = {} /\ ~ bad
  /\ pc' = "validate" /\ todo' = todo \ {module} /\ listed' = listed \cup ToValidate(module)
  /\ UNCHANGED <<input, world, globals, predicting, ignored>>

PredictFails ==
  /\ pc = "predict" /\ predict = {} /\ bad
  /\ Refuse

\* mutant: only the services of the site of the command line
Ignored_HereOnly == sel.skip \cup (Listed("site") \ listed)
\* make_ignored_services
Ignored == sel.skip \cup ((Listed("site") \cup Listed("opposite")) \ listed)

Start ==
  /\ pc = "validate" /\ todo = {}
  /\ pc' = "started" /\ ignored' = Ignored
  /\ UNCHANGED <<input, world, todo, globals, listed, predicting>>

\* Another client of the opposite site commands a service meanwhile; only the
\* per-site commands look at the modes.
OtherClient(s, m) ==
  /\ cmd \in SiteCmds
  /\ moves < MaxMoves /\ pc \in {"validate", "predict"}
  /\ "opposite" \in sm.up /\ s \in Listed("opposite") /\ m # mode[s]
  /\ mode' = [mode EXCEPT ![s] = m] /\ moves' = moves + 1
  /\ UNCHANGED <<input, pc, todo, globals, listed, predicting, ignored>>

Next ==
  \/ \E m \in Modules : OrderModule(m) \/ RefuseModule(m) \/ AcceptModule(m)
  \/ OrderDone
  \/ \E s \in Services : Predict(s)
  \/ PredictDone \/ PredictFails
  \/ Start
  \/ \E s \in Services, m \in Modes : OtherClient(s, m)

Spec == Init /\ [][Next]_vars

----------------------------------------------------------------------------
(* Properties *)

Graphs == [nodes: SUBSET Services, edges: SUBSET (Services \X Services), cyclic: BOOLEAN]

\* The types of the variables; an edge joins two services of the module.
TypeOK ==
  /\ cmd \in Cmds /\ sel \in Selections
  /\ sm.up \subseteq Sites /\ Listed("site") \cup Listed("opposite") \subseteq Services
  /\ mode \in [Services -> Modes \cup {Unknown}] /\ moves \in 0..MaxMoves
  /\ pc \in {"order", "validate", "predict", "started", "refused"}
  /\ todo \subseteq Modules /\ module \in Modules \cup {Default}
  /\ graph \in [Modules -> Graphs] /\ issue \in [Modules -> BOOLEAN]
  /\ \A m \in Modules : graph[m].edges \subseteq graph[m].nodes \X graph[m].nodes
  /\ listed \subseteq Services /\ predict \subseteq Services /\ ignored \subseteq Services
  /\ seen \in [Services -> Modes \cup {Unknown, NotAsked}] /\ bad \in BOOLEAN

\* The engine is started only on graphs it can finish: in every module some
\* service of any set of unfinished ones waits for none of the others.
GraphsRunnable ==
  pc = "started" =>
    \A m \in Modules : ~ graph[m].cyclic /\ ~ Cyclic(graph[m].nodes, graph[m].edges)

\* A failover is never refused for what the failed site says: if the surviving
\* site answered and its own services can be ordered, the procedure starts.
StopSurvives ==
  pc = "refused" /\ cmd = "stop" =>
    \/ "opposite" \notin sm.up
    \/ \E m \in Modules : Order(<<"opposite">>, m) = NoGraph

\* The module of a service is beyond doubt: both sites give it the same one, no
\* name of a module is part of another's, and the flow has the default module.
Unambiguous ==
  /\ \A s \in Listed("site") \cap Listed("opposite") :
       sm.conf["site"][s].module = sm.conf["opposite"][s].module
  /\ \A e \in PartOf : e[1] = e[2]
  /\ Default \in Modules

\* No service names more than one dependency in a list.
SingleDeps ==
  \A x \in Sites : \A s \in Listed(x) :
    Len(sm.conf[x][s].after) <= 1 /\ Len(sm.conf[x][s].before) <= 1

\* A switchover runs in an order both sites agree on: with at most one entry in
\* each list, the graph of every module is the one either site has by itself,
\* and both sites begin every service with the same mode.
SwitchoverAgrees ==
  pc = "started" /\ cmd = "move" /\ Unambiguous /\ SingleDeps =>
    \A m \in Modules, x \in Sites :
      /\ graph[m] = Order(<<x>>, m)
      /\ \A s \in graph[m].nodes : sm.conf[x][s].sequence = sm.conf["site"][s].sequence

\* A per-site command that is started leads no service with a known mode into a
\* restricted state, unless another client has moved it since it was looked at.
RestrictionsHold ==
  pc = "started" /\ cmd \in SiteCmds /\ Unambiguous =>
    \A s \in UNION {graph[m].nodes : m \in Modules} :
      LET target == IF cmd = "return" THEN "standby" ELSE cmd
          final == [x \in Sites |-> IF x = "site" THEN target ELSE mode[s]]
      IN seen[s] \in {mode[s], NotAsked} =>
           \A r \in {s, "*"} \cap DOMAIN Restrictions : final \notin Restrictions[r]

\* Without --run-services every service an available site lists is either in the
\* graph of a module or reported as ignored, and none is both.
EveryServiceAccounted ==
  pc = "started" /\ sel.run = {} =>
    LET processed == UNION {graph[m].nodes : m \in Modules}
    IN /\ Listed("site") \cup Listed("opposite") \subseteq processed \cup ignored
       /\ processed \cap ignored = {}

\* What the documentation says of after: every service in the list of a service
\* of the same module is done before it starts.
Precedes(g, d, s) ==
  \A N \in SUBSET g.nodes :
    d \in N /\ (\A e \in g.edges : e[1] \in N => e[2] \in N) => s \in N
EveryDependencyOrders ==
  pc = "started" =>
    \A m \in Modules, x \in Range(UsedSites) :
      \A s \in graph[m].nodes \cap Listed(x) :
        \A d \in Range(sm.conf[x][s].after) \cap graph[m].nodes : Precedes(graph[m], d, s)
================================================================================
