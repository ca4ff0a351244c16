---------------------------- MODULE MCDRProcedure ----------------------------
(***************************************************************************)
(* Small instances of DRProcedure.                                         *)
(***************************************************************************)
EXTENDS DRProcedure

\* The modes of a cluster whose services are all in the same modes.
ClusterModes(here, there) ==
  [x \in Sites |-> [s \in Services |-> IF x = "site" THEN here ELSE there]]

\* No custom resource is deleted.
NoRemovable == [x \in Sites |-> {}]

----------------------------------------------------------------------------
(* One module: app waits for db, cache is independent and active first. *)

GraphServices == {"db", "app", "cache"}
GraphModules == {"stateful"}
GraphModuleOf == [s \in GraphServices |-> "stateful"]
GraphAfter == [s \in GraphServices |-> IF s = "app" THEN {"db"} ELSE {}]
GraphSequence ==
  [x \in Sites |-> [s \in GraphServices |-> IF s = "cache" THEN "active" ELSE "standby"]]
GraphFlow == <<[module |-> "stateful", states |-> "all"]>>
GraphClusters == {[up |-> Sites, located |-> [x \in Sites |-> GraphServices], cyclic |-> {}]}
GraphModes == {ClusterModes("standby", "active")}

----------------------------------------------------------------------------
(* The flow of the documentation: the custom module is passivated before   *)
(* and activated after the stateful one.                                   *)

FlowServices == {"db", "app", "web"}
FlowModules == {"stateful", "custom_module"}
FlowModuleOf == [s \in FlowServices |-> IF s = "web" THEN "custom_module" ELSE "stateful"]
FlowAfter == [s \in FlowServices |-> IF s = "app" THEN {"db"} ELSE {}]
FlowSequence ==
  [x \in Sites |-> [s \in FlowServices |-> IF s = "web" THEN "active" ELSE "standby"]]
FlowFlow ==
  << [module |-> "custom_module", states |-> "passive"],
     [module |-> "stateful", states |-> "all"],
     [module |-> "custom_module", states |-> "active"] >>
\* Both sites answer; or the site given to the command is down and lists nothing; or
\* it alone lists app, the other db, and their lists together make a cycle.
FlowClusters ==
  { [up |-> Sites, located |-> [x \in Sites |-> FlowServices], cyclic |-> {}],
    [up |-> {"opposite"}, cyclic |-> {},
     located |-> [x \in Sites |-> IF x = "site" THEN {} ELSE FlowServices]],
    [up |-> Sites, cyclic |-> {"stateful"},
     located |-> [x \in Sites |-> {"web", IF x = "site" THEN "app" ELSE "db"}]] }
FlowModes ==
  { ClusterModes("standby", "active"), ClusterModes("active", "standby") }
\* The resource of web may be deleted on the site that gives it up in a switchover
\* and takes it over in a failover.
FlowRemovable == [x \in Sites |-> IF x = "opposite" THEN {"web"} ELSE {}]

\* Both sites answer, and the opposite one alone lists web.
OneSidedClusters ==
  { [up |-> Sites, cyclic |-> {},
     located |-> [x \in Sites |-> IF x = "site" THEN {"db", "app"} ELSE FlowServices]] }
=============================================================================
