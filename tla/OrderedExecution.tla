--------------------------- MODULE OrderedExecution ---------------------------
(***************************************************************************)
(* What sm-client promises about the processing of modules, without        *)
(* threads, queues or sites: a module is a set of services with            *)
(* dependencies; a service runs only after all its dependencies succeeded, *)
(* is skipped only if one of them failed or was skipped, and the next      *)
(* module is begun only when the current one is complete without failure.  *)
(***************************************************************************)
CONSTANTS Services, After

VARIABLES
  nodes,   \* the services of the module being processed
  st,      \* the state of every service in that module
  clean    \* no completed module had a failure

vars == <<nodes, st, clean>>

Bad == {"failed", "skipped"}
Settled(s) == st[s] \in {"ok"} \cup Bad
Preds(s) == After[s] \cap nodes

Init ==
  /\ nodes = {} /\ clean = TRUE
  /\ st = [s \in Services |-> "waiting"]

Begin ==
  /\ nodes = {} /\ clean
  /\ nodes' \in SUBSET Services
  /\ st' = [s \in Services |-> "waiting"]
  /\ UNCHANGED clean

Start(s) ==
  /\ s \in nodes /\ st[s] = "waiting"
  /\ \A p \in Preds(s) : st[p] = "ok"
  /\ st' = [st EXCEPT ![s] = "running"]
  /\ UNCHANGED <<nodes, clean>>

Settle(s) ==
  /\ st[s] = "running"
  /\ \E v \in {"ok", "failed"} : st' = [st EXCEPT ![s] = v]
  /\ UNCHANGED <<nodes, clean>>

Skip(s) ==
  /\ s \in nodes /\ st[s] = "waiting"
  /\ \E p \in Preds(s) : st[p] \in Bad
  /\ st' = [st EXCEPT ![s] = "skipped"]
  /\ UNCHANGED <<nodes, clean>>

Complete ==
  /\ \A s \in nodes : Settled(s)
  /\ nodes' = {}
  /\ clean' = \A s \in nodes : st[s] = "ok"
  /\ st' = [s \in Services |-> "waiting"]

Next ==
  \/ Begin \/ Complete
  \/ \E s \in Services : Start(s) \/ Settle(s) \/ Skip(s)

Spec == Init /\ [][Next]_vars
=============================================================================
