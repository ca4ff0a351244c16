----------------------------- MODULE ServicePhase -----------------------------
(***************************************************************************)
(* What the procedure engine assumes of one phase: one command for one     *)
(* service on one site, without requests, polls or site-manager.  The      *)
(* thread actions of DRProcedure are the steps of this specification.      *)
(***************************************************************************)
CONSTANT Modes

VARIABLES
  target,    \* the mode the phase asks for
  excused,   \* --force, a health tolerated on a standby site, a conflicting command
  outcome,   \* "open", then "ok", "failed" or "dead"
  mode,      \* the mode of the service
  pending,   \* the service has yet to apply or to drop the request
  other,     \* the mode it has yet to take from an earlier command, or "none"
  exists     \* the custom resource is there

vars == <<target, excused, outcome, mode, pending, other, exists>>

Init ==
  /\ target \in Modes /\ excused \in BOOLEAN
  /\ outcome = "open" /\ mode \in Modes /\ pending = FALSE
  /\ other \in Modes \cup {"none"} /\ exists = TRUE

Request ==
  /\ outcome = "open" /\ exists
  /\ pending' = TRUE
  /\ UNCHANGED <<target, excused, outcome, mode, other, exists>>

Apply ==
  /\ pending
  /\ mode' = target
  /\ pending' = FALSE
  /\ UNCHANGED <<target, excused, outcome, other, exists>>

Fail ==
  /\ pending
  /\ pending' = FALSE
  /\ UNCHANGED <<target, excused, outcome, mode, other, exists>>

\* The earlier command ends, with its mode or without.
Overtake ==
  /\ other # "none" /\ other' = "none"
  /\ mode' \in {mode, other}
  /\ UNCHANGED <<target, excused, outcome, pending, exists>>

\* The service itself stays as it is; only a request not yet looked up is lost.
Remove ==
  /\ exists' = FALSE
  /\ pending' \in {pending, FALSE}
  /\ UNCHANGED <<target, excused, outcome, mode, other>>

\* Success is reported for the mode the service is in at that moment, or for a
\* resource that is gone; a refusal drops the request as well.
Close(v) ==
  /\ outcome = "open"
  /\ v = "ok" => excused \/ mode = target \/ ~exists
  /\ outcome' = v
  /\ pending' \in {pending, FALSE}
  /\ UNCHANGED <<target, excused, mode, other, exists>>

Next ==
  \/ Request \/ Apply \/ Fail \/ Overtake \/ Remove
  \/ \E v \in {"ok", "failed", "dead"} : Close(v)

Spec == Init /\ [][Next]_vars
=============================================================================
