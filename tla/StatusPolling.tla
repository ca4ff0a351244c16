----------------------------- MODULE StatusPolling -----------------------------
(***************************************************************************)
(* One phase of one service in full: sm-client posts the new mode to       *)
(* site-manager and polls the status, site-manager sends the request to    *)
(* the dr-managed service and reads its fields back, and the service       *)
(* writes those fields one by one (sm-dummy is the reference service).     *)
(***************************************************************************)
EXTENDS Naturals, Sequences

CONSTANTS
  Targets,       \* the modes that may be requested
  Forces,        \* the values of --force
  AllowedLists,  \* the values of allowedStandbyStateList
  InitModes,     \* the modes the service may start in
  InitStatuses,  \* the statuses it may start with
  InitHealths,   \* the healths the service may start with
  Healths,       \* the healths the service may settle in after a procedure
  MaxPolls,      \* most polls that fit into the polling timeout
  Unnamed,       \* whether site-manager may answer without naming the service
  Removable      \* whether the custom resource may be deleted meanwhile

Modes == {"active", "standby", "disable"}
Retries == 3

ASSUME PollingAssumption ==
  /\ Targets \subseteq Modes /\ InitModes \subseteq Modes
  /\ InitStatuses \subseteq {"done", "failed", "running"}
  /\ Forces \subseteq BOOLEAN
  /\ AllowedLists \subseteq SUBSET {"up", "down", "degraded"}
  /\ InitHealths \subseteq {"up", "down", "degraded"}
  /\ Healths \subseteq {"up", "down", "degraded"}
  /\ MaxPolls \in Nat \ {0}
  /\ Unnamed \in BOOLEAN /\ Removable \in BOOLEAN

VARIABLES
  target, force, allowed,     \* the request: mode, --force, allowedStandbyStateList
  cpc, polls, data, verdict,  \* sm-client: position, polls sent, last answer, service_status
  hpc, attempts, body,        \* site-manager's POST handler: position, retries left, request body
  mode, status, health,       \* the fields of the service
  run, delivered,             \* its run thread (next write), requests it received
  earlier, goal,              \* the run of an earlier command (next write), its mode
  exists                      \* the custom resource is there

request == <<target, force, allowed>>
sender == <<hpc, attempts, body>>
fields == <<mode, status, health>>
before == <<earlier, goal>>
service == <<fields, run, delivered, before>>
vars == <<request, cpc, polls, data, verdict, sender, service, exists>>

----------------------------------------------------------------------------
(* Answers and what the client makes of them. *)

\* A field that was not read is "--", as site-manager and the client have it.
NoStatus == [kind |-> "status", mode |-> "--", status |-> "--", health |-> "--"]
Missing == [kind |-> "missing"]    \* "Service doesn't exist"
Refused == [kind |-> "refused"]    \* any other error that names the service
NoName == [kind |-> "unnamed"]     \* an error that names no service

Answers ==
  {Missing, Refused, NoName}
    \cup [kind: {"status"}, mode: Modes \cup {"--"},
          status: {"queue", "running", "done", "failed", "--"},
          health: {"up", "down", "degraded", "--"}]

FailedHealthz ==
  {"down", "degraded", "--"} \ (IF target = "standby" THEN allowed ELSE {})

\* set_service_status of ServiceDRStatus.
Accepted(d) ==
  \/ d.kind = "missing"
  \/ d.kind = "refused" /\ force
  \/ d.kind = "status" /\ (d.health \notin FailedHealthz \/ force) /\ d.status # "failed"

ExpectedState(d) ==
  /\ d.status = "done" /\ d.mode = target
  /\ d.health \in IF target = "standby" THEN allowed ELSE {"up"}

ErrorState(d) ==
  \/ d.status = "done" /\ d.health \in {"down", "degraded"}
  \/ d.status = "failed"

\* mutant: a service that is done is good enough
CheckState_Done(d) == d.kind = "status" /\ (d.status = "done" \/ ErrorState(d))
CheckState(d) == d.kind = "status" /\ (ExpectedState(d) \/ ErrorState(d))

----------------------------------------------------------------------------
\* The service ended its last procedure, or still runs the one of an earlier command.
AtRest ==
  /\ status \in InitStatuses \ {"running"} /\ health \in InitHealths
  /\ earlier = 0 /\ goal = "none"

UnderWay ==
  /\ "running" \in InitStatuses /\ status = "running"
  /\ earlier \in 4..6 /\ goal \in Modes
  /\ mode = goal <=> earlier = 6
  /\ health = IF earlier = 4 THEN "down" ELSE "degraded"

Init ==
  /\ target \in Targets /\ force \in Forces /\ allowed \in AllowedLists
  /\ cpc = "post" /\ polls = 0 /\ data = NoStatus /\ verdict = FALSE
  /\ hpc = "idle" /\ attempts = 0 /\ body = "none"
  /\ mode \in InitModes /\ (AtRest \/ UnderWay)
  /\ run = 0 /\ delivered = 0
  /\ exists = TRUE

----------------------------------------------------------------------------
(* sm-client: the request. *)

\* The phase is over with answer d; without a name ServiceDRStatus raises.
Close(d) ==
  /\ data' = d
  /\ IF d.kind = "unnamed"
     THEN cpc' = "dead" /\ UNCHANGED verdict
     ELSE cpc' = "ended" /\ verdict' = Accepted(d)

ClientPosts ==
  /\ cpc = "post"
  /\ cpc' = "posting"
  /\ hpc' = "lookup" /\ attempts' = Retries /\ body' = "unread"
  /\ UNCHANGED <<request, polls, data, verdict, service, exists>>

\* site-manager is out of reach, or its answer does not come in time: the
\* handler may go on without its client.
ClientGivesUp ==
  /\ cpc \in {"post", "posting"}
  /\ Close(NoStatus)
  /\ UNCHANGED <<request, polls, sender, service, exists>>

----------------------------------------------------------------------------
(* site-manager: ProcessService and DoPostRequest. *)

\* The answer d of the handler, if the client still waits for it.
Answer(d) ==
  /\ hpc' = "over"
  /\ IF cpc = "posting" THEN Close(d) ELSE UNCHANGED <<cpc, data, verdict>>

LookupFails ==
  /\ hpc = "lookup"
  /\ \/ Unnamed /\ Answer(NoName)
     \/ ~exists /\ Answer(Missing)
  /\ UNCHANGED <<request, polls, attempts, body, service, exists>>

LookupDone ==
  /\ hpc = "lookup" /\ exists
  /\ hpc' = "send"
  /\ UNCHANGED <<request, cpc, polls, data, verdict, attempts, body, service, exists>>

\* The service gets the request and starts a run unless it is running or there.
Handle ==
  /\ delivered' = delivered + 1
  /\ run' = IF status # "running" /\ target # mode THEN 1 ELSE run

\* mutant: every attempt sends the body again
Consumed_Rebuilt == "unread"
Consumed == "read"

\* A 200 of the service.
Delivered ==
  /\ hpc = "send" /\ attempts > 0 /\ body = "unread"
  /\ Handle
  /\ hpc' = "over"
  /\ cpc' = IF cpc = "posting" THEN "poll" ELSE cpc
  /\ body' = Consumed
  /\ UNCHANGED <<request, polls, data, verdict, attempts, fields, before, exists>>

\* Any other code below 300: the answer says failed and names no service.
DeliveredOtherwise ==
  /\ hpc = "send" /\ attempts > 0 /\ body = "unread" /\ Unnamed
  /\ Handle
  /\ Answer(NoName)
  /\ body' = Consumed
  /\ UNCHANGED <<request, polls, attempts, fields, before, exists>>

\* The request arrives, its answer does not.
ReplyLost ==
  /\ hpc = "send" /\ attempts > 0 /\ body = "unread"
  /\ Handle
  /\ attempts' = attempts - 1
  /\ body' = Consumed
  /\ UNCHANGED <<request, cpc, polls, data, verdict, hpc, fields, before, exists>>

\* mutant: the retries are not counted
AttemptFails_Uncounted ==
  /\ hpc = "send"
  /\ attempts' = attempts - 1
  /\ body' \in {body, Consumed}
  /\ UNCHANGED <<request, cpc, polls, data, verdict, hpc, service, exists>>

\* The connection fails before the body is read, or after that for nothing; an
\* attempt without a body fails by itself.
AttemptFails ==
  /\ hpc = "send" /\ attempts > 0
  /\ attempts' = attempts - 1
  /\ body' \in {body, Consumed}
  /\ UNCHANGED <<request, cpc, polls, data, verdict, hpc, service, exists>>

\* The service refuses the request, or no attempt is left.
SendFails ==
  /\ hpc = "send" /\ (attempts = 0 \/ body = "unread")
  /\ Answer(Refused)
  /\ UNCHANGED <<request, polls, attempts, body, service, exists>>

----------------------------------------------------------------------------
(* sm-client polls; site-manager reads mode and status, then the health. *)

Polling == cpc \in {"lookup", "read_status", "read_health"}

\* mutant: the loop does not look at the clock
Poll_Forever ==
  /\ cpc = "poll"
  /\ cpc' = "lookup" /\ polls' = 1
  /\ data' = NoStatus
  /\ UNCHANGED <<request, verdict, sender, service, exists>>

Poll ==
  /\ cpc = "poll" /\ polls < MaxPolls
  /\ cpc' = "lookup" /\ polls' = polls + 1
  /\ data' = NoStatus
  /\ UNCHANGED <<request, verdict, sender, service, exists>>

ReadMode ==
  /\ cpc = "lookup" /\ exists
  /\ cpc' = "read_status"
  /\ data' = [data EXCEPT !.mode = mode]
  /\ UNCHANGED <<request, polls, verdict, sender, service, exists>>

ReadStatus ==
  /\ cpc = "read_status"
  /\ cpc' = "read_health"
  /\ data' = [data EXCEPT !.status = status]
  /\ UNCHANGED <<request, polls, verdict, sender, service, exists>>

\* The answer is complete: polling ends with it or goes on.
ReadHealth ==
  /\ cpc = "read_health"
  /\ LET d == [data EXCEPT !.health = health]
     IN IF CheckState(d)
        THEN Close(d)
        ELSE data' = d /\ cpc' = "poll" /\ UNCHANGED verdict
  /\ UNCHANGED <<request, polls, sender, service, exists>>

\* The poll brings an error, or nothing in time.
PollFails ==
  /\ Polling
  /\ \E d \in {NoStatus, Refused} \cup (IF exists THEN {} ELSE {Missing})
              \cup (IF Unnamed THEN {NoName} ELSE {}) :
       data' = d
  /\ cpc' = "poll"
  /\ UNCHANGED <<request, polls, verdict, sender, service, exists>>

\* mutant: the last health counts although the timeout has expired
Expire_Keep ==
  /\ cpc = "poll" /\ polls > 0
  /\ Close(data)
  /\ UNCHANGED <<request, polls, sender, service, exists>>

\* Timeout: a health "--" marks the last answer as not ok.
Expire ==
  /\ cpc = "poll" /\ polls > 0
  /\ Close(IF data.kind = "status" THEN [data EXCEPT !.health = "--"] ELSE data)
  /\ UNCHANGED <<request, polls, sender, service, exists>>

----------------------------------------------------------------------------
(* The dr-managed service: the writes of run, in their order. *)

Writes ==
  << <<"status", "queue">>, <<"health", "down">>,
     <<"status", "running">>, <<"health", "degraded">>, <<"mode", "requested">>,
     <<"status", "done">>, <<"health", "settled">> >>

\* Write n of a run to mode m.
Write(n, m) ==
  LET field == Writes[n][1]
      value == Writes[n][2]
  IN /\ mode' = IF field = "mode" THEN m ELSE mode
     /\ status' = IF field = "status" THEN value ELSE status
     /\ IF value = "settled" THEN health' \in Healths
        ELSE health' = IF field = "health" THEN value ELSE health

After(n) == IF n = Len(Writes) THEN 0 ELSE n + 1

RunWrites ==
  /\ run \in 1..Len(Writes)
  /\ Write(run, target)
  /\ run' = After(run)
  /\ UNCHANGED <<request, cpc, polls, data, verdict, sender, delivered, before, exists>>

\* The procedure of the service fails.
RunFails ==
  /\ run \in 2..6
  /\ status' = "failed" /\ run' = 0
  /\ UNCHANGED <<request, cpc, polls, data, verdict, sender, mode, health, delivered, before, exists>>

EarlierWrites ==
  /\ earlier \in 1..Len(Writes)
  /\ Write(earlier, goal)
  /\ earlier' = After(earlier)
  /\ UNCHANGED <<request, cpc, polls, data, verdict, sender, run, delivered, goal, exists>>

EarlierFails ==
  /\ earlier \in 2..6
  /\ status' = "failed" /\ earlier' = 0
  /\ UNCHANGED <<request, cpc, polls, data, verdict, sender, mode, health, run, delivered, goal, exists>>

\* The operator of the cluster deletes the custom resource.
RemoveCR ==
  /\ Removable /\ exists
  /\ exists' = FALSE
  /\ UNCHANGED <<request, cpc, polls, data, verdict, sender, service>>

----------------------------------------------------------------------------
Client == ClientPosts \/ ClientGivesUp \/ Poll \/ PollFails \/ Expire
Manager ==
  \/ LookupFails \/ LookupDone \/ Delivered \/ DeliveredOtherwise \/ ReplyLost \/ AttemptFails \/ SendFails
  \/ ReadMode \/ ReadStatus \/ ReadHealth
DRManaged == RunWrites \/ RunFails \/ EarlierWrites \/ EarlierFails
Over == cpc \in {"ended", "dead"} /\ UNCHANGED vars

Next == Client \/ Manager \/ DRManaged \/ RemoveCR \/ Over

Spec == Init /\ [][Next]_vars

\* Requests have timeouts on both sides and the polling loop has one of its own.
FairSpec == Spec /\ WF_vars(Client \/ Manager) /\ WF_vars(DRManaged)

----------------------------------------------------------------------------
(* Properties. *)

TypeOK ==
  /\ target \in Targets /\ force \in Forces /\ allowed \in AllowedLists
  /\ cpc \in {"post", "posting", "poll", "lookup", "read_status", "read_health", "ended", "dead"}
  /\ polls \in 0..MaxPolls /\ data \in Answers /\ verdict \in BOOLEAN
  /\ hpc \in {"idle", "lookup", "send", "over"}
  /\ attempts \in 0..Retries /\ body \in {"none", "unread", "read"}
  /\ mode \in Modes /\ status \in {"queue", "running", "done", "failed"}
  /\ health \in {"up", "down", "degraded"}
  /\ run \in 0..Len(Writes) /\ delivered \in 0..Retries
  /\ earlier \in 0..Len(Writes) /\ goal \in Modes \cup {"none"}
  /\ exists \in BOOLEAN

\* An earlier command for another mode is still under way or has just ended.
Conflict == goal \notin {target, "none"}

\* Without --force a phase is reported as done only if the service has
\* finished the procedure in the requested mode (or its resource is gone),
\* although the verdict is put together from fields read at three moments and
\* the service may have failed before or still be at an earlier command.
SuccessIsReal ==
  cpc = "ended" /\ verdict /\ ~force /\ ~Conflict =>
    ~exists \/ (mode = target /\ status = "done" /\ run = 0 /\ earlier = 0)

\* One command reaches the service at most once, although site-manager sends
\* it up to three times and goes on when the client has given up.
DeliveredOnce == delivered <= 1

\* A phase that polling ends for an unexpected health after "done" concerns a
\* service that has ended its procedure: "Procedure is done, but unexpected
\* health is occurred" (documentation/public/architecture.md).
HealthFailureIsReal ==
  cpc = "ended" /\ ~verdict /\ data.kind = "status" /\ data.status = "done"
    /\ data.health \in {"down", "degraded"} => run = 0 /\ earlier = 0

\* The phase ends whatever site-manager and the service do or fail to do.
PhaseEnds == <>(cpc \in {"ended", "dead"})

Phase == INSTANCE ServicePhase WITH
  excused <- force \/ (target = "standby" /\ allowed \cap {"down", "degraded"} # {}) \/ Conflict,
  outcome <- CASE cpc = "ended" -> IF verdict THEN "ok" ELSE "failed"
               [] cpc = "dead" -> "dead"
               [] OTHER -> "open",
  pending <- (body = "unread" /\ (hpc = "send" \/ (hpc = "lookup" /\ exists))) \/ run \in 1..5,
  other <- IF earlier \in 1..5 THEN goal ELSE "none"

\* Retries, torn reads and late handlers together are one phase as the
\* procedure engine sees it.
RefinesServicePhase == Phase!Spec
=============================================================================
