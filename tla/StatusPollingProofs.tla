-------------------------- MODULE StatusPollingProofs --------------------------
(***************************************************************************)
(* Theorems about StatusPolling, for every timeout, every request and      *)
(* every service that may fail its procedure or settle in any health.      *)
(***************************************************************************)
EXTENDS StatusPolling, TLAPS

Statuses == {"queue", "running", "done", "failed"}
Whole == [kind: {"status"}, mode: Modes \cup {"--"}, status: Statuses \cup {"--"},
          health: {"up", "down", "degraded", "--"}]

LEMMA AnswersAre ==
  /\ Answers = {Missing, Refused, NoName} \cup Whole
  /\ NoStatus \in Whole
  /\ \A d \in Whole : d.kind = "status"
BY DEF Answers, Whole, Statuses, NoStatus

LEMMA WritesAre ==
  /\ Len(Writes) = 7
  /\ Writes[1] = <<"status", "queue">> /\ Writes[2] = <<"health", "down">>
  /\ Writes[3] = <<"status", "running">> /\ Writes[4] = <<"health", "degraded">>
  /\ Writes[5] = <<"mode", "requested">> /\ Writes[6] = <<"status", "done">>
  /\ Writes[7] = <<"health", "settled">>
BY DEF Writes

\* The writes of a run to mode m, one by one.
LEMMA WriteIs ==
  ASSUME NEW n \in 1..7, NEW m, Write(n, m)
  PROVE  \/ n \in {1, 3, 6} /\ status' = Writes[n][2] /\ UNCHANGED <<mode, health>>
         \/ n \in {2, 4} /\ health' = Writes[n][2] /\ UNCHANGED <<mode, status>>
         \/ n = 5 /\ mode' = m /\ UNCHANGED <<status, health>>
         \/ n = 7 /\ health' \in Healths /\ UNCHANGED <<mode, status>>
<1>1. CASE n \in {1, 3, 6}
  BY <1>1, WritesAre DEF Write
<1>2. CASE n \in {2, 4}
  BY <1>2, WritesAre DEF Write
<1>3. CASE n = 5
  BY <1>3, WritesAre DEF Write
<1>4. CASE n = 7
  BY <1>4, WritesAre DEF Write
<1> QED BY <1>1, <1>2, <1>3, <1>4

LEMMA AfterIs == \A n \in 1..7 : After(n) = IF n = 7 THEN 0 ELSE n + 1
BY WritesAre DEF After

\* The steps of the run of this command, and of the earlier one.
LEMMA RunWritesAre ==
  ASSUME RunWrites
  PROVE  /\ run \in 1..7 /\ Write(run, target) /\ run' = IF run = 7 THEN 0 ELSE run + 1
         /\ UNCHANGED <<target, force, allowed, cpc, polls, data, verdict, hpc, attempts, body,
                       delivered, earlier, goal, exists>>
BY WritesAre, AfterIs DEF RunWrites, request, sender, before

LEMMA EarlierWritesAre ==
  ASSUME EarlierWrites
  PROVE  /\ earlier \in 1..7 /\ Write(earlier, goal)
         /\ earlier' = IF earlier = 7 THEN 0 ELSE earlier + 1
         /\ UNCHANGED <<target, force, allowed, cpc, polls, data, verdict, hpc, attempts, body,
                       run, delivered, goal, exists>>
BY WritesAre, AfterIs DEF EarlierWrites, request, sender

LEMMA WriteType ==
  ASSUME TypeOK, NEW n \in 1..7, NEW m \in Modes, Write(n, m)
  PROVE  mode' \in Modes /\ status' \in Statuses /\ health' \in {"up", "down", "degraded"}
<1>1. Healths \subseteq {"up", "down", "degraded"}
  BY PollingAssumption
<1>2. Writes[1][2] = "queue" /\ Writes[3][2] = "running" /\ Writes[6][2] = "done"
  BY WritesAre
<1>3. Writes[2][2] = "down" /\ Writes[4][2] = "degraded"
  BY WritesAre
<1> QED BY <1>1, <1>2, <1>3, WriteIs DEF TypeOK, Statuses

----------------------------------------------------------------------------
(* Types, and how often the service is commanded: the body of the request  *)
(* is there until the first attempt that may have delivered it.            *)

Reading == Polling => data \in Whole

Once ==
  /\ cpc = "post" => hpc = "idle"
  /\ cpc = "post" \/ body = "unread" => delivered = 0
  /\ delivered <= 1

\* Who has an earlier command has its mode.
Whose == earlier # 0 => goal # "none"

TypeInv == TypeOK /\ Reading /\ Once /\ Whose

LEMMA CloseType ==
  ASSUME TypeOK, NEW d \in Answers, Close(d)
  PROVE  /\ cpc' \in {"ended", "dead"} /\ data' \in Answers /\ verdict' \in BOOLEAN
<1>1. Accepted(d) \in BOOLEAN
  BY DEF Accepted
<1> QED BY <1>1 DEF Close, TypeOK

\* The service at the start: at rest, or before write 4, 5 or 6 of an earlier run.
LEMMA ServiceInit ==
  ASSUME Init
  PROVE  /\ mode \in Modes /\ status \in Statuses /\ health \in {"up", "down", "degraded"}
         /\ \/ earlier = 0 /\ goal = "none"
            \/ /\ earlier \in {4, 5, 6} /\ goal \in Modes /\ status = "running"
               /\ earlier = 6 => mode = goal
               /\ earlier # 4 => health = "degraded"
<1>1. InitModes \subseteq Modes /\ InitHealths \subseteq {"up", "down", "degraded"}
  BY PollingAssumption
<1>2. InitStatuses \subseteq {"done", "failed", "running"}
  BY PollingAssumption
<1>3. mode \in Modes
  BY <1>1 DEF Init
<1>4. CASE AtRest
  BY <1>1, <1>2, <1>3, <1>4 DEF AtRest, Statuses
<1>5. CASE UnderWay
  <2>1. earlier \in {4, 5, 6}
    BY <1>5 DEF UnderWay
  <2> QED BY <1>3, <1>5, <2>1 DEF UnderWay, Statuses
<1> QED BY <1>4, <1>5 DEF Init

LEMMA TypeInit == Init => TypeInv
<1> SUFFICES ASSUME Init PROVE TypeInv
  OBVIOUS
<1>1. NoStatus \in Answers
  BY AnswersAre
<1>2. Len(Writes) = 7
  BY WritesAre
<1>3. mode \in Modes /\ health \in {"up", "down", "degraded"} /\ 0 \in 0..MaxPolls
  BY PollingAssumption, ServiceInit
<1>4. polls \in 0..MaxPolls /\ attempts \in 0..Retries /\ delivered \in 0..Retries /\ run \in 0..Len(Writes)
  BY <1>2, <1>3 DEF Init, Retries
<1>7. /\ status \in Statuses /\ earlier \in 0..7 /\ goal \in Modes \cup {"none"}
      /\ earlier # 0 => goal # "none"
  BY ServiceInit DEF Modes
<1>5. verdict \in BOOLEAN /\ exists \in BOOLEAN
  BY DEF Init
<1>6. TypeOK
  BY <1>1, <1>2, <1>3, <1>4, <1>5, <1>7 DEF Init, TypeOK, Statuses
<1> QED BY <1>6, <1>7 DEF Init, TypeInv, Reading, Polling, Once, Whose

LEMMA TypeStep == TypeInv /\ [Next]_vars => TypeInv'
<1> SUFFICES ASSUME TypeInv, [Next]_vars PROVE TypeInv'
  OBVIOUS
<1> USE DEF TypeInv
<1>a. {Missing, Refused, NoName, NoStatus} \subseteq Answers /\ Whole \subseteq Answers
  BY AnswersAre
<1>b. Len(Writes) = 7
  BY WritesAre
<1>1. CASE ClientPosts
  BY <1>1, <1>b DEF ClientPosts, TypeOK, Reading, Polling, Once, Whose, Retries, request, service, before, fields
<1>2. CASE ClientGivesUp
  BY <1>2, <1>a, <1>b, CloseType DEF ClientGivesUp, TypeOK, Reading, Polling, Once, Whose, request, sender, service, before, fields
<1>3. ASSUME NEW d \in {NoName, Missing, Refused}, Answer(d), hpc # "idle",
             UNCHANGED <<request, polls, attempts, body, service, exists>>
      PROVE  TypeInv'
  <2>1. d \in Answers
    BY <1>a
  <2>2. CASE cpc = "posting"
    BY <1>3, <1>b, <2>1, <2>2, CloseType DEF Answer, TypeOK, Reading, Polling, Once, Whose, request, service, before, fields
  <2>3. CASE cpc # "posting"
    BY <1>3, <1>b, <2>3 DEF Answer, TypeOK, Reading, Polling, Once, Whose, request, service, before, fields
  <2> QED BY <2>2, <2>3
<1>4. CASE LookupFails \/ SendFails
  BY <1>3, <1>4 DEF LookupFails, SendFails
<1>5. CASE LookupDone
  BY <1>5, <1>b DEF LookupDone, TypeOK, Reading, Polling, Once, Whose, request, service, before, fields
<1>6. CASE Delivered
  <2>1. run' \in 0..7 /\ delivered' = 1 /\ body' = "read"
    BY <1>6, <1>b DEF Delivered, Handle, Consumed, TypeOK, Once
  <2> QED BY <1>6, <1>b, <2>1 DEF Delivered, TypeOK, Reading, Polling, Once, Whose, Retries, request, before, fields
<1>19. CASE DeliveredOtherwise
  <2>1. run' \in 0..7 /\ delivered' = 1 /\ body' = "read"
    BY <1>19, <1>b DEF DeliveredOtherwise, Handle, Consumed, TypeOK, Once
  <2>2. hpc' = "over" /\ NoName \in Answers
    BY <1>19, <1>a DEF DeliveredOtherwise, Answer
  <2>3. CASE cpc = "posting"
    BY <1>19, <1>b, <2>1, <2>2, <2>3, CloseType
       DEF DeliveredOtherwise, Answer, TypeOK, Reading, Polling, Once, Whose, Retries, request, before, fields
  <2>4. CASE cpc # "posting"
    BY <1>19, <1>b, <2>1, <2>2, <2>4
       DEF DeliveredOtherwise, Answer, TypeOK, Reading, Polling, Once, Whose, Retries, request, before, fields
  <2> QED BY <2>3, <2>4
<1>7. CASE ReplyLost
  <2>1. run' \in 0..7 /\ delivered' = 1 /\ body' = "read"
    BY <1>7, <1>b DEF ReplyLost, Handle, Consumed, TypeOK, Once
  <2> QED BY <1>7, <1>b, <2>1 DEF ReplyLost, TypeOK, Reading, Polling, Once, Whose, Retries, request, before, fields
<1>8. CASE AttemptFails
  <2>1. attempts' \in 0..Retries
    BY <1>8 DEF AttemptFails, TypeOK, Retries
  <2>2. body' \in {"none", "unread", "read"} /\ (body' = "unread" => body = "unread")
    BY <1>8 DEF AttemptFails, Consumed, TypeOK
  <2>3. /\ UNCHANGED <<cpc, polls, data, verdict, hpc, exists>>
        /\ UNCHANGED <<target, force, allowed, mode, status, health, run, delivered, earlier, goal>>
    BY <1>8 DEF AttemptFails, request, service, before, fields
  <2> QED BY <1>b, <2>1, <2>2, <2>3 DEF TypeOK, Reading, Polling, Once, Whose
<1>9. CASE Poll
  BY <1>9, <1>a, <1>b, AnswersAre, PollingAssumption
     DEF Poll, TypeOK, Reading, Polling, Once, Whose, request, sender, service, before, fields
<1>10. CASE ReadMode \/ ReadStatus
  <2>1. data \in Whole
    BY <1>10 DEF ReadMode, ReadStatus, Reading, Polling
  <2>2. data' \in Whole
    BY <1>10, <2>1 DEF ReadMode, ReadStatus, TypeOK, Whole, Statuses
  <2> QED BY <1>10, <1>a, <1>b, <2>2
          DEF ReadMode, ReadStatus, TypeOK, Reading, Polling, Once, Whose, request, sender, service, before, fields
<1>11. CASE ReadHealth
  <2> DEFINE d == [data EXCEPT !.health = health]
  <2>1. d \in Whole
    BY <1>11 DEF ReadHealth, Reading, Polling, TypeOK, Whole
  <2>2. /\ cpc' \in {"ended", "dead", "poll"} /\ data' \in Answers /\ verdict' \in BOOLEAN
    <3>1. CASE CheckState(d)
      BY <1>11, <1>a, <2>1, <3>1, CloseType DEF ReadHealth
    <3>2. CASE ~CheckState(d)
      BY <1>11, <1>a, <2>1, <3>2 DEF ReadHealth, TypeOK
    <3> QED BY <3>1, <3>2
  <2> QED BY <1>11, <1>b, <2>2
          DEF ReadHealth, TypeOK, Reading, Polling, Once, Whose, request, sender, service, before, fields
<1>12. CASE PollFails
  <2>1. data' \in Answers
    BY <1>12, <1>a DEF PollFails
  <2> QED BY <1>12, <1>b, <2>1
          DEF PollFails, TypeOK, Reading, Polling, Once, Whose, request, sender, service, before, fields
<1>13. CASE Expire
  <2> DEFINE d == IF data.kind = "status" THEN [data EXCEPT !.health = "--"] ELSE data
  <2>1. data \in Whole \/ data \in {Missing, Refused, NoName}
    BY AnswersAre DEF TypeOK
  <2>2. CASE data \in Whole
    <3>1. [data EXCEPT !.health = "--"] \in Whole
      BY <2>2 DEF Whole
    <3> QED BY <1>13, <1>a, <1>b, <2>2, <3>1, AnswersAre, CloseType
            DEF Expire, TypeOK, Reading, Polling, Once, Whose, request, sender, service, before, fields
  <2>3. CASE data \in {Missing, Refused, NoName}
    <3>1. d = data
      BY <2>3 DEF Missing, Refused, NoName
    <3>2. Close(data)
      BY <1>13, <3>1 DEF Expire
    <3> QED BY <1>13, <1>b, <3>2, CloseType
            DEF Expire, TypeOK, Reading, Polling, Once, Whose, request, sender, service, before, fields
  <2> QED BY <2>1, <2>2, <2>3
<1>14. CASE RunWrites
  <2>1. target \in Modes
    BY PollingAssumption DEF TypeOK
  <2>2. mode' \in Modes /\ status' \in Statuses /\ health' \in {"up", "down", "degraded"}
    BY <1>14, <2>1, RunWritesAre, WriteType
  <2>3. run' \in 0..7
    BY <1>14, RunWritesAre
  <2> HIDE DEF TypeInv
  <2>4. TypeOK'
    BY <1>14, <1>b, <2>2, <2>3, RunWritesAre DEF TypeInv, TypeOK, Statuses
  <2> QED BY <1>14, <2>4, RunWritesAre DEF TypeInv, Reading, Polling, Once, Whose
<1>17. CASE EarlierWrites
  <2>1. goal \in Modes
    BY <1>17, EarlierWritesAre DEF TypeOK, Whose
  <2>2. mode' \in Modes /\ status' \in Statuses /\ health' \in {"up", "down", "degraded"}
    BY <1>17, <2>1, EarlierWritesAre, WriteType
  <2>3. earlier' \in 0..7 /\ (earlier' # 0 => earlier # 0)
    BY <1>17, EarlierWritesAre
  <2> HIDE DEF TypeInv
  <2>4. TypeOK'
    BY <1>17, <1>b, <2>2, <2>3, EarlierWritesAre DEF TypeInv, TypeOK, Statuses
  <2> QED BY <1>17, <2>3, <2>4, EarlierWritesAre DEF TypeInv, Reading, Polling, Once, Whose
<1>18. CASE EarlierFails
  BY <1>18, <1>b DEF EarlierFails, TypeOK, Reading, Polling, Once, Whose, request, sender
<1>15. CASE RunFails
  BY <1>15, <1>b DEF RunFails, TypeOK, Reading, Polling, Once, Whose, request, before, sender
<1>16. CASE RemoveCR \/ UNCHANGED vars
  <2>1. /\ UNCHANGED <<cpc, polls, data, verdict, hpc, attempts, body>>
        /\ UNCHANGED <<target, force, allowed, mode, status, health, run, delivered, earlier, goal>>
        /\ exists' \in BOOLEAN
    BY <1>16 DEF RemoveCR, vars, TypeOK, request, sender, service, before, fields
  <2> QED BY <1>b, <2>1 DEF TypeOK, Reading, Polling, Once, Whose
<1> QED BY <1>1, <1>2, <1>4, <1>5, <1>6, <1>7, <1>8, <1>9, <1>10, <1>11, <1>12, <1>13, <1>14, <1>15, <1>16, <1>17,
        <1>18, <1>19
        DEF Next, Client, Manager, DRManaged, Over

\* Every variable keeps its type; in particular a partly read answer is one.
THEOREM TypeCorrect == Spec => []TypeOK
<1>1. TypeInv => TypeOK
  BY DEF TypeInv
<1> QED BY TypeInit, TypeStep, <1>1, PTL DEF Spec

\* The service gets a command at most once, whatever attempts of site-manager
\* fail and whenever the client gives up.
THEOREM CommandedOnce == Spec => []DeliveredOnce
<1>1. TypeInv => DeliveredOnce
  BY DEF TypeInv, Once, DeliveredOnce
<1> QED BY TypeInit, TypeStep, <1>1, PTL DEF Spec

----------------------------------------------------------------------------
(* The verdict.  A run writes status "done" after the mode and leaves a     *)
(* health that is not "up" behind until its very end (RunInv), so a status  *)
(* read after the requested mode and a health read after that status are    *)
(* those of a finished procedure (DataInv), although the three are read at  *)
(* different moments.                                                       *)

\* --force, a standby site on which a health that is not "up" is tolerated, or an
\* earlier command for another mode.
Excused ==
  force \/ (target = "standby" /\ allowed \cap {"down", "degraded"} # {}) \/ Conflict

\* Nothing runs before a request has arrived or while an earlier run is at work, and
\* an earlier run for the same mode leaves nothing to do.
RunInv ==
  /\ delivered = 0 => run = 0
  /\ run \in 1..5 => mode # target
  /\ run \in 6..7 => mode = target
  /\ run \in 4..6 => status = "running"
  /\ run = 7 => status = "done"
  /\ run # 0 => earlier \in {0, 7}
  /\ earlier \in {0, 4, 5, 6, 7}
  /\ earlier \in 4..6 => status = "running"
  /\ ~Conflict =>
       /\ run \in 5..7 \/ earlier \in 5..7 => health = "degraded"
       /\ earlier \in 6..7 => mode = target
       /\ earlier # 0 => run = 0

Finished == mode = target /\ run \in {0, 7} /\ status = "done"
Quiet == run = 0 /\ earlier = 0

DataInv ==
  /\ data.kind = "missing" => ~exists
  /\ ~Conflict =>
       /\ cpc = "read_status" /\ data.mode = target => mode = target
       /\ cpc = "read_health" /\ data.mode = target /\ data.status = "done" => Finished

\* Stronger than SuccessIsReal where healths are tolerated, and weaker where the target
\* is not standby: what a success without an excuse means.
UnexcusedIsReal == cpc = "ended" /\ verdict /\ ~Excused => ~exists \/ (Finished /\ Quiet)

VerdictInv == RunInv /\ DataInv /\ UnexcusedIsReal

\* A finished procedure stays finished.
Lasting ==
  /\ ~Conflict /\ mode = target => mode' = target
  /\ Finished => Finished'
  /\ Finished /\ Quiet => Quiet'
  /\ UNCHANGED <<target, goal, Conflict, Excused>> /\ (~exists => ~exists')

LEMMA RunStep ==
  ASSUME TypeInv, RunInv, [Next]_vars
  PROVE  RunInv' /\ Lasting
<1>0. UNCHANGED <<request, goal>>
  BY DEF Next, Client, ClientPosts, ClientGivesUp, Poll, PollFails, Expire, Manager, LookupFails,
     LookupDone, Delivered, DeliveredOtherwise, ReplyLost, AttemptFails, SendFails, ReadMode,
     ReadStatus, ReadHealth, DRManaged, RunWrites, RunFails, EarlierWrites, EarlierFails,
     RemoveCR, Over, vars, service, before
<1>00. UNCHANGED <<target, goal, Conflict, Excused>>
  BY <1>0 DEF request, Excused, Conflict
<1>1. CASE RunWrites
  <2>1. CASE run \in {1, 2, 3, 4}
    BY <1>00, <1>1, <2>1, WritesAre, WriteIs, RunWritesAre DEF RunInv, Finished, Quiet, Lasting
  <2>2. CASE run \in {5, 6, 7}
    BY <1>00, <1>1, <2>2, WritesAre, WriteIs, RunWritesAre DEF RunInv, Finished, Quiet, Lasting
  <2> QED BY <1>1, <2>1, <2>2, RunWritesAre
<1>2. CASE RunFails
  BY <1>00, <1>2 DEF RunFails, RunInv, Finished, Quiet, Lasting, before
<1>3. CASE Delivered \/ DeliveredOtherwise \/ ReplyLost
  <2>1. UNCHANGED <<mode, status, health, earlier, exists>> /\ delivered' # 0
    BY <1>3 DEF Delivered, DeliveredOtherwise, ReplyLost, Handle, fields, before, TypeInv, TypeOK, Retries
  <2>2. run' = run \/ (status # "running" /\ target # mode /\ run' = 1)
    BY <1>3 DEF Delivered, DeliveredOtherwise, ReplyLost, Handle
  <2>3. CASE run' = run
    BY <1>00, <2>1, <2>3 DEF RunInv, Finished, Quiet, Lasting
  <2>4. CASE run' # run
    BY <1>00, <2>1, <2>2, <2>4 DEF RunInv, Finished, Quiet, Lasting
  <2> QED BY <2>3, <2>4
<1>7. CASE EarlierWrites
  <2>1. goal # "none" /\ (~Conflict => goal = target)
    BY <1>7, EarlierWritesAre DEF TypeInv, Whose, Conflict
  <2>2. CASE earlier \in {4, 5}
    BY <1>00, <1>7, <2>1, <2>2, WritesAre, WriteIs, EarlierWritesAre DEF RunInv, Finished, Quiet, Lasting
  <2>3. CASE earlier \in {6, 7}
    BY <1>00, <1>7, <2>1, <2>3, WritesAre, WriteIs, EarlierWritesAre DEF RunInv, Finished, Quiet, Lasting
  <2> QED BY <1>7, <2>2, <2>3, EarlierWritesAre DEF RunInv
<1>8. CASE EarlierFails
  BY <1>00, <1>8 DEF EarlierFails, RunInv, Finished, Quiet, Lasting
<1>4. ASSUME UNCHANGED <<mode, status, health, run, delivered, earlier>>, ~exists => ~exists'
      PROVE  RunInv' /\ Lasting
  BY <1>00, <1>4 DEF RunInv, Finished, Quiet, Lasting
<1>5. CASE ClientPosts \/ ClientGivesUp \/ Poll \/ PollFails \/ Expire \/ ReadMode \/ ReadStatus \/ ReadHealth
  BY <1>4, <1>5 DEF ClientPosts, ClientGivesUp, Poll, PollFails, Expire, ReadMode, ReadStatus,
     ReadHealth, service, before, fields
<1>6. CASE LookupFails \/ LookupDone \/ AttemptFails \/ SendFails \/ RemoveCR \/ UNCHANGED vars
  BY <1>4, <1>6 DEF LookupFails, LookupDone, AttemptFails, SendFails, RemoveCR, vars,
     service, before, fields
<1> QED BY <1>1, <1>2, <1>3, <1>5, <1>6, <1>7, <1>8 DEF Next, Client, Manager, DRManaged, Over

\* A phase that is closed with an answer that is not a success.
LEMMA CloseVerdict ==
  ASSUME NEW d, Close(d),
         Accepted(d) /\ ~Excused' => (~exists \/ (Finished /\ Quiet))',
         d.kind = "missing" => ~exists'
  PROVE  DataInv' /\ UnexcusedIsReal'
<1>1. cpc' \in {"ended", "dead"} /\ data' = d /\ (cpc' = "ended" => verdict' = Accepted(d))
  BY DEF Close
<1> QED BY <1>1 DEF DataInv, UnexcusedIsReal

\* The answer of a service polling ends with.
LEMMA StrictVerdict ==
  ASSUME TypeInv, NEW d \in Whole, ~Excused, Accepted(d)
  PROVE  d.health = "up" /\ d.status # "failed"
<1>1. /\ "--" \notin allowed /\ ~force
      /\ target = "standby" => allowed \cap {"down", "degraded"} = {}
  BY PollingAssumption DEF TypeInv, TypeOK, Excused
<1>2. d.kind = "status" /\ d.health \in {"up", "down", "degraded", "--"}
  BY DEF Whole
<1> QED BY <1>1, <1>2 DEF Accepted, FailedHealthz

LEMMA VerdictStep == TypeInv /\ VerdictInv /\ [Next]_vars => VerdictInv'
<1> SUFFICES ASSUME TypeInv, VerdictInv, [Next]_vars PROVE VerdictInv'
  OBVIOUS
<1>1. /\ RunInv'
      /\ ~Conflict /\ mode = target => mode' = target
      /\ Finished => Finished'
      /\ Finished /\ Quiet => Quiet'
      /\ UNCHANGED <<target, goal, Conflict, Excused>> /\ (~exists => ~exists')
  BY RunStep DEF VerdictInv, Lasting
<1>2. ASSUME UNCHANGED <<cpc, data, verdict>>
      PROVE  DataInv' /\ UnexcusedIsReal'
  BY <1>1, <1>2 DEF VerdictInv, DataInv, UnexcusedIsReal
<1>3. CASE RunWrites \/ RunFails \/ EarlierWrites \/ EarlierFails \/ RemoveCR \/ UNCHANGED vars
  BY <1>1, <1>2, <1>3 DEF VerdictInv, RunWrites, RunFails, EarlierWrites, EarlierFails, RemoveCR, vars
<1>4. CASE LookupDone \/ ReplyLost \/ AttemptFails
  BY <1>1, <1>2, <1>4 DEF VerdictInv, LookupDone, ReplyLost, AttemptFails
<1>5. ASSUME UNCHANGED <<data, verdict>>, cpc' \notin {"read_status", "read_health", "ended"}
      PROVE  DataInv' /\ UnexcusedIsReal'
  BY <1>1, <1>5 DEF VerdictInv, DataInv, UnexcusedIsReal
<1>6. CASE ClientPosts
  BY <1>1, <1>5, <1>6 DEF VerdictInv, ClientPosts
<1>7. CASE Delivered
  <2>1. cpc' = IF cpc = "posting" THEN "poll" ELSE cpc
    BY <1>7 DEF Delivered
  <2> QED BY <1>1, <1>2, <1>5, <1>7, <2>1 DEF VerdictInv, Delivered
<1>8. ~Excused => ~Accepted(NoStatus) /\ ~Accepted(Refused) /\ ~Accepted(NoName)
  <2>1. "--" \notin allowed
    BY PollingAssumption DEF TypeInv, TypeOK
  <2> QED BY <2>1 DEF Accepted, NoStatus, Refused, NoName, FailedHealthz, Excused
<1>9. NoStatus.kind = "status" /\ Refused.kind = "refused" /\ NoName.kind = "unnamed" /\ Missing.kind = "missing"
  BY DEF NoStatus, Refused, NoName, Missing
<1>10. CASE ClientGivesUp
  BY <1>1, <1>8, <1>9, <1>10, CloseVerdict DEF VerdictInv, ClientGivesUp
<1>11. ASSUME NEW d \in {NoName, Missing, Refused}, Answer(d), d = Missing => ~exists'
       PROVE  DataInv' /\ UnexcusedIsReal'
  <2>1. CASE cpc = "posting"
    BY <1>8, <1>9, <1>1, <1>11, <2>1, CloseVerdict DEF Answer
  <2>2. CASE cpc # "posting"
    BY <1>2, <1>11, <2>2 DEF Answer
  <2> QED BY <2>1, <2>2
<1>12. CASE LookupFails \/ SendFails \/ DeliveredOtherwise
  BY <1>1, <1>9, <1>11, <1>12 DEF VerdictInv, LookupFails, SendFails, DeliveredOtherwise
<1>13. CASE Poll
  <2>1. cpc' = "lookup" /\ data' = NoStatus
    BY <1>13 DEF Poll
  <2> QED BY <1>1, <1>9, <2>1 DEF VerdictInv, DataInv, UnexcusedIsReal
<1>14. CASE ReadMode
  <2>1. /\ cpc' = "read_status" /\ data \in Whole /\ data' = [data EXCEPT !.mode = mode]
        /\ UNCHANGED <<mode, target>>
    BY <1>14 DEF ReadMode, TypeInv, Reading, Polling, service, fields, request
  <2>2. data'.kind = "status" /\ data'.mode = mode
    BY <2>1 DEF Whole
  <2> QED BY <1>1, <2>1, <2>2 DEF VerdictInv, DataInv, UnexcusedIsReal
<1>15. CASE ReadStatus
  <2>1. /\ cpc = "read_status" /\ cpc' = "read_health" /\ data \in Whole
        /\ data' = [data EXCEPT !.status = status]
        /\ UNCHANGED <<mode, status, run, target>>
    BY <1>15 DEF ReadStatus, TypeInv, Reading, Polling, service, fields, request
  <2>2. data'.kind = "status" /\ data'.mode = data.mode /\ data'.status = status
    BY <2>1 DEF Whole
  <2>3. status = "done" /\ mode = target => Finished
    BY DEF VerdictInv, RunInv, Finished, TypeInv, TypeOK, Writes
  <2> QED BY <1>1, <2>1, <2>2, <2>3 DEF VerdictInv, DataInv, UnexcusedIsReal, Finished
<1>16. CASE ReadHealth
  <2> DEFINE d == [data EXCEPT !.health = health]
  <2>1. cpc = "read_health" /\ data \in Whole /\ UNCHANGED <<mode, status, health, run, earlier, exists>>
    BY <1>16 DEF ReadHealth, TypeInv, Reading, Polling, service, before, fields
  <2>2. /\ d \in Whole /\ d.kind = "status" /\ d.mode = data.mode
        /\ d.status = data.status /\ d.health = health
    BY <2>1 DEF Whole, TypeInv, TypeOK
  <2> HIDE DEF d
  <2>3. CASE CheckState(d)
    <3>1. Close(d)
      BY <1>16, <2>3 DEF ReadHealth, d
    <3>2. ASSUME Accepted(d), ~Excused PROVE Finished /\ Quiet
      <4>1. health = "up" /\ d.status # "failed"
        BY <2>2, <3>2, StrictVerdict
      <4>2. ExpectedState(d)
        BY <2>2, <2>3, <4>1 DEF CheckState, ErrorState
      <4>3. Finished
        BY <2>1, <2>2, <3>2, <4>2 DEF ExpectedState, VerdictInv, DataInv, Excused
      <4> QED BY <3>2, <4>1, <4>3 DEF VerdictInv, RunInv, Finished, Quiet, Excused
    <3> QED BY <1>1, <2>1, <2>2, <3>1, <3>2, CloseVerdict DEF VerdictInv
  <2>4. CASE ~CheckState(d)
    <3>1. cpc' = "poll" /\ data' = d
      BY <1>16, <2>4 DEF ReadHealth, d
    <3> QED BY <1>1, <2>2, <3>1 DEF VerdictInv, DataInv, UnexcusedIsReal
  <2> QED BY <2>3, <2>4
<1>17. CASE PollFails
  <2>1. cpc' = "poll" /\ exists' = exists /\ (data'.kind = "missing" => ~exists)
    BY <1>9, <1>17 DEF PollFails
  <2> QED BY <1>1, <2>1 DEF VerdictInv, DataInv, UnexcusedIsReal
<1>18. CASE Expire
  <2> DEFINE d == IF data.kind = "status" THEN [data EXCEPT !.health = "--"] ELSE data
  <2>1. Close(d) /\ exists' = exists
    BY <1>18 DEF Expire
  <2>2. data \in Whole \/ data \in {Missing, Refused, NoName}
    BY AnswersAre DEF TypeInv, TypeOK
  <2>3. CASE data \in Whole
    <3>1. d \in Whole /\ d.kind = "status" /\ d.health = "--"
      BY <2>3 DEF Whole
    <3>2. ~(Accepted(d) /\ ~Excused)
      BY <3>1, StrictVerdict
    <3> HIDE DEF d
    <3> QED BY <1>1, <2>1, <3>1, <3>2, CloseVerdict DEF VerdictInv
  <2>4. CASE data \in {Missing, Refused, NoName}
    <3>1. d = data
      BY <1>9, <2>4
    <3>2. Accepted(data) /\ ~Excused => data.kind = "missing"
      BY <1>8, <1>9, <2>4
    <3>3. data.kind = "missing" => ~exists
      BY DEF VerdictInv, DataInv
    <3> QED BY <1>1, <2>1, <3>1, <3>2, <3>3, CloseVerdict DEF VerdictInv
  <2> QED BY <2>2, <2>3, <2>4
<1> QED BY <1>3, <1>4, <1>6, <1>7, <1>10, <1>12, <1>13, <1>14, <1>15, <1>16, <1>17, <1>18, <1>1
        DEF VerdictInv, Next, Client, Manager, DRManaged, Over

LEMMA VerdictInit == Init => VerdictInv
<1> SUFFICES ASSUME Init PROVE VerdictInv
  OBVIOUS
<1>1. RunInv
  <2>1. run = 0
    BY DEF Init
  <2>2. earlier # 0 /\ ~Conflict => goal = target
    BY ServiceInit DEF Conflict, Modes
  <2> QED BY <2>1, <2>2, ServiceInit DEF RunInv
<1>2. DataInv /\ UnexcusedIsReal
  BY DEF Init, DataInv, UnexcusedIsReal, NoStatus
<1> QED BY <1>1, <1>2 DEF VerdictInv

LEMMA VerdictAlways == Spec => [](TypeInv /\ VerdictInv)
<1>1. TypeInv /\ VerdictInv /\ [Next]_vars => VerdictInv'
  BY VerdictStep
<1> QED BY TypeInit, TypeStep, VerdictInit, <1>1, PTL DEF Spec

\* No allowed list tolerates a health that is not "up" on a standby site.
Strict == \A a \in AllowedLists : a \cap {"down", "degraded"} = {}

\* Where no health but "up" is allowed, a phase that ends as done without
\* --force ends with the service done in the requested mode, or its resource
\* gone: neither retries nor torn reads nor an earlier run for this mode can make up a
\* success.
THEOREM SuccessesAreReal ==
  ASSUME Strict
  PROVE  Spec => []SuccessIsReal
<1>1. TypeInv /\ VerdictInv => SuccessIsReal
  BY DEF Strict, TypeInv, TypeOK, VerdictInv, UnexcusedIsReal, Excused, Finished, Quiet, SuccessIsReal
<1> QED BY VerdictAlways, <1>1, PTL

----------------------------------------------------------------------------
(* One phase as the engine sees it: every step of the protocol is a step of *)
(* ServicePhase or a stutter.                                               *)

Closed == cpc \in {"ended", "dead"}
Outcome == CASE cpc = "ended" -> IF verdict THEN "ok" ELSE "failed"
             [] cpc = "dead" -> "dead"
             [] OTHER -> "open"
Outstanding ==
  (body = "unread" /\ (hpc = "send" \/ (hpc = "lookup" /\ exists))) \/ run \in 1..5
Other == IF earlier \in 1..5 THEN goal ELSE "none"

LEMMA OutcomeIs ==
  /\ cpc = "dead" => Outcome = "dead"
  /\ cpc = "ended" /\ verdict => Outcome = "ok"
  /\ cpc = "ended" /\ ~verdict => Outcome = "failed"
  /\ ~Closed => Outcome = "open"
BY DEF Outcome, Closed

\* The phase as ServicePhase has it does not change.
LEMMA MappedStutter ==
  ASSUME UNCHANGED <<target, mode, exists, Excused, Outcome, Outstanding, Other>>
  PROVE  UNCHANGED Phase!vars
BY DEF Phase!vars, Excused, Outcome, Outstanding, Other

\* The outcome is as before while the phase is open, and once it is closed.
LEMMA OutcomeKept ==
  ASSUME (~Closed /\ ~Closed') \/ UNCHANGED <<cpc, verdict>>
  PROVE  Outcome' = Outcome
BY DEF Outcome, Closed

\* A request that may be on its way is still there, or has been dropped.
LEMMA MapDrops ==
  ASSUME UNCHANGED <<target, mode, exists, Excused, Outcome, Other>>, Outstanding' => Outstanding
  PROVE  Phase!Fail \/ UNCHANGED Phase!vars
<1>1. CASE Outstanding' = Outstanding
  BY <1>1, MappedStutter
<1>2. CASE Outstanding /\ ~Outstanding'
  BY <1>2 DEF Phase!Fail, Excused, Outcome, Outstanding, Other
<1>3. Outstanding \in BOOLEAN /\ Outstanding' \in BOOLEAN
  BY DEF Outstanding
<1> QED BY <1>1, <1>2, <1>3

\* The client closes the phase, and the handler is over at most.
LEMMA MapClose ==
  ASSUME TypeInv', VerdictInv', ~Closed, Closed',
         UNCHANGED <<target, mode, exists, Excused, Other>>, Outstanding' => Outstanding
  PROVE  \E v \in {"ok", "failed", "dead"} : Phase!Close(v)
<1>1. verdict' \in BOOLEAN /\ mode' \in Modes
  BY DEF TypeInv, TypeOK
<1>2. Outcome = "open" /\ Outcome' \in {"ok", "failed", "dead"}
  BY <1>1, OutcomeIs DEF Outcome, Closed
<1>3. Outcome' = "ok" => Excused \/ mode = target \/ ~exists
  <2>1. Outcome' = "ok" => cpc' = "ended" /\ verdict'
    BY <1>1 DEF Outcome, Closed
  <2>2. cpc' = "ended" /\ verdict' /\ ~Excused' => mode' = target' \/ ~exists'
    BY DEF VerdictInv, UnexcusedIsReal, Finished
  <2> QED BY <2>1, <2>2
<1>4. Outstanding' \in {Outstanding, FALSE}
  BY DEF Outstanding
<1> QED BY <1>2, <1>3, <1>4 DEF Phase!Close, Excused, Outcome, Outstanding, Other

LEMMA MapInit == Init => Phase!Init
<1> SUFFICES ASSUME Init PROVE Phase!Init
  OBVIOUS
<1>1. target \in Modes /\ mode \in Modes
  BY PollingAssumption DEF Init
<1>2. Excused \in BOOLEAN
  BY DEF Init, Excused
<1>3. Outcome = "open" /\ Outstanding = FALSE
  BY DEF Init, Outcome, Outstanding
<1>4. Other \in Modes \cup {"none"} /\ exists = TRUE
  BY DEF Init, AtRest, UnderWay, Other
<1> QED BY <1>1, <1>2, <1>3, <1>4 DEF Phase!Init, Excused, Outcome, Outstanding, Other

LEMMA MapStep ==
  ASSUME TypeInv, VerdictInv, TypeInv', VerdictInv', [Next]_vars
  PROVE  Phase!Next \/ UNCHANGED Phase!vars
<1>0. UNCHANGED <<target, goal, Excused>>
  BY RunStep DEF VerdictInv, Lasting
<1>1. ASSUME UNCHANGED <<mode, hpc, body, run, earlier, exists>>, ~Closed
      PROVE  Phase!Next \/ UNCHANGED Phase!vars
  <2>1. Outstanding' = Outstanding /\ Other' = Other
    BY <1>0, <1>1 DEF Outstanding, Other
  <2>2. CASE Closed'
    BY <1>0, <1>1, <2>1, <2>2, MapClose DEF Phase!Next
  <2>3. CASE ~Closed'
    BY <1>0, <1>1, <2>1, <2>3, MappedStutter, OutcomeKept
  <2> QED BY <2>2, <2>3
<1>2. ASSUME UNCHANGED <<mode, exists, earlier>>, Outstanding' => Outstanding,
             ~Closed \/ UNCHANGED <<cpc, verdict>>
      PROVE  Phase!Next \/ UNCHANGED Phase!vars
  <2>0. Other' = Other
    BY <1>0, <1>2 DEF Other
  <2>1. CASE ~Closed /\ Closed'
    BY <1>0, <1>2, <2>0, <2>1, MapClose DEF Phase!Next
  <2>2. CASE ~(~Closed /\ Closed')
    BY <1>0, <1>2, <2>0, <2>2, MapDrops, OutcomeKept DEF Phase!Next
  <2> QED BY <2>1, <2>2
<1>3. CASE ClientPosts
  <2>1. /\ ~Closed /\ ~Closed' /\ UNCHANGED <<mode, run, earlier, exists>>
        /\ hpc' = "lookup" /\ body' = "unread" /\ hpc = "idle" /\ run = 0
    BY <1>3 DEF ClientPosts, Closed, service, before, fields, TypeInv, Once, VerdictInv, RunInv
  <2>2. Outcome = "open" /\ Outcome' = Outcome /\ Other' = Other
    BY <1>0, <2>1, OutcomeIs, OutcomeKept DEF Other
  <2>3. CASE exists
    <3>1. Outstanding' = TRUE
      BY <2>1, <2>3 DEF Outstanding
    <3> QED BY <1>0, <2>1, <2>2, <2>3, <3>1
            DEF Phase!Next, Phase!Request, Excused, Outcome, Outstanding, Other
  <2>4. CASE ~exists
    BY <1>0, <2>1, <2>2, <2>4, MappedStutter DEF Outstanding
  <2> QED BY <2>3, <2>4 DEF TypeInv, TypeOK
<1>4. CASE ClientGivesUp \/ Poll \/ PollFails \/ Expire \/ ReadMode \/ ReadStatus \/ ReadHealth
  <2>1. UNCHANGED <<mode, hpc, body, run, earlier, exists>> /\ ~Closed
    BY <1>4 DEF ClientGivesUp, Poll, PollFails, Expire, ReadMode, ReadStatus, ReadHealth,
       Polling, Closed, sender, service, before, fields
  <2> QED BY <1>1, <2>1
<1>5. CASE LookupFails \/ SendFails
  <2>1. UNCHANGED <<mode, body, run, earlier, exists>> /\ hpc' = "over"
    BY <1>5 DEF LookupFails, SendFails, Answer, service, before, fields
  <2>2. ~Closed \/ UNCHANGED <<cpc, verdict>>
    BY <1>5 DEF LookupFails, SendFails, Answer, Closed
  <2> QED BY <1>2, <2>1, <2>2 DEF Outstanding
<1>6. CASE LookupDone
  BY <1>2, <1>6 DEF LookupDone, Outstanding, service, before, fields
<1>7. CASE Delivered \/ DeliveredOtherwise \/ ReplyLost
  <2>1. /\ hpc = "send" /\ body = "unread" /\ UNCHANGED <<mode, earlier, exists>>
    BY <1>7 DEF Delivered, DeliveredOtherwise, ReplyLost, before, fields
  <2>2. ~Closed \/ UNCHANGED <<cpc, verdict>>
    BY <1>7 DEF Delivered, DeliveredOtherwise, ReplyLost, Answer, Closed
  <2> QED BY <1>2, <2>1, <2>2 DEF Outstanding
<1>8. CASE AttemptFails
  <2>1. /\ UNCHANGED <<mode, exists, hpc, run, earlier, cpc, verdict>>
        /\ body' = "unread" => body = "unread"
    BY <1>8 DEF AttemptFails, Consumed, service, before, fields
  <2> QED BY <1>2, <2>1 DEF Outstanding
<1>9. CASE RunWrites
  <2>1. /\ UNCHANGED <<hpc, body, cpc, verdict, exists, delivered, earlier>>
        /\ run \in 1..7 /\ Write(run, target) /\ run' = IF run = 7 THEN 0 ELSE run + 1
    BY <1>9, RunWritesAre
  <2>2. CASE run = 5
    <3>1. delivered # 0
      BY <2>2 DEF VerdictInv, RunInv
    <3>2. body # "unread"
      BY <2>2, <3>1 DEF TypeInv, Once
    <3>3. mode' = target
      BY <2>1, <2>2, WriteIs
    <3>4. Outstanding = TRUE /\ Outstanding' = FALSE /\ Outcome' = Outcome /\ Other' = Other
      BY <1>0, <2>1, <2>2, <3>2, OutcomeKept DEF Outstanding, Other
    <3> QED BY <1>0, <2>1, <3>3, <3>4
            DEF Phase!Next, Phase!Apply, Excused, Outcome, Outstanding, Other
  <2>3. CASE run # 5
    <3>1. mode' = mode
      BY <2>1, <2>3, WriteIs
    <3>2. Outstanding' => Outstanding
      BY <2>1, <2>3 DEF Outstanding
    <3> QED BY <1>2, <2>1, <3>1, <3>2
  <2> QED BY <2>2, <2>3
<1>10. CASE RunFails
  <2>1. run' = 0 /\ UNCHANGED <<mode, hpc, body, cpc, verdict, earlier, exists>>
    BY <1>10 DEF RunFails, before, sender
  <2> QED BY <1>2, <2>1 DEF Outstanding
<1>11. CASE RemoveCR
  <2>1. exists' = FALSE /\ UNCHANGED <<cpc, verdict, mode, hpc, body, run, earlier>>
    BY <1>11 DEF RemoveCR, sender, service, before, fields
  <2>2. Outstanding' \in {Outstanding, FALSE} /\ Outcome' = Outcome /\ Other' = Other
    BY <1>0, <2>1, OutcomeKept DEF Outstanding, Other
  <2> QED BY <1>0, <2>1, <2>2 DEF Phase!Next, Phase!Remove, Excused, Outcome, Outstanding, Other
<1>13. CASE EarlierWrites \/ EarlierFails
  <2>1. /\ UNCHANGED <<hpc, body, cpc, verdict, exists, run>>
        /\ earlier \in 1..7 /\ earlier' \in {0, earlier + 1}
        /\ earlier = 7 => earlier' = 0
        /\ mode' = mode \/ (earlier = 5 /\ earlier' = 6 /\ mode' = goal)
    BY <1>13, EarlierWritesAre, WriteIs DEF EarlierFails, sender
  <2>2. Outstanding' = Outstanding /\ Outcome' = Outcome
    BY <2>1, OutcomeKept DEF Outstanding
  <2>3. CASE Other' = Other
    <3>1. mode' = mode
      BY <1>0, <2>1, <2>3 DEF Other, TypeInv, Whose
    <3> QED BY <1>0, <2>1, <2>2, <2>3, <3>1, MappedStutter
  <2>4. CASE Other' # Other
    <3>1. Other = goal /\ goal # "none" /\ Other' = "none"
      BY <1>0, <2>1, <2>4 DEF Other, TypeInv, Whose
    <3> QED BY <1>0, <2>1, <2>2, <3>1
            DEF Phase!Next, Phase!Overtake, Excused, Outcome, Outstanding, Other
  <2> QED BY <2>3, <2>4
<1>12. CASE UNCHANGED vars
  BY <1>2, <1>12 DEF vars, sender, service, before, fields, Outstanding
<1> QED
  BY <1>3, <1>4, <1>5, <1>6, <1>7, <1>8, <1>9, <1>10, <1>11, <1>12, <1>13
  DEF Next, Client, Manager, DRManaged, Over

\* Retries, torn reads, late handlers and runs are one phase as the procedure engine
\* sees it, for any timeout, any requests and any service: a request on its way is
\* applied or dropped once, and a success without an excuse is reported for a service
\* that is in the requested mode at that moment.
THEOREM ImplementsServicePhase == Spec => RefinesServicePhase
<1>1. (TypeInv /\ VerdictInv) /\ (TypeInv /\ VerdictInv)' /\ [Next]_vars => [Phase!Next]_Phase!vars
  BY MapStep
<1> QED BY MapInit, VerdictAlways, <1>1, PTL DEF Spec, RefinesServicePhase, Phase!Spec
=============================================================================
