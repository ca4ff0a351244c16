# A verification project for DRNavigator

DRNavigator moves applications between two Kubernetes clusters ("sites").
`sm-client` runs on an operator's machine and executes a *procedure*: a
switchover (`move`), a failover (`stop`) or a command for one site (`active`,
`standby`, `return`, `disable`). `site-manager` runs in each cluster, knows the
dr-managed services from custom resources, and carries commands and status
requests to them. `paas-geo-monitor` reports whether the clusters reach each
other. This directory holds TLA+ modules translated from that code, the TLC
configurations that check small instances of them, and theorems with proofs
that the TLA+ proof system checks for every value of the constants.

`PROJECT.json` lists components, runs, the mutated definition that breaks each
property, the source lines behind every definition, the disagreements between
code and documentation that the runs show, the hazards and the theorems.

## 1. The system

| Component | Code | State it keeps | Operations | What is hard |
|---|---|---|---|---|
| preparation | `sm_client/prepare.py`, `run` in `sm-client` | per module: graph, `deps_issue` | merge the dependencies of the sites, build and sort the graph, fall back to one site | two sites that disagree, cycles neither site has by itself, a failed site that lists nonsense |
| validation | `sm_client/validation.py` | the list of validated services | availability, presence, consistency, state restrictions | the modes are read once, before the first command; the checks differ per command |
| procedure engine | `sm_client/processing.py`, `data/structures.py`, `data/settings.py` | `dr_status`, sorter, `failed_successors`, result queue, four result lists | walk the flow, start threads, collect results, skip successors | one thread per service, lists shared without a lock, a blocking `get` without timeout |
| service protocol | `processing.py`, `utils.py`, `cr_manager.go`, `http_client.go`, `main_app.go` | request, retries, last answer, verdict | POST with retries, poll, read status and health | lost replies, both sides have timeouts, an answer put together from several reads |
| registry | `cr_manager.go` (dictionary), `validator.go`, `sitemanager_webhook.go`, conversions, reconcilers | custom resources of two APIs, informer caches, work queues | admit, convert, delete, list, write the status | concurrent admissions over lagging caches, conflicts, restarts |
| list and status requests | `GetAllServices`, `GetServiceStatus`, `collectServicesStatuses` in `cr_manager.go` | the two lists, the dictionary, visited services | list both APIs, merge, recursive walk along `after` and `before` | resources that move between the two lists, cyclic dependencies, a resource that disappears |
| token watcher | `handle_token.go` | token in memory, watch | read, watch, re-watch | rotation between the read and the watch |
| geo monitor | `paas-geo-monitor` | configuration, gauges of the peers, BGP gauges | start, periodic check of each peer, list, reset and set of the BGP gauges, `/ping`, `/peers/status` | a pod replaced between two steps of a check, networks that swallow requests, a scrape between two writes, a list that fails |
| dr-managed service | outside; `tests/sm-dummy` is the reference | mode, status, health | accept a command, run a procedure | the fields are written one by one |

How they interact: `sm-client` asks the `site-manager` of both sites for their
dictionary (`GET /sitemanager`), prepares and validates, then for every service
of a module starts a thread that POSTs the new mode to the `site-manager` of a
site and polls the status there. `site-manager` looks the service up in its
dictionary and forwards the request to the service's endpoint with its token.
Threads hand results to the main thread over a queue; both write the result
lists. Resources reach `site-manager` through the watches of the API server,
and it answers the API server's admission requests from the same caches.

What makes each part correct:

- preparation and validation: whatever is started can run to its end; a failed
  site cannot veto a failover; a switchover runs in an order both sites agree
  on; no command leads into a forbidden pair of modes; every service is
  processed or reported as ignored;
- engine: a service is touched only after everything it waits for succeeded, a
  failure stops the flow, what went wrong with a service is never lost to a later
  result, the summary is complete and true, a switchover never leaves a service
  active on both sites, and the procedure ends;
- protocol: success means the service got there, one command reaches it once;
- registry: a name means one service, and the status shows the name in use;
- list, status and token: a service is in the dictionary as long as one API has
  it, an answer covers exactly what the service depends on, an error blames the
  right resource, every request ends, and requests carry a token that is still
  accepted;
- geo monitor: a gauge says what a check really met, no matter what changes
  during the check; Prometheus does not see the gauges of two checks as one; the
  BGP gauges are those of the last list and nothing of an earlier one; and all
  of them come to say what is so, after restarts and failures too.

## 2. The modules

| Module | What it is |
|---|---|
| `Preparation` | `run` from the dictionary of the cluster to the first command |
| `DRProcedure` | the engine: flow, sorter, threads, queue, result lists |
| `OrderedExecution` | abstract: what the engine promises about the order of services |
| `StatusPolling` | one command for one service, over `sm-client`, `site-manager` and the service |
| `ServicePhase` | abstract: what the engine assumes of one such command |
| `Registry` | resources, admission, dictionary and reconcilers of one site |
| `TokenWatcher` | the token in memory of `site-manager` and the mounted file |
| `StatusRequest` | a list or status request over the two APIs and the dependencies, composed with `TokenWatcher` |
| `PeerMonitor` | a check of a peer, the goroutine that keeps its gauges, and the network and pods it meets |
| `BgpMonitor` | the goroutine that lists CalicoNodeStatus resources and fills the BGP gauges |
| `GeoMonitor` | a paas-geo-monitor process: start and end, both kinds of goroutines, the API, scrapes |
| `MCDRProcedure`, `MCPreparation`, `MCRegistry`, `MCStatusRequest`, `MCGeoMonitor` | constants of the instances; `StatusPolling` gets its constants in the `.cfg` |
| `DRProcedureProofs`, `DRProcedureRefinement`, `DRProcedureModes` | theorems about the engine: order and lists; its refinement; modes and summary. Each extends the one before |
| `StatusPollingProofs`, `PreparationProofs`, `RegistryProofs`, `StatusRequestProofs`, `GeoMonitorProofs` | theorems about one component each |

The layers meet in three places. `Preparation` ends where `DRProcedure`
begins: `DRProcedure` takes the graphs (`After`) and the validated command as
given, and `GraphsRunnable` of `Preparation` is the assumption its waiting loop
rests on. `RefinesServicePhase` shows that the whole polling protocol implements
`ServicePhase`, whose steps are the thread actions of `DRProcedure`
(`PostAccepted` and `PostNoReply` request, `ServiceApplies` applies,
`ServiceFails` fails, the `Poll...` actions close). `RefinesOrderedExecution`
shows that threads, queue and sorter together implement `OrderedExecution`.

In `DRProcedure` and `Preparation` the sites are named relative to the command
line: "site" is the one the operator names.

### DRProcedure

Main thread: `SkipModule`, `BreakFlow`, `PassModule`, `StartModule`, `EndFlow`
are the branches of the loop in `run_dr_or_site_procedure`; `GetReady`,
`StartThread`, `SkipService`, `GetResult`, `FinishModule` are the loop of
`process_ts_services` cut where another thread can be seen: at `get_ready`, at
the start of a thread, at the blocking `get`, at the `join`. Threads: `Plan`
is the list of (site, mode) pairs of `sm_process_service_with_polling`, and
each phase is a POST (`PostNowhere`, `PostAccepted`, `PostNoReply`), polling
(`PollReached`, `PollHealthAllowed`, `PollUnhealthy`, `PollFailed`), or the
thread's death (`ThreadDies`), then `PutResult`. `SortOut` is
`sortout_service_results`, which both threads call. The services apply or drop
a request at any time, also after the client has given up.

`RemoveCR` deletes the custom resource of a service while the procedure runs. Only
the lookups notice (`Managed`): the service stays in its mode, and a request that
was sent before still arrives, even if its reply is lost (`PostNoReply`). What
`sm-client` hears from then on is "Service doesn't exist", which `structures.py:177`
counts as success; see `NeverActiveTwice` in section 6. `UsedSites` has the
fallback of `sm-client:105`: the modules in `cyclic` cannot be ordered from the
lists of both sites, and a failover then takes the surviving site's alone.

The procedure begins with services that are at rest: no request of an earlier
command is on its way. `StatusPolling` has those.

### StatusPolling

`sm-client` (`ClientPosts`, `ClientGivesUp`, `Poll`, `PollFails`, `Expire`),
the POST handler of `site-manager` with `DoPostRequest` (`LookupFails`,
`LookupDone`, `Delivered`, `DeliveredOtherwise`, `ReplyLost`, `AttemptFails`,
`SendFails`), the three
reads of a status (`ReadMode`, `ReadStatus`, `ReadHealth`) and the seven writes
of a run of sm-dummy (`RunWrites`). `mode` and `status` come from one GET of
the service, but sm-dummy writes them at different moments and builds its
answer without a lock; they are two reads. The request object of
`DoPostRequest` is made once, outside the retry loop: `body` says whether its
body has been consumed. `DeliveredOtherwise` is an answer of the service below 300
that is not a 200: `site-manager` then answers without a service name
(`cr_manager.go:172`), and the thread of the client dies.

The service need not be at rest: its last procedure may have failed, or it may
still run one of an earlier command (`earlier` is the next write of that run,
`goal` its mode; `EarlierWrites`, `EarlierFails`). A service that is running
drops the new request (`sm-dummy:161`), and while it runs, the client may take
the earlier run's end for its own, rightly if both ask for the same mode. A
command for another mode still under way is a `Conflict`: the mode may be read
before the earlier run changes it, and its `done` after. The abstract
`ServicePhase` has the earlier command as `other`, which may overtake the phase
(`Overtake`), and excuses a conflicting one. An earlier run that is still at
`queue` is left out: the reference service would start a second run beside it.

### Preparation

`OrderModule` is one turn of the first loop of `run` with everything it calls;
`RefuseModule` and `AcceptModule` are `validate_operation`; `Predict` is one
status request of `check_state_restrictions`, and `OtherClient` may change a
mode between two of them; a service nobody has asked about is `NotAsked` in
`seen`; `Start` records the ignored services. `Allowed`
holds the checks of the three validation functions that can refuse. The
read-only commands start nothing and are left out. Names are opaque:
`PartOf` stands for the substring test of `prepare.py:62`, and a cyclic graph
for the `CycleError` of graphlib.

### Registry

`Submit`, `Persist` and `Delete` are the API server as the webhooks see it: a
write is validated first and stored only if the resource has not changed since.
`ListLegacy` and `CheckLegacy` are the two lists behind `GetAllServices` with
the comparison of `validateServiceName`; `CheckNew` is the webhook of the new
API. A legacy write is shown to the webhooks of v3 and of v2 (the webhook
configuration of the chart leaves `matchPolicy` at its default), so its
full name is checked beside its alias. `V2Aliases` is what the conversion makes
of a v2 resource. `Deliver` moves a watch event into the cache and the work
queue; `Reconcile` and `UpdateStatus` are the two halves of a reconciler, which
a write can separate. `Restart` replaces the process.

`adopted` is a history variable: when a resource got its name (`at`), up to which
version each cache had been filled when it was checked (`asOf`), and which version
of the resource itself the name replaced (`over`). The stores at the start are
`Histories`: the resources in the order of their admission, each with what the
cache had seen by then (`seen`). `RegistryAssumption` allows two of one name only
where the webhooks would have let them pass.

### TokenWatcher and StatusRequest

`todo` is what is left of the preamble of `Start` (read, then watch) or of
`handleEvent` (watch, then read): the order is the whole difference, and the
two sequences say it. `ReadToken`, `AddWatch` and `HandleEvent` are the steps;
`WatcherFails` is an error of one of them, which ends the process
(`cmd/main.go:299`). `Rotate`, `RemoveOld` and `Expire` are the kubelet and the
API server: the path leads to a new file, the old file goes, the old token
expires, at any moment after the old file has gone, also while the event of its
removal waits to be handled: a request may then be refused until the file has been
read again (`RereadComes`). `settled` says that `handleEvent` has read the file
since the start.

`StatusRequest` begins with the dictionary. `Ask` reads the first of the two
lists of `GetAllServices`, in the order `Order` says; `CacheChanges` is an
informer that hears of a change before the second one is read (`ListNew`), so
the dictionary of `ConvertToDict` may mix two moments; `ListFails` is an error of
either list. `GET /sitemanager` and the procedure `list` answer with the
dictionary (`Listed`), `status` looks the service up in it (`Lookup`). `steady`
in `lists` is history: the services that one of the caches has had at every
moment so far and that were not moved back to the legacy API.

The module turns the recursion of `collectServicesStatuses` into the
sequence `pending` of calls still to make, each with the service that names it;
`Recursion` puts the lists of a visited service in front. Each visit is two
GETs (`AskService`, `StatusRead`, `HealthRead`) of up to three attempts with one
token (`AttemptFails`, `GetFails`, `Refused`). Two requests share nothing but
the token, so one at a time is modelled, and a client may ask again and again.

### PeerMonitor, BgpMonitor and GeoMonitor

`check[i]` is the goroutine `i` of the loop over `cfg.Peers` (`app.go:110`);
goroutine 0 is the one that answers `/peers/status`. `Resolve`, `PingService`
and `PingPod` are the three steps of `Peer.Status`, each ending in `Found`, which
is the early return or the next step. `Wake` is the end of the pause, and
`CreateGauge` and `SetGauge` are the two halves of `WithLabelValues(...).Set(...)`,
three times over: the library makes a missing series with the value 0 before
`Set` is called, and a scrape can see that. Routes answer, are slow (either
outcome) or swallow requests; pods start and stop; a service without pods may
be answered for by a proxy, and an address that is free again by another
application (`Other`) or by a new pod of another peer. That pod runs the same
monitor and answers with the same address (`AtAddress`, `MonitorPods`), so
`peer.go:122` takes it for the pod that answered first. Two fields are history: `amiss` of a check collects what
has spoken against the peer since the check began, `met` the steps in which the
peer itself really answered (for the last step: a monitor's pod at the
address the peer's pod gave); `because` keeps both with the gauge.

In `BgpMonitor` the goroutine lists (`List`), resets both vectors
(`ResetPeers`, `ResetRoutes`) and fills them in the order of the loops of
`UpdateBgpMetrics`. A *place* is one turn of an inner loop: an item of the list,
one of its two lists of entries, an entry. `Places` are all of them, `Precedes`
is the order of the loops, `IsNext` the place the loops have come to, and
`CreateSeries` and `SetSeries` are what is done there. `upd.left` is the set of
places still ahead. A list that fails leaves everything as it is; one that never
returns (`bgp.go:77` gives it no deadline) leaves the goroutine `hung` until the
process is restarted. Calico writes, stamps
and withdraws resources meanwhile, and the clock goes on.

`GeoMonitor` puts both into a process. `GetConfig` to `Listen` is the start in the
order of `Serve`, every error of which ends the process (`Ends`), also after the
pingers have been started; `Kill` and `Restart` come from outside. `RequestStatus`,
`CheckForRequest`, `CollectStatus` and `Reply` are `/peers/status`; `StartScrape`
and `ReadSeries` are Prometheus, which collects the vectors in any order.

## 3. The runs

| Run | Instance | Distinct states | What it shows |
|---|---|---|---|
| `safety` | the flow of the documentation, 3 services in 2 modules, every command, with and without `--force`, one site possibly down, lists that merge into a cycle, a lenient service, resources deleted on either site | 298 000 | the thirteen properties of the engine, with every thread reporting and the end of the procedure |
| `polling` | two targets, 3 modes, services that are done, failed or still running an earlier command for any mode, lost and failed attempts, answers without a name, failing runs, a deleted resource | 311 000 | the verdict is right, delivered once, implements `ServicePhase` |
| `preparation` | all listings of 2 services on 2 sites, 2 modules of the flow and one outside, missing dependencies, selections, 4 commands | 1 019 000 | the six properties of preparation and validation |
| `registry` | one name in two namespaces and both APIs, 2 clients, 2 writes, 1 restart, 5 initial stores | 393 000 | names, statuses |
| `status_request` | 3 names, lists of both APIs with cycles, a resource naming itself, shared and missing dependencies, caches that change between the two lists, list and status procedures, 2 rotations, expiries at any moment, 1 failure of the watcher | 283 000 | that a moved service is seen, what a status covers, what is blamed, that requests end, and the token |
| `geo_monitor` | 12 deployments: one and two peers, names given twice, BGP gauges of two nodes with two resources, deployments that lack something; an API server that answers, fails or hangs; up to 2 changes of the world, 1 request, 1 scrape, 1 kill | 381 000 | what a gauge and an answer mean, what a scrape may mix, the BGP gauges, and that the gauges come to say what is so |
| `hang`, `after_failure`, `one_sided`, `polling_torn`, `polling_lenient`, `preparation_dependencies` | small | - | one disagreement each, see section 7 |

Every property of a passing run has a mutant: a definition of the same module
with a comment `mutant:` that stands for a plausible mistake in the code. With
the mutant in place the property fails in that run.

Bounds, and why they are enough:

- *Services.* Three in the engine: a dependency, its successor and an
  independent one are all the relations `failed_successors` distinguishes; the
  theorems cover every number. Two in `Preparation`: a graph of two nodes has
  all the shapes the merge can get wrong (agreeing, contradicting, cyclic over
  the two sites, missing), and the proofs cover larger ones. Dependency lists
  of at most one entry in `preparation`; `preparation_dependencies` has two.
- *Flow.* The three steps of the documented flow contain every kind of step.
- *Polls.* Three: one before, one during and one after a run of the service.
- *Attempts.* Three, the constant in the code.
- *Writes and restarts in `Registry`.* Two concurrent writes are what a race
  on a name takes; the initial stores supply the history a third would make (one
  of them has two legacy resources of one name, admitted unseen of each other).
  The versions of the API server are not bounded, they stop with the writes.
- *Other clients in `Preparation`.* One change of a mode (`MaxMoves`).

- *Rotations.* Two: the second can fall between two steps of the answer to the
  first, or come while nothing is watched. The proofs cover any number.
- *Deployments of `GeoMonitor`.* Peers share nothing but the vectors of gauges, so
  two of them, or two of one name, show every interference. Two changes of the
  world are what it takes to replace a pod and its address within a check; one
  kill falls into every step of the start and of a check. The clock of the BGP
  gauges goes one period beyond the timeout.
- *Lists of `StatusRequest`.* Any number of changes may fall between the two
  lists, among the caches the constants allow.
- *Dictionaries of `StatusRequest`.* A cycle entered from outside, a resource
  that names itself, a service reached over both lists, and a missing name
  reached over two ways; the proofs cover all dictionaries.

The final states of `Preparation` and `Registry` (nothing left to do) and the
blocked states of `safety` with dead threads are not errors: those
configurations switch the deadlock check off. `polling`, `status_request` and
`geo_monitor` keep it.

## 4. Fairness

- `DRProcedure!FairSpec`: weak fairness of the main thread and of every service
  thread. The operating system schedules them, requests have timeouts, and
  polling has a clock (`processing.py:218`), so no thread stays in a phase for
  ever. The services get none: the procedure ends even if they never answer.
- `StatusPolling!FairSpec`: weak fairness of client and manager together and of
  the service's run. `PhaseEnds` needs only the first.
- `Registry!Fairness`: watches deliver, the workers of controller-runtime take
  what is queued. No fairness for clients and restarts, which are bounded.
- `StatusRequest!FairSpec`: weak fairness of the watcher's goroutine, of the
  request's goroutine (its lists come from caches, every GET has a timeout,
  `cr_manager.go:74`) and of the
  kubelet removing what it has replaced. None for rotations, failures or clients.
- `GeoMonitor!FairSpec`: weak fairness of the start, of the kubelet's restart, of
  each pinger, of the BGP goroutine and of the handlers: the goroutines have
  work or a pause of fixed length, a GET has a timeout (`client.go:33`); a list of
  the BGP goroutine has none, and may go to `hung`. None for
  kills, changes of the world, requests, scrapes or the clock.
- `Preparation` has safety properties only.

## 5. What is proved

All theorems are about `Spec` and any constants that satisfy the `ASSUME`s
(TLC evaluates those in the runs). Every invariant, every action property and
both refinements that a passing run checks are theorems; what follows says what
each needs beyond itself.

**DRProcedureProofs.** `TypeCorrect` is proved first with two strengthenings:
a thread's phase stays inside its plan (`PlanBound`, which needs that the plan
of a service does not change while a module runs, `PlanStable`), and no thread
runs between modules. `DependenciesRespected` and `DeathIsNoticed` rest on
`OrderInv`: what the sorter has marked done has a collected result (`Sorted`),
a result is in the queue at most once and only of a finished thread
(`QueueFresh`), and the successors of a failed service are marked before the
sorter can hand them out (`Marked`). `DependenciesAreOk` alone is not
inductive: it does not say that a service handed out after a failure is in
`failed_successors`. `ListsNeverOverlap` follows from what `SortOut` and
`SkipServices` do in any interleaving. `BlemishesAreFinal` is an action property:
a response that is not a success is sorted twice, by its thread and by the main
thread, with responses of other sites and skips in between, and from the first
time on its service stays among the warned, failed and skipped ones; the mutant
`SortOut_Clears`, in which a later success clears the warning, breaks it.
`SkipsAreJustified`
adds `CauseInv` (whatever is marked has a failed or skipped predecessor), and
`FailuresStopTheFlow` adds `FlowInv` (with `dr_status` true between modules
there is no failure on record).

**DRProcedureRefinement.** `ImplementsOrderedExecution`: every step of the main
thread, a service thread or the environment is a step of `OrderedExecution` or a
stutter. Two things have to be known. Whether a module ends well is decided from
the list of failures, while `OrderedExecution` decides it from the outcomes:
`RecordInv` says that each collected response that is not ok, each marked and
each skipped service has led to a failure on record, and that every failure on
record has such a response. And the waiting loop may end only when everything is
collected, which needs graphs without cycles: `AcyclicAssumption`, which is what
`StartedGraphsRunnable` of `PreparationProofs` shows of whatever is started.

**DRProcedureModes.** `SummaryIsComplete`: a collected service is in one of the
lists and no list loses it but to another one (`ReportInv`); the steps of the
flow that are left out leave their services in the lists too, or do not concern
the command.

`SwitchoverNeverTwice`: that no service is active on both sites is not
inductive, because a request accepted long ago may still be carried out. For each
service `GuardInv` says that nothing but `standby` is ever on its way to the site
that gives it up, that `active` is on its way to the other one only after it was
seen to be given up, and that a thread in the second half of its plan, or a later
step of the flow after a passivation without failures, has seen that
(`SeenGivenUp`, `PassivatedBefore`). The services of a switchover are listed by
both sites; validation has seen to that. "Seen" is worth something only as long as
the resource is there: for a service whose resource on the passivated site has
been deleted `GuardInv` says nothing, and neither does the theorem.

`SummaryIsTrue`, under `OneListing` and `BothHalves`: `ReportedIsApplied` speaks
of the end and says nothing before. `AppliedInv` follows a service through the
flow (`KeptInv`): a site has, and is only ever sent, modes the command promises
it, from the moment a step that commands the site has been passed with success.
It is kept because one command never asks a site for two modes (`PlanPromised`),
so a request that arrives late does no harm, and because a response that is not
ok is on a list that is not `done` (`WrongIsListed`).

**StatusPollingProofs.** `CommandedOnce`: the body is unread as long as nothing
was delivered (`Once`). `SuccessesAreReal`, for allowed lists without `down` and
`degraded`: the invariant relates the position of the run in its writes to the
fields (`RunInv`, with no run before a delivery, and with the run of an earlier
command, which sets its `done` before a new one is begun), and the fields already read to
what the service has passed (`DataInv`): a torn answer with `done`, the requested
mode and an allowed health can only be read after the last write of the mode.
The invariant holds for every allowed list; `Excused` names the verdicts that
may be wrong, a conflicting earlier command among them. `ImplementsServicePhase`
maps the handler, the request's body and the run to what is outstanding
(`Outstanding`), and the run of the earlier command to `other`: the reply that is lost, the
attempts and the reads are stutters, and a late handler may still apply the mode
after the client has closed the phase, which is why `ServicePhase` has to allow it.

**PreparationProofs.** `StartedGraphsRunnable` and `FailoverSurvives`: the
invariant says that every ordered module has the order `Ordering` computes from
the dictionary, and that validation has passed for the modules it has left
behind. Neither the graph nor the verdict changes afterwards because nothing
they are made from does (the `Kept...` lemmas). A graph of a started procedure
is then an order without cycles; a failover that is refused although the
surviving site answered has a module with no order, and that order was last
tried over the surviving site alone. `NothingForgotten` adds `AccountInv`: what
has been listed is what the modules behind had to validate. `NothingRestricted`
adds `LookedInv`: every restricted service of a module behind was asked for its
mode and was not on the way into a forbidden state; `Unambiguous` is what turns
"restricted and validated with a module" into "in the module's graph"
(`ProcessedIsValidated`). `SitesAgree` needs no further invariant. Validation
compares the dependencies of the sites by containment, the graph is built from the
first entries, and with one entry at the most the two say the same: the edges of
either site are those of both, so the orders are one.

**RegistryProofs.** The objects of a resource live in several places at once: the
server, a cache, events on the way, a worker, an admission. `View` is any of
them, and one lemma (`StepWrites`) says that a step only copies views or writes
once. `StatusesAreCurrent` is then `VersionInv`: two views of a resource with the
same version are the same object, so the conflict check of the API server sees
to it that a status belongs to the present. For `TwinsAreUnseen`, `UidInv` gives
every uid one resource (the webhooks compare uids), `LogInv` and `FollowInv` say
what a cache must show once it has seen a version (`Follows`: from the version
at which a resource took its name on, only objects of that name), and
`RequestInv` says what an admission in flight has been told. `TwinsUnseen` by
itself is not inductive, because a write in flight may be about to make twins: a
resource that took the requested name before the cache was read was either
noticed, or is shadowed by the new API, or hidden by an old version of the
requester.

**StatusRequestProofs.** `HeldTokenAccepted`: from the first handled event on the
token in memory is accepted or about to be read again. `TokenAccepted` says
nothing about the watch; `TokenInv` does (`Attentive`): after the first handled event the goroutine is
about to read, or an event is queued, or the watch stands on a file that is
held or about to be removed. `StatusCoversDependencies` and
`MissingDependencyNamed` share `RequestInv`: a pending call is the request's own
or was made for a list of a service already found, and what a found service
names is found or pending. When nothing is pending the found services are
closed, so they hold the least closed set, and no call was ever outside it.
`MovedServiceSeen` needs `ListInv`: a steady service is in the list that was read,
or it is only in the cache of the new API; with the order of the two lists
reversed this is not preserved, and the mutant `Order_NewFirst` shows why.
`TypeCorrect` needs the shape of a request at each stage (`Shape`).

**GeoMonitorProofs.** `GaugesSayWhatWasMet` and `ScrapesAreWhole` share
`ProcessInv`. A gauge with a reason is not inductive alone: a check under way
must know everything that speaks against its peer now, and the address it pings
must be one of the peer's or known to be out of date (`CheckOK`), or a later
answer would add a reason nobody has met. What the theorem says of the last step
is what the code can know: a monitor's pod answered at the address the peer's pod
gave. `GaugesWhole` says how far a check has
written its gauges: at rest they are one rung of the ladder. It needs that a name
has one goroutine, which is what `Accepted` checks; without that check the mutant
`Accepted_Shared` tears a scrape. `ScrapeInv` says that what has been read of a
name that was met at rest is what its gauges still say, or joins the scrape's
`flux` when its gauges are touched.

`BgpGaugesShowTheList` rests on `BgpInv`: while the vectors are filled the places
done precede those ahead, and the series there are those of the places done, with
one more at the next place at the most; the value of a series fits the last
place done that sets it (`Fits`, which allows -1 as soon as the resource is out
of date and is therefore kept as the clock goes on). When no place is left, the
last of the places done is `LastPlace`.

Only model-checked: the seven properties under fairness (`SurvivorsReport`,
`OnlyDeathBlocks`, `PhaseEnds`, `StatusesSettle`, `TokenArrives`, `StatusEnds`,
`GaugesFollow`); the prover knows neither fairness nor `ENABLED`. The
properties of the runs that show a disagreement are false, and have no theorem.

## 6. What the properties leave out

- `NeverActiveTwice` and `ReportedIsApplied` exclude services with a lenient
  standby health, and `SuccessesAreReal` assumes there are none: for these the
  run `polling_lenient` shows that success can be reported too early.
- `ReportedIsApplied` is checked and proved where both sites list the same
  services (`OneListing`); `one_sided` shows it fails otherwise. A flow that only
  passivates a module in a failover, say, would report its services as done with
  nothing promised to the other site (`BothHalves`); the documented flow has both.
- `NeverActiveTwice` starts from modes in which no service is active twice
  (`OneActiveAssumption`), and covers services that passivate first. It excludes a
  service whose custom resource is deleted on the opposite site while a switchover
  runs: the answer "Service doesn't exist" is a success, the service stays active
  there because nobody stops it, and the procedure activates it here. That really
  is a service active on both sites; without the hypothesis
  `s \notin removed["opposite"]` TLC finds it. `ReportedIsApplied` likewise leaves
  out the sites on which the resource was deleted.
- The engine starts with services at rest. What an earlier command that is still
  under way can do to a phase is in `StatusPolling`: `SuccessIsReal` and
  `RefinesServicePhase` except one for another mode (`Conflict`; without that TLC
  finds a success read while the earlier run changes the mode), so the theorems
  about modes do not cover two commands that contradict each other.
- `EveryServiceReported` counts the modules before the break of the flow
  (`processing.py:46`); what comes after it is neither processed nor reported.
- `OnlyDeathBlocks` promises the end of a procedure unless a thread has died, and
  `SurvivorsReport` the report of the threads that have not; `hang` shows what a
  dead one does.
- `RestrictionsHold` holds for the modes that were looked at. A mode that was
  not recognised is let through, and another client may act in between.
- `RestrictionsHold` and `SwitchoverAgrees` ask that the module of a service is
  beyond doubt (`Unambiguous`), `SwitchoverAgrees` also that no list of
  dependencies has two entries (`SingleDeps`, see `preparation_dependencies`).
  Two sites that name different modules for a service, or a module whose name is
  part of another's, put a service into a graph although validation looked for it
  elsewhere: with `--run-services` it is then skipped there (`validation.py:290`),
  and a `return` can start into a restricted state that nobody looked at.
- `TwinsUnseen` does not say that names are unique; it says that only a check on
  a cache that was behind, or a new resource over a legacy one, makes twins. A
  cache that still shows the resource itself under an earlier name counts as
  behind: `convertToDict` keeps one of two legacy resources of a name, and if that
  is the old self, the other one is not noticed.

- `TokenAccepted` and `TokenArrives` speak of the time after the first handled
  event. `Start` reads before it watches (`handle_token.go:92`, `:96`): a
  rotation in between is missed until the next one, and requests may be refused
  once the old token has expired. Requests before the first read carry no token.
- `TokenAccepted` does not say that no request is refused: a token may expire while
  the event that announces the next one waits to be handled. It says that
  `site-manager` never rests on such a token.
- `MovedServiceIsSeen` does not cover a service that is in neither cache for a
  moment or that is moved back to the legacy API: such a service may be missing
  from a dictionary, and `sm-client` takes a missing service as done in a failover.
- `GaugesAreReal` allows the 0 a new series begins with (`BeingCreated`): a scrape
  just after the first check may see it.
- `GaugesAreReal` and what `/peers/status` says do not tell a peer's pod from a pod
  of another peer that took its address over between the two pings: the code
  compares addresses only, and the model lets this happen.
- `BgpShowsList` permits that series are missing while the vectors are filled.
- `TornOnlyInFlux` does not forbid that a scrape mixes two checks; it says that
  only one that met a check being written does.
- `GaugesFollow` promises the present state of the BGP gauges only while the API
  server answers: as long as the list fails the old values stay, and none becomes
  -1. A list that never returns keeps them so until a restart, and is excepted. Its
  peers are those on a network fast enough for the timeout.

## 7. Disagreements between the code and what is said of it

1. `hang`: an error answer without a service name kills the thread before it
   queues a result, and the main thread waits for ever.
2. `after_failure`: after a failure, services of the same module are still
   started; the documentation says none are.
3. `one_sided`: a service only the surviving site lists is reported as done in a
   failover although it was never activated.
4. `polling_torn`: a service is reported as failed because the status of the
   time before its procedure is paired with a health of the time within.
5. `polling_lenient`: with `down` allowed on a standby site, the status before
   the procedure ends polling with success.
6. `preparation_dependencies`: only the first entry of `after` and of `before`
   orders anything.

## 8. Not modelled

Parsing, tables, logging, dry runs and the `status`, `list` and `version`
commands of `sm-client`; TLS, routing and authorization of the API; leader
election between two `site-manager` processes during a rolling update; the
fields a conversion copies unchanged; charts, CI and sm-check. The kubelet
never writes a mounted token in place, so the branch of `handleEvent` for
`Create` and `Write` is not reached, and errors of inotify itself, which are
only logged, do not occur. The testing mode of `site-manager`, which takes the
dictionary from a file; the version v1 of the legacy resources, which the chart
does not serve; address families and ports of `paas-geo-monitor`. A name of a
module that is part of another one's (`prepare.py:62`) is a parameter of
`Preparation` (`PartOf`) that the run does not exercise.

## 9. Plan

Order of work, the most important behaviour first.

1. *(done)* `DRProcedure` with `OrderedExecution`; type correctness, the order
   of services and the result lists proved.
2. *(done)* `StatusPolling` with `ServicePhase`; delivery and verdict proved.
3. *(done)* `Preparation`; the two guarantees the engine relies on proved.
4. *(done)* `Registry`, checked.
5. *(done)* `TokenWatcher` and `StatusRequest`, with the two lists of the
   dictionary; the token, the moved service, the closure and the blame proved.
6. *(done)* `PeerMonitor`, `BgpMonitor` and `GeoMonitor`; what gauges mean and
   what a scrape may mix proved.
7. *(done)* The two refinements; modes, summary and their truth in the engine;
   restrictions, accounting and the agreement of the sites in `Preparation`;
   names and statuses of `Registry`; the BGP gauges; types of every component.
8. Left: what a recursive walk computes for every dictionary can be stated only
   as closure (`StatusIsClosure`), not as the result of the recursion; the
   liveness properties stay with TLC. Worth adding are the substring test of
   `prepare.py:62` and an empty selection (`sm-client:323`) as instances of their
   own, and action properties of `Registry` about what one admission may change.
