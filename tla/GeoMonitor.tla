------------------------------- MODULE GeoMonitor -------------------------------
(***************************************************************************)
(* A paas-geo-monitor process: the start of cmd/root.go and pkg/app/app.go *)
(* with every error that ends it, the goroutines of PeerMonitor and        *)
(* BgpMonitor, a request for /peers/status, and Prometheus, which reads    *)
(* the gauges one after the other while the goroutines write them.  The    *)
(* kubelet starts a process that has ended again.                          *)
(***************************************************************************)
EXTENDS PeerMonitor, BgpMonitor

\* A deployment: its configuration file and environment, and the bounds on what
\* happens to it: changes of the world, requests, scrapes and kills.
CONSTANT Deployments

Switches == {"on", "off", "bad"}

ASSUME DeploymentsAssumption ==
  \A d \in Deployments :
    /\ d.peers \in Seq([name : Names, peer : Peers, url : BOOLEAN])
    /\ Len(d.peers) <= MaxPeers
    /\ d.pingIp \in BOOLEAN /\ d.kube \in BOOLEAN /\ d.ping \in Switches /\ d.bgp \in Switches
    /\ d.changes \in Nat /\ d.requests \in Nat /\ d.scrapes \in Nat /\ d.kills \in Nat

VARIABLES
  deployment,
  phase,     \* "load", "environment", "pingers", "bgp", "listen", "up", "exited"
  health,    \* paas_geo_monitor_health
  request,   \* to /peers/status: how many peers have been asked, the answer so far
  scrape,    \* of /metrics: series still to read, what was read, names it met in flux
  spent      \* counts against the bounds of the deployment

procVars == <<deployment, phase, health, request, scrape, spent>>
vars == <<peerVars, bgpVars, procVars>>

NoRequest == [next |-> 0, answer |-> <<>>]
AllSeries == {config[i].name : i \in DOMAIN config} \X Kinds
NoScrape == [todo |-> {}, seen |-> [n \in Names |-> NoGauges], flux |-> {}]

Spend(what) == spent[what] < deployment[what] /\ spent' = [spent EXCEPT ![what] = @ + 1]

---------------------------------------------------------------------------
(* The start: GetConfig and Serve *)

\* Init makes the two URLs of a peer, or fails.
Initialized(peer) == peer.url

\* mutant: two peers may share a name.
Accepted_Shared(peers) == \A i \in DOMAIN peers : Initialized(peers[i])

\* Names are unique, and every peer has its URLs.
Accepted(peers) ==
  /\ \A i, j \in DOMAIN peers : i # j => peers[i].name # peers[j].name
  /\ \A i \in DOMAIN peers : Initialized(peers[i])

Goes(from, to) == phase = from /\ phase' = to

\* Whatever ends the process: its memory is gone.
Ends ==
  /\ phase' = "exited"
  /\ PeerReset /\ BgpReset
  /\ health' = 0 /\ request' = NoRequest /\ scrape' = NoScrape
  /\ UNCHANGED <<crs, clock, api, deployment>>

GetConfig ==
  /\ phase = "load"
  /\ \/ /\ Accepted(deployment.peers)
        /\ config' = deployment.peers /\ phase' = "environment"
        /\ UNCHANGED <<net, pods, check, gauge, because, bgpVars,
                       deployment, health, request, scrape, spent>>
     \/ ~Accepted(deployment.peers) /\ Ends /\ UNCHANGED spent

\* PING_IP, PAAS_PING_PEERS and PAAS_PING_TIME.
ReadEnvironment ==
  /\ \/ /\ deployment.pingIp /\ deployment.ping # "bad"
        /\ Goes("environment", "pingers")
        /\ UNCHANGED <<peerVars, bgpVars, deployment, health, request, scrape>>
     \/ /\ ~(deployment.pingIp /\ deployment.ping # "bad")
        /\ phase = "environment" /\ Ends
  /\ UNCHANGED spent

StartPingers ==
  /\ Goes("pingers", "bgp")
  /\ check' = IF deployment.ping = "on"
              THEN [c \in Checkers |-> IF c \in DOMAIN config
                                       THEN Check("sleep", NoAnswer) ELSE check[c]]
              ELSE check
  /\ UNCHANGED <<net, pods, config, gauge, because, bgpVars,
                 deployment, health, request, scrape, spent>>

\* A client set is made of KUBECONFIG or of what the pod is given.
GetClientSet(d) == d.kube

BgpStarts(d) == d.bgp = "off" \/ (d.bgp = "on" /\ GetClientSet(d))

\* The pingers are already at work when a bad period, timeout or client set is met.
StartBgp ==
  /\ \/ /\ BgpStarts(deployment)
        /\ Goes("bgp", "listen")
        /\ upd' = IF deployment.bgp = "on" THEN Updater("list", <<>>, 0, {}) ELSE upd
        /\ UNCHANGED <<peerVars, crs, clock, api, series, deployment, health, request, scrape>>
     \/ ~BgpStarts(deployment) /\ phase = "bgp" /\ Ends
  /\ UNCHANGED spent

Listen ==
  /\ Goes("listen", "up")
  /\ UNCHANGED <<peerVars, bgpVars, deployment, health, request, scrape, spent>>

Startup == GetConfig \/ ReadEnvironment \/ StartPingers \/ StartBgp \/ Listen

\* A signal, or a port that is taken.
Kill == phase # "exited" /\ Spend("kills") /\ Ends

Restart == Goes("exited", "load") /\
  UNCHANGED <<peerVars, bgpVars, deployment, health, request, scrape, spent>>

---------------------------------------------------------------------------
(* The API *)

\* The probes of the kubelet and the peers get here.
PingHandler ==
  /\ phase = "up" /\ health' = 1
  /\ UNCHANGED <<peerVars, bgpVars, deployment, phase, request, scrape, spent>>

\* The next peer of the list, if there is one, is checked by goroutine 0.
AskPeer(k) ==
  IF k \in DOMAIN config THEN Begin(0, config[k].peer)
                         ELSE check' = [check EXCEPT ![0] = Check("off", NoAnswer)]

RequestStatus ==
  /\ phase = "up" /\ request.next = 0 /\ Spend("requests")
  /\ AskPeer(1)
  /\ request' = [next |-> 1, answer |-> <<>>]
  /\ UNCHANGED <<net, pods, config, gauge, because, bgpVars, deployment, phase, health, scrape>>

CheckForRequest ==
  /\ Status(0)
  /\ UNCHANGED <<bgpVars, procVars>>

\* What a check found, and what was behind it, for the answer.
Finding(c) == [status |-> check[c].status, amiss |-> check[c].amiss, met |-> check[c].met]

CollectStatus ==
  /\ check[0].at = "done"
  /\ AskPeer(request.next + 1)
  /\ request' = [next |-> request.next + 1, answer |-> Append(request.answer, Finding(0))]
  /\ UNCHANGED <<net, pods, config, gauge, because, bgpVars,
                 deployment, phase, health, scrape, spent>>

AllAsked == request.next > Len(config)

Reply ==
  /\ request.next > 0 /\ AllAsked
  /\ request' = NoRequest /\ check' = [check EXCEPT ![0] = Check("off", NoAnswer)]
  /\ UNCHANGED <<net, pods, config, gauge, because, bgpVars,
                 deployment, phase, health, scrape, spent>>

Handlers == CheckForRequest \/ CollectStatus \/ Reply

---------------------------------------------------------------------------
(* Prometheus *)

\* A finished check is not yet in all of the gauges of n.
InFlux(n) ==
  \E i \in DOMAIN config : config[i].name = n /\
    \E j \in DOMAIN check[i].left :
       gauge[n][check[i].left[j]] # Verdict(check[i].status)[check[i].left[j]]

StartScrape ==
  /\ phase = "up" /\ scrape.todo = {} /\ Spend("scrapes")
  /\ scrape' = [todo |-> AllSeries, seen |-> [n \in Names |-> NoGauges],
                flux |-> {n \in Names : InFlux(n)}]
  /\ UNCHANGED <<peerVars, bgpVars, deployment, phase, health, request>>

\* The registry collects from the vectors concurrently: any order.
ReadSeries ==
  /\ \E s \in scrape.todo :
       scrape' = [scrape EXCEPT !.todo = @ \ {s}, !.seen[s[1]][s[2]] = gauge[s[1]][s[2]]]
  /\ UNCHANGED <<peerVars, bgpVars, deployment, phase, health, request, spent>>

---------------------------------------------------------------------------

\* A scrape under way meets what a pinger leaves in flux.
PingerOf(i) ==
  /\ i \in DOMAIN config /\ check[i].at # "off"
  /\ Pinger(i)
  /\ scrape' = IF scrape.todo = {} THEN scrape
               ELSE [scrape EXCEPT !.flux = @ \union {n \in Names : InFlux(n)'}]
  /\ UNCHANGED <<bgpVars, deployment, phase, health, request, spent>>

BgpUpdater == Update /\ UNCHANGED <<peerVars, procVars>>

\* Nothing of the BGP part changes in a deployment without it.
World ==
  /\ Spend("changes")
  /\ \/ deployment.peers # <<>> /\ PeerWorld /\ UNCHANGED bgpVars
     \/ deployment.bgp = "on" /\ (Report \/ Withdraw \/ ApiChanges) /\ UNCHANGED peerVars
  /\ UNCHANGED <<deployment, phase, health, request, scrape>>

Time == deployment.bgp = "on" /\ Tick /\ UNCHANGED <<peerVars, procVars>>

Init ==
  /\ PeerInit /\ BgpInit
  /\ deployment \in Deployments
  /\ phase = "load" /\ health = 0 /\ request = NoRequest /\ scrape = NoScrape
  /\ spent = [w \in {"changes", "requests", "scrapes", "kills"} |-> 0]

Next ==
  \/ Startup \/ Kill \/ Restart
  \/ PingHandler \/ RequestStatus \/ Handlers \/ StartScrape \/ ReadSeries
  \/ (\E i \in 1 .. MaxPeers : PingerOf(i)) \/ BgpUpdater
  \/ World \/ Time

Spec == Init /\ [][Next]_vars

\* The goroutines are scheduled and a GET has a timeout; the kubelet restarts what
\* has ended.
FairSpec ==
  /\ Spec
  /\ WF_vars(Startup) /\ WF_vars(Restart) /\ WF_vars(BgpUpdater) /\ WF_vars(Handlers)
  /\ \A i \in 1 .. MaxPeers : WF_vars(PingerOf(i))

---------------------------------------------------------------------------
(* Properties. *)

TypeOK ==
  /\ PeerTypeOK
  /\ deployment \in Deployments
  /\ phase \in {"load", "environment", "pingers", "bgp", "listen", "up", "exited"}
  /\ health \in {0, 1}
  /\ request.next \in 0 .. MaxPeers + 1 /\ Len(request.answer) <= request.next
  /\ scrape \in [todo : SUBSET (Names \X Kinds), seen : [Names -> [Kinds -> {NoSeries, -1, 0, 1}]],
                 flux : SUBSET Names]
  /\ config \in {<<>>, deployment.peers}
  /\ clock \in Nat /\ api \in ApiStates
  /\ upd.at \in {"off", "list", "hung", "resetPeers", "resetRoutes", "fill", "sleep"}

\* With starts a series at 0, and Set follows.
BeingCreated(n, k) ==
  because[n][k] = {} /\ \E i \in DOMAIN config :
                           config[i].name = n /\ check[i].left # <<>> /\ Head(check[i].left) = k

\* A gauge that says a peer is reachable was set after its service handed the check to
\* one of its pods and a monitor's pod answered at the address that one gave; a gauge
\* that says it is not was set after a check during which something was in the way.
\* No 1 comes from another application at an old address, no 0 from a pod that was
\* replaced before the check began.  A pod of another peer that takes the address over
\* between the two pings is not told apart, since only addresses are compared.  The
\* same holds of what a request to /peers/status is told.  app.go:253, peer.go:122.
GaugesAreReal ==
  /\ \A n \in Names, k \in Kinds :
       /\ gauge[n][k] = 1 => "met" \in because[n][k]
       /\ gauge[n][k] = 0 => "amiss" \in because[n][k] \/ BeingCreated(n, k)
  /\ \A i \in DOMAIN request.answer, k \in Kinds :
       LET f == request.answer[i]
       IN  (f.status[k] = "yes" => k \in f.met) /\ (f.status[k] = "no" => k \in f.amiss)

Rung(dns, svc, pod) == [k \in Kinds |-> CASE k = "dns" -> dns [] k = "svc" -> svc [] k = "pod" -> pod]
Ladder == {Rung(0, -1, -1), Rung(1, 0, -1), Rung(1, 1, 0), Rung(1, 1, 1)}

\* A scrape mixes the verdicts of two checks only if it met one being written; met
\* at rest, the gauges of a name are those of one check of one peer.  app.go:253.
TornOnlyInFlux ==
  scrape.todo = {} =>
    \A n \in Names \ scrape.flux : scrape.seen[n] \in Ladder \union {NoGauges}

\* What a peer looks like on its present network, if that is fast enough to tell.
TrueVerdict(p) ==
  IF net[p].dns # "one" THEN Rung(0, -1, -1)
  ELSE IF net[p].svc = "hole" \/ pods[p] = {} THEN Rung(1, 0, -1)
  ELSE IF net[p].pod = "hole" THEN Rung(1, 1, 0) ELSE Rung(1, 1, 1)

PeerShown(i) ==
  LET e == deployment.peers[i]
  IN  (check[i].at = "sleep" /\ net[e.peer].svc # "slow" /\ net[e.peer].pod # "slow") =>
        gauge[e.name] = TrueVerdict(e.peer)

Works(d) == Accepted(d.peers) /\ d.pingIp /\ d.ping # "bad" /\ BgpStarts(d)

\* Once networks, pods and resources stay as they are, the gauges come to say so and
\* keep saying so between two checks, after kills and failed lists, and although
\* requests may be swallowed; only while the API server does not answer the BGP
\* gauges keep their old values, and for good if a list of theirs never returns.  A
\* process that lacks what it needs never serves, although its pingers may have been
\* started.  app.go:142, :223, client.go:33, bgp.go:77.
GaugesFollow ==
  /\ ~Works(deployment) => [](phase # "up")
  /\ Works(deployment) => <>[](phase = "up")
  /\ \A i \in 1 .. MaxPeers :
       (Works(deployment) /\ deployment.ping = "on" /\ i \in DOMAIN deployment.peers) =>
          []<>(check[i].at = "sleep") /\ <>[]PeerShown(i)
  /\ (Works(deployment) /\ deployment.bgp = "on") =>
       \/ <>[](upd.at = "hung")
       \/ /\ []<>(upd.at = "sleep")
          /\ <>[](api = "answers") => <>[](upd.at = "sleep" => ShowsNow)
================================================================================
