------------------------------ MODULE PeerMonitor ------------------------------
(***************************************************************************)
(* How paas-geo-monitor judges a peer, the instance of itself in another   *)
(* cluster: Status of pkg/resources/peer.go with the client of pkg/client  *)
(* (resolve the name of the service, ping the service, ping the pod that   *)
(* answered), and the goroutine of pkg/app/app.go that keeps three gauges  *)
(* of a peer up to date.  A peer answers /ping with the address of its     *)
(* pod; pods and routes come and go between the steps of a check.          *)
(***************************************************************************)
EXTENDS Integers, Sequences

CONSTANTS
  Names,      \* names of peers, the label of their gauges
  Peers,      \* the services behind them
  Addresses,  \* of pods
  NoAnswer,   \* a GET that ends with an error
  Other,      \* an answer that is not the address of the pod asked
  InitialPods, \* of every peer, when a behaviour begins
  MaxPeers    \* bound: length of the configuration

ASSUME PeersAssumption ==
  /\ NoAnswer \notin Addresses /\ Other \notin Addresses /\ NoAnswer # Other
  /\ InitialPods \in [Peers -> SUBSET Addresses]
  /\ MaxPeers \in Nat

VARIABLES
  net,      \* of each peer: what its name resolves to, the routes to service and pods
  pods,     \* addresses of the pods behind the service of each peer
  config,   \* cfg.Peers, empty until it is loaded
  check,    \* of each goroutine that checks a peer: how far it is and what it has found
  gauge,    \* peer_dns_status, peer_svc_status, peer_pod_status of each name
  because   \* history: what there was behind the value of a gauge when it was set

peerVars == <<net, pods, config, check, gauge, because>>

Kinds == {"dns", "svc", "pod"}
NoSeries == -2
NoGauges == [k \in Kinds |-> NoSeries]

\* A route answers, or may take longer than the timeout, or swallows the request.
Networks == [dns : {"one", "many", "none"}, svc : {"up", "slow", "hole"},
             pod : {"up", "slow", "hole"}]

\* The loop over cfg.Peers has goroutines 1 .. MaxPeers; 0 answers /peers/status.
Checkers == 0 .. MaxPeers

NoStatus == [k \in Kinds |-> "nil"]
Check(stage, p) == [at |-> stage, peer |-> p, status |-> NoStatus, address |-> NoAnswer,
                    amiss |-> {}, met |-> {}, left |-> <<>>]
Off == [c \in Checkers |-> Check("off", NoAnswer)]

Checking(c) == check[c].at \in Kinds

\* What speaks against a peer on a network n with the pods behind its service.
Troubles(n, behind) ==
  {k \in Kinds : \/ k = "dns" /\ n.dns # "one"
                 \/ k = "svc" /\ (n.svc # "up" \/ behind = {})
                 \/ k = "pod" /\ n.pod # "up"}

---------------------------------------------------------------------------
(* Networks and pods *)

\* The checks of p under way remember what speaks against it meanwhile.
Remember(p, troubles, gone) ==
  check' = [c \in Checkers |->
              IF Checking(c) /\ check[c].peer = p
              THEN [check[c] EXCEPT !.amiss = @ \union troubles \union
                      (IF check[c].address \in gone THEN {"pod"} ELSE {})]
              ELSE check[c]]

NetChanges(p) ==
  /\ \E k \in Kinds, q \in {"one", "many", "none", "up", "slow", "hole"} :
       /\ net[p][k] # q
       /\ net' = [net EXCEPT ![p][k] = q]
       /\ net'[p] \in Networks
  /\ Remember(p, Troubles(net'[p], pods[p]), {})
  /\ UNCHANGED <<pods, config, gauge, because>>

PodStarts(p) ==
  /\ \E a \in Addresses : /\ \A q \in Peers : a \notin pods[q]
                          /\ pods' = [pods EXCEPT ![p] = @ \union {a}]
  /\ UNCHANGED <<net, config, check, gauge, because>>

PodStops(p) ==
  /\ \E a \in pods[p] : /\ pods' = [pods EXCEPT ![p] = @ \ {a}]
                        /\ Remember(p, Troubles(net[p], pods'[p]), {a})
  /\ UNCHANGED <<net, config, gauge, because>>

PeerWorld == \E p \in Peers : NetChanges(p) \/ PodStarts(p) \/ PodStops(p)

---------------------------------------------------------------------------
(* Peer.Status *)

\* PING_IP is the address of the pod (status.podIP in the chart).
Ping(a) == a

\* mutant: the client has no timeout.
Answers_NoTimeout(route, replies) == IF route = "hole" THEN {} ELSE replies

\* HttpClient.Get with its timeout of five seconds; the status code of an answer is
\* not looked at.
Answers(route, replies) ==
  (IF route = "hole" THEN {} ELSE replies) \union (IF route = "up" THEN {} ELSE {NoAnswer})

\* The service hands a request to one of its pods; with none it is refused, or a
\* proxy on the way answers with a page of its own.
BehindService(p) == IF pods[p] = {} THEN {NoAnswer, Other} ELSE {Ping(a) : a \in pods[p]}

\* The pods of all peers run this monitor.
MonitorPods == UNION {pods[p] : p \in Peers}

\* The address of a pod that is gone may belong to a pod of another peer, which says
\* the same of itself, or to another application.
AtAddress(p, a) ==
  CASE a \in pods[p] -> {Ping(a)}
    [] a \in MonitorPods \ pods[p] -> {Ping(a), NoAnswer}
    [] OTHER -> {NoAnswer, Other}

\* mutant: any answer will do.
SamePod_Any(c, reply) == reply # NoAnswer

SamePod(c, reply) == reply = check[c].address

Begin(c, p) ==
  check' = [check EXCEPT ![c] = [Check("dns", p) EXCEPT !.amiss = Troubles(net[p], pods[p])]]

\* mutant: an error does not end the check.
Found_GoesOn(c, k, yes, stage, address, real) ==
  check' = [check EXCEPT
    ![c].at = stage,
    ![c].status[k] = IF yes THEN "yes" ELSE "no",
    ![c].address = address,
    ![c].met = IF real THEN @ \union {k} ELSE @,
    ![c].left = IF stage # "done" THEN <<>> ELSE <<"dns", "svc", "pod">>]

\* One step of a check: the status of kind k is known, and the check goes on to
\* the next stage or is done.
Found(c, k, yes, stage, address, real) ==
  LET old == check[c]
  IN  check' = [check EXCEPT ![c] = [old EXCEPT
        !.at = IF yes THEN stage ELSE "done",
        !.status = [old.status EXCEPT ![k] = IF yes THEN "yes" ELSE "no"],
        !.address = address,
        !.met = IF real THEN old.met \union {k} ELSE old.met,
        !.left = IF yes /\ stage # "done" THEN <<>> ELSE <<"dns", "svc", "pod">>]]

\* The name must have exactly one address.
Resolve(c) ==
  /\ check[c].at = "dns"
  /\ LET yes == net[check[c].peer].dns = "one"
     IN  Found(c, "dns", yes, "svc", NoAnswer, yes)

PingService(c) ==
  /\ check[c].at = "svc"
  /\ LET p == check[c].peer
     IN  \E reply \in Answers(net[p].svc, BehindService(p)) :
            Found(c, "svc", reply \in Addresses, "pod", reply, reply \in pods[p])

PingPod(c) ==
  /\ check[c].at = "pod"
  /\ LET p == check[c].peer  a == check[c].address
     IN  \E reply \in Answers(net[p].pod, AtAddress(p, a)) :
            Found(c, "pod", SamePod(c, reply), "done", a, a \in MonitorPods)

Status(c) ==
  /\ Resolve(c) \/ PingService(c) \/ PingPod(c)
  /\ UNCHANGED <<net, pods, config, gauge, because>>

---------------------------------------------------------------------------
(* pingPeersStatus: the goroutine of a peer *)

\* What is not reached stays at -1.
Verdict(s) ==
  [k \in Kinds |-> CASE s[k] = "yes" -> 1 [] s[k] = "no" -> 0 [] OTHER -> -1]

Wake(i) ==
  /\ check[i].at = "sleep"
  /\ Begin(i, config[i].peer)
  /\ UNCHANGED <<net, pods, config, gauge, because>>

\* WithLabelValues makes a missing series with the value 0 before Set is called.
CreateGauge(i) ==
  /\ check[i].left # <<>>
  /\ LET n == config[i].name  k == Head(check[i].left)
     IN  gauge[n][k] = NoSeries /\ gauge' = [gauge EXCEPT ![n][k] = 0]
  /\ UNCHANGED <<net, pods, config, check, because>>

SetGauge(i) ==
  /\ check[i].left # <<>>
  /\ LET n == config[i].name  k == Head(check[i].left)  rest == Tail(check[i].left)
     IN  /\ gauge[n][k] # NoSeries
         /\ gauge' = [gauge EXCEPT ![n][k] = Verdict(check[i].status)[k]]
         /\ because' = [because EXCEPT ![n][k] =
              {"set"} \union (IF k \in check[i].amiss THEN {"amiss"} ELSE {})
                      \union (IF k \in check[i].met THEN {"met"} ELSE {})]
         /\ check' = [check EXCEPT ![i] = IF rest = <<>> THEN Check("sleep", NoAnswer)
                                                         ELSE [@ EXCEPT !.left = rest]]
  /\ UNCHANGED <<net, pods, config>>

Pinger(i) == Wake(i) \/ Status(i) \/ CreateGauge(i) \/ SetGauge(i)

---------------------------------------------------------------------------

PeerInit ==
  /\ net = [p \in Peers |-> [dns |-> "one", svc |-> "up", pod |-> "up"]]
  /\ pods = InitialPods
  /\ config = <<>>
  /\ check = Off
  /\ gauge = [n \in Names |-> NoGauges]
  /\ because = [n \in Names |-> [k \in Kinds |-> {}]]

\* The gauges and goroutines are in memory.
PeerReset ==
  /\ config' = <<>> /\ check' = Off
  /\ gauge' = [n \in Names |-> NoGauges]
  /\ because' = [n \in Names |-> [k \in Kinds |-> {}]]
  /\ UNCHANGED <<net, pods>>

\* The service is looked at only once the name is resolved, a pod only behind a
\* service that answers.
Rungs == {s \in [Kinds -> {"nil", "no", "yes"}] :
            (s["svc"] # "nil" => s["dns"] = "yes") /\ (s["pod"] # "nil" => s["svc"] = "yes")}

PeerTypeOK ==
  /\ net \in [Peers -> Networks]
  /\ pods \in [Peers -> SUBSET Addresses]
  /\ config \in Seq([name : Names, peer : Peers, url : BOOLEAN]) /\ Len(config) <= MaxPeers
  /\ check \in [Checkers ->
       [at : Kinds \union {"off", "done", "sleep"}, peer : Peers \union {NoAnswer},
        status : Rungs,
        address : Addresses \union {NoAnswer, Other}, amiss : SUBSET Kinds,
        met : SUBSET Kinds, left : Seq(Kinds)]]
  /\ gauge \in [Names -> [Kinds -> {NoSeries, -1, 0, 1}]]
  /\ because \in [Names -> [Kinds -> SUBSET {"set", "amiss", "met"}]]
================================================================================
