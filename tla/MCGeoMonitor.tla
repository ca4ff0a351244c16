------------------------------ MODULE MCGeoMonitor ------------------------------
(***************************************************************************)
(* Small instances of GeoMonitor: one peer with everything that may happen *)
(* to it, two peers, names given twice, the BGP gauges, and deployments    *)
(* that lack something.                                                    *)
(***************************************************************************)
EXTENDS GeoMonitor

Entry(n, p) == [name |-> n, peer |-> p, url |-> TRUE]

Deployment(peers, ping, bgp, changes, requests, scrapes, kills) ==
  [peers |-> peers, pingIp |-> TRUE, ping |-> ping, bgp |-> bgp, kube |-> TRUE,
   changes |-> changes, requests |-> requests, scrapes |-> scrapes, kills |-> kills]

SomePods == "p" :> {"a1"} @@ "q" :> {"a2"}

OnePeer == <<Entry("east", "p")>>
TwoPeers == <<Entry("east", "p"), Entry("west", "q")>>
OneName == <<Entry("east", "p"), Entry("east", "q")>>

SomeDeployments ==
  { Deployment(OnePeer, "on", "off", 2, 0, 0, 0),
    Deployment(OnePeer, "on", "off", 1, 0, 1, 0),
    Deployment(OnePeer, "on", "off", 1, 0, 0, 1),
    Deployment(TwoPeers, "on", "off", 1, 0, 0, 0),
    Deployment(TwoPeers, "off", "off", 2, 1, 0, 0),
    Deployment(OneName, "on", "off", 1, 0, 1, 0),
    Deployment(<<>>, "on", "on", 2, 0, 0, 1),
    Deployment(OnePeer, "on", "bad", 1, 0, 0, 0),
    Deployment(OnePeer, "bad", "off", 0, 0, 0, 0),
    [Deployment(OnePeer, "on", "off", 0, 0, 0, 0) EXCEPT !.pingIp = FALSE],
    [Deployment(OnePeer, "on", "on", 0, 0, 0, 0) EXCEPT !.kube = FALSE],
    Deployment(<<[name |-> "east", peer |-> "p", url |-> FALSE]>>, "on", "off", 0, 0, 0, 0) }

\* Two nodes; the first says two things of a peer, and may have a second resource.
Peering1(state) == [node |-> "n1", peers |-> <<[ip |-> "b", state |-> state]>>,
                    routes |-> <<[to |-> "r", learned |-> state = "Established"]>>]
Node2 == [node |-> "n2", peers |-> <<>>, routes |-> <<[to |-> "r", learned |-> TRUE]>>]
SomeReports == {Peering1("Established"), Peering1("Idle"), Node2}
SomeResources == {<<Peering1("Established"), Node2>>,
                  <<Peering1("Idle"), Peering1("Idle")>>}
================================================================================
