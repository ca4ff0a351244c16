------------------------------- MODULE BgpMonitor -------------------------------
(***************************************************************************)
(* The BGP gauges of paas-geo-monitor (pkg/bgp/bgp.go and the goroutine of *)
(* pkg/app/app.go:147): the CalicoNodeStatus resources are listed, both    *)
(* vectors of gauges are reset and filled again, series by series.  Calico *)
(* writes the resources and stamps them; a node may have more than one.    *)
(***************************************************************************)
EXTENDS Integers, SequencesExt

CONSTANTS
  Reports,   \* what a CalicoNodeStatus may say: a node, its peers and its routes
  Resources, \* initial sequences of reports, in the order of the API
  Timeout,   \* PAAS_BGP_CHECK_TIMEOUT
  MaxClock   \* bound: the clock, in periods

ASSUME BgpAssumption ==
  /\ Timeout \in Nat /\ MaxClock \in Nat
  /\ Resources \subseteq Seq(Reports)
  /\ \A r \in Reports : DOMAIN r.peers \subseteq Nat /\ DOMAIN r.routes \subseteq Nat

VARIABLES
  crs,      \* the CalicoNodeStatus resources: a report and its lastUpdated
  clock,
  api,      \* whether the API server answers, fails or leaves a request without an end
  upd,      \* the goroutine: its stage, the last list and when it was made, places left
  series    \* BgpMetrics: the value of every series there is

bgpVars == <<crs, clock, api, upd, series>>

NoBgp == <<>>

\* A report has peers [ip, state] and routes [to, learned]: a route counts if it is
\* in the FIB and was learned from a BGP peer.
Peering(r, p) == [vec |-> "peer", node |-> r.node, key |-> p.ip, state |-> p.state]
Routing(r, t) == [vec |-> "route", node |-> r.node, key |-> t.to, state |-> "FIB"]

\* Where the three loops set a gauge: an item of the list, one of its two lists of
\* entries, an entry.
PlacesIn(list, i) ==
  LET r == list[i].report
  IN  [item : {i}, vec : {"peer"}, entry : DOMAIN r.peers] \union
      [item : {i}, vec : {"route"}, entry : {j \in DOMAIN r.routes : r.routes[j].learned}]
Places(list) == UNION {PlacesIn(list, i) : i \in DOMAIN list}

\* In the order of the loops.
Precedes(p, q) ==
  \/ p.item < q.item
  \/ p.item = q.item /\ p.vec = "peer" /\ q.vec = "route"
  \/ p.item = q.item /\ p.vec = q.vec /\ p.entry < q.entry

\* The series that is set at a place, and whether its state is good.
SeriesAt(list, p) ==
  LET r == list[p.item].report
  IN  IF p.vec = "peer" THEN Peering(r, r.peers[p.entry]) ELSE Routing(r, r.routes[p.entry])
GoodAt(list, p) == p.vec = "peer" => list[p.item].report.peers[p.entry].state = "Established"

Stale(stamp, now) == stamp < now - Timeout

Updater(stage, list, at, left) == [at |-> stage, list |-> list, clock |-> at, left |-> left]
NotStarted == Updater("off", <<>>, 0, {})

---------------------------------------------------------------------------
(* Calico and the API server *)

Report ==
  /\ \E i \in DOMAIN crs, r \in Reports :
        /\ r.node = crs[i].report.node
        /\ crs' = [crs EXCEPT ![i] = [report |-> r, stamp |-> clock]]
        /\ crs' # crs
  /\ UNCHANGED <<clock, api, upd, series>>

Withdraw ==
  /\ \E i \in DOMAIN crs : crs' = RemoveAt(crs, i)
  /\ UNCHANGED <<clock, api, upd, series>>

ApiStates == {"answers", "fails", "hangs"}

ApiChanges == api' \in ApiStates \ {api} /\ UNCHANGED <<crs, clock, upd, series>>

Tick == clock < MaxClock /\ clock' = clock + 1 /\ UNCHANGED <<crs, api, upd, series>>

---------------------------------------------------------------------------
(* The goroutine *)

\* The context of the request has no deadline: a list may keep the goroutine for ever.
List ==
  /\ upd.at = "list"
  /\ upd' = CASE api = "answers" -> Updater("resetPeers", crs, clock, {})
              [] api = "fails" -> [upd EXCEPT !.at = "sleep"]
              [] api = "hangs" -> [upd EXCEPT !.at = "hung"]
  /\ UNCHANGED <<crs, clock, api, series>>

Without(vec) == [s \in {t \in DOMAIN series : t.vec # vec} |-> series[s]]

ResetPeers ==
  /\ upd.at = "resetPeers"
  /\ series' = Without("peer")
  /\ upd' = [upd EXCEPT !.at = "resetRoutes"]
  /\ UNCHANGED <<crs, clock, api>>

\* mutant: the routes are not reset.
ResetRoutes_Kept ==
  /\ upd.at = "resetRoutes"
  /\ series' = series
  /\ upd' = Updater("fill", upd.list, upd.clock, Places(upd.list))
  /\ UNCHANGED <<crs, clock, api>>

ResetRoutes ==
  /\ upd.at = "resetRoutes"
  /\ series' = Without("route")
  /\ upd' = Updater("fill", upd.list, upd.clock, Places(upd.list))
  /\ UNCHANGED <<crs, clock, api>>

\* The gauge at p is the next to be set.
IsNext(p) ==
  /\ upd.at = "fill" /\ p \in upd.left
  /\ \A q \in upd.left \ {p} : Precedes(p, q)

\* With makes a missing series with the value 0 before Set is called.
CreateSeries ==
  /\ \E p \in upd.left :
       LET new == SeriesAt(upd.list, p)
       IN  /\ IsNext(p) /\ new \notin DOMAIN series
           /\ series' = [s \in DOMAIN series \union {new} |-> IF s = new THEN 0 ELSE series[s]]
  /\ UNCHANGED <<crs, clock, api, upd>>

\* The value for a place of a list when it is set at the time now.
ValueOf(list, p, now) ==
  IF Stale(list[p.item].stamp, now) THEN -1 ELSE IF GoodAt(list, p) THEN 1 ELSE 0

SetSeries ==
  /\ \E p \in upd.left :
       /\ IsNext(p) /\ SeriesAt(upd.list, p) \in DOMAIN series
       /\ series' = [series EXCEPT ![SeriesAt(upd.list, p)] = ValueOf(upd.list, p, clock)]
       /\ upd' = [upd EXCEPT !.left = @ \ {p}]
  /\ UNCHANGED <<crs, clock, api>>

Filled ==
  /\ upd.at = "fill" /\ upd.left = {}
  /\ upd' = [upd EXCEPT !.at = "sleep"]
  /\ UNCHANGED <<crs, clock, api, series>>

NextPeriod ==
  /\ upd.at = "sleep"
  /\ upd' = [upd EXCEPT !.at = "list"]
  /\ UNCHANGED <<crs, clock, api, series>>

Update ==
  \/ List \/ ResetPeers \/ ResetRoutes \/ CreateSeries \/ SetSeries \/ Filled \/ NextPeriod

---------------------------------------------------------------------------

BgpReset == upd' = NotStarted /\ series' = NoBgp
BgpInit ==
  /\ \E rs \in Resources : crs = [i \in DOMAIN rs |-> [report |-> rs[i], stamp |-> 0]]
  /\ clock = 0 /\ api = "answers"
  /\ upd = NotStarted /\ series = NoBgp

---------------------------------------------------------------------------

SeriesIn(list) == {SeriesAt(list, p) : p \in Places(list)}

\* Of two resources with the same series the later one in the list counts.
LastPlace(list, s) ==
  CHOOSE p \in Places(list) :
    /\ SeriesAt(list, p) = s
    /\ \A q \in Places(list) \ {p} : SeriesAt(list, q) = s => Precedes(q, p)

\* Between two updates, and while a list is under way, there is a series for exactly what the last successful list
\* said, with its state or, if the resource had not been updated for the timeout
\* when the series was set, -1; nothing is left of the lists before.  While the
\* vectors are filled, nothing else is in them either.  bgp.go:95.
BgpShowsList ==
  /\ upd.at \in {"sleep", "list", "hung"} =>
       /\ DOMAIN series = SeriesIn(upd.list)
       /\ \A s \in DOMAIN series :
            LET p == LastPlace(upd.list, s)  stamp == upd.list[p.item].stamp
            IN  IF series[s] = -1 THEN Stale(stamp, clock)
                ELSE ~Stale(stamp, upd.clock) /\ series[s] = IF GoodAt(upd.list, p) THEN 1 ELSE 0
  /\ upd.at = "fill" => DOMAIN series \subseteq SeriesIn(upd.list)

\* The gauges say what the resources say now.
ShowsNow ==
  /\ DOMAIN series = SeriesIn(crs)
  /\ \A s \in DOMAIN series : series[s] = ValueOf(crs, LastPlace(crs, s), clock)
================================================================================
