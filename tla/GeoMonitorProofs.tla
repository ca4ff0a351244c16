--------------------------- MODULE GeoMonitorProofs ---------------------------
(***************************************************************************)
(* Theorems about GeoMonitor: what the gauges of a peer and the answers to *)
(* /peers/status mean, what a scrape may mix, and what the BGP gauges show.*)
(***************************************************************************)
EXTENDS GeoMonitor, TLAPS

---------------------------------------------------------------------------
(* One check *)

Lefts == {<<>>, <<"pod">>, <<"svc", "pod">>, <<"dns", "svc", "pod">>}

LEMMA LeftFacts ==
  /\ \A l \in Lefts : l # <<>> => Head(l) \in Kinds /\ Tail(l) \in Lefts
  /\ <<>> \in Lefts /\ <<"dns", "svc", "pod">> \in Lefts
BY DEF Lefts, Kinds

\* The rung of the ladder at each stage.
Climbed(r) ==
  /\ r.status \in Rungs
  /\ r.at = "dns" => r.status = NoStatus
  /\ r.at = "svc" => r.status["dns"] = "yes" /\ r.status["svc"] = "nil" /\ r.status["pod"] = "nil"
  /\ r.at = "pod" => r.status["dns"] = "yes" /\ r.status["svc"] = "yes" /\ r.status["pod"] = "nil"
  /\ r.at = "done" => Verdict(r.status) \in Ladder

Fields ==
  [at : Kinds \union {"off", "done", "sleep"}, peer : Peers \union {NoAnswer},
   status : [Kinds -> {"nil", "no", "yes"}], address : Addresses \union {NoAnswer, Other},
   amiss : SUBSET Kinds, met : SUBSET Kinds, left : Lefts]

Records == {r \in Fields : Climbed(r)}

\* What has been found so far is so, and nothing beyond it has been looked at.
Honest(f) ==
  \A k \in Kinds : (f.status[k] = "yes" => k \in f.met) /\ (f.status[k] = "no" => k \in f.amiss)

\* A check under way knows everything that speaks against its peer now, and the
\* address it pings is one of the peer's or known to have been.
CheckOK(r) ==
  /\ Honest(r)
  /\ r.at \in Kinds =>
       /\ r.peer \in Peers /\ r.left = <<>>
       /\ Troubles(net[r.peer], pods[r.peer]) \subseteq r.amiss
       /\ r.at = "pod" => /\ r.address \in Addresses
                          /\ r.address \in pods[r.peer] \/ "pod" \in r.amiss
  /\ r.left # <<>> => r.at = "done"

WorldTyped == net \in [Peers -> Networks] /\ pods \in [Peers -> SUBSET Addresses]

ChecksInv ==
  /\ WorldTyped
  /\ check \in [Checkers -> Records]
  /\ \A c \in Checkers : CheckOK(check[c])

LEMMA FreshCheck ==
  ASSUME NEW stage \in {"off", "sleep"}
  PROVE  /\ Check(stage, NoAnswer) \in Records
         /\ CheckOK(Check(stage, NoAnswer))
         /\ Check(stage, NoAnswer).left = <<>>
<1>1. NoStatus \in Rungs
  BY DEF NoStatus, Rungs, Kinds
<1> QED BY <1>1, LeftFacts DEF Check, Fields, Records, Climbed, CheckOK, Honest, NoStatus, Kinds

LEMMA BeginStep ==
  ASSUME ChecksInv, NEW c \in Checkers, NEW p \in Peers, Begin(c, p), UNCHANGED <<net, pods>>
  PROVE  /\ ChecksInv'
         /\ check'[c].left = <<>> /\ \A d \in Checkers \ {c} : check'[d] = check[d]
<1>1. PICK new : new = [Check("dns", p) EXCEPT !.amiss = Troubles(net[p], pods[p])]
  OBVIOUS
<1>2. new = [at |-> "dns", peer |-> p, status |-> NoStatus, address |-> NoAnswer,
             amiss |-> Troubles(net[p], pods[p]), met |-> {}, left |-> <<>>]
  BY <1>1 DEF Check
<1>3. Troubles(net[p], pods[p]) \in SUBSET Kinds
  BY DEF Troubles
<1>4. new \in Records
  <2>1. NoStatus \in Rungs
    BY DEF NoStatus, Rungs, Kinds
  <2>2. new \in Fields
    BY <1>2, <1>3, LeftFacts DEF Fields, NoStatus, Kinds
  <2> QED BY <1>2, <2>1, <2>2 DEF Records, Climbed
<1>5. check' = [check EXCEPT ![c] = new]
  BY <1>1 DEF Begin
<1>6. CheckOK(new)'
  BY <1>2 DEF CheckOK, Honest, NoStatus, Kinds
<1>9. \A d \in Checkers \ {c} : check'[d] = check[d]
  BY <1>5 DEF ChecksInv
<1>7. \A d \in Checkers \ {c} : CheckOK(check[d])'
  BY <1>9 DEF ChecksInv, CheckOK, Honest
<1>8. check' \in [Checkers -> Records] /\ check'[c] = new
  BY <1>4, <1>5 DEF ChecksInv
<1>10. CheckOK(check[c])'
  BY <1>6, <1>8 DEF CheckOK, Honest
<1>11. check'[c].left = <<>>
  BY <1>2, <1>8
<1>12. WorldTyped'
  BY DEF ChecksInv, WorldTyped
<1> QED BY <1>7, <1>8, <1>9, <1>10, <1>11, <1>12 DEF ChecksInv

\* What a step of a check writes, component by component.
LEMMA FoundIs ==
  ASSUME NEW c \in Checkers, check \in [Checkers -> Records], NEW k \in Kinds, NEW yes,
         NEW stage, NEW address, NEW real, Found(c, k, yes, stage, address, real)
  PROVE  /\ check' = [check EXCEPT ![c] = check'[c]]
         /\ check'[c] =
              [at |-> IF yes THEN stage ELSE "done", peer |-> check[c].peer,
               status |-> [check[c].status EXCEPT ![k] = IF yes THEN "yes" ELSE "no"],
               address |-> address, amiss |-> check[c].amiss,
               met |-> IF real THEN check[c].met \union {k} ELSE check[c].met,
               left |-> IF yes /\ stage # "done" THEN <<>> ELSE <<"dns", "svc", "pod">>]
<1>1. PICK old : old = check[c]
  OBVIOUS
<1>2. old \in Records
  BY <1>1
<1>3. old = [at |-> old.at, peer |-> old.peer, status |-> old.status, address |-> old.address,
             amiss |-> old.amiss, met |-> old.met, left |-> old.left]
  BY <1>2 DEF Records, Fields
<1>4. check' = [check EXCEPT ![c] = [old EXCEPT
        !.at = IF yes THEN stage ELSE "done",
        !.status = [old.status EXCEPT ![k] = IF yes THEN "yes" ELSE "no"],
        !.address = address,
        !.met = IF real THEN old.met \union {k} ELSE old.met,
        !.left = IF yes /\ stage # "done" THEN <<>> ELSE <<"dns", "svc", "pod">>]]
  BY <1>1 DEF Found
<1> QED BY <1>1, <1>3, <1>4

LEMMA ClimbedIf ==
  ASSUME NEW r, r.status \in [Kinds -> {"nil", "no", "yes"}],
         \/ /\ r.at = "svc"
            /\ r.status["dns"] = "yes" /\ r.status["svc"] = "nil" /\ r.status["pod"] = "nil"
         \/ /\ r.at = "pod"
            /\ r.status["dns"] = "yes" /\ r.status["svc"] = "yes" /\ r.status["pod"] = "nil"
         \/ /\ r.at = "done"
            /\ \/ r.status["dns"] = "no" /\ r.status["svc"] = "nil" /\ r.status["pod"] = "nil"
               \/ r.status["dns"] = "yes" /\ r.status["svc"] = "no" /\ r.status["pod"] = "nil"
               \/ r.status["dns"] = "yes" /\ r.status["svc"] = "yes" /\ r.status["pod"] # "nil"
  PROVE  Climbed(r)
<1>1. r.status \in Rungs
  BY DEF Rungs, Kinds
<1>2. ASSUME r.at = "done" PROVE Verdict(r.status) \in Ladder
  <2>1. PICK v : v = Verdict(r.status)
    OBVIOUS
  <2>2. \A k \in Kinds : v[k] = (IF r.status[k] = "yes" THEN 1 ELSE IF r.status[k] = "no" THEN 0 ELSE -1)
    BY <2>1 DEF Verdict
  <2>3. ASSUME NEW d, NEW e, NEW f, v["dns"] = d, v["svc"] = e, v["pod"] = f
        PROVE  v = Rung(d, e, f)
    <3>1. \A k \in Kinds : v[k] = Rung(d, e, f)[k]
      BY <2>3 DEF Rung, Kinds
    <3> QED BY <2>1, <3>1 DEF Verdict, Rung
  <2>4. CASE r.status["dns"] = "no" /\ r.status["svc"] = "nil" /\ r.status["pod"] = "nil"
    BY <2>1, <2>2, <2>3, <2>4 DEF Ladder, Kinds
  <2>5. CASE r.status["dns"] = "yes" /\ r.status["svc"] = "no" /\ r.status["pod"] = "nil"
    BY <2>1, <2>2, <2>3, <2>5 DEF Ladder, Kinds
  <2>6. CASE r.status["dns"] = "yes" /\ r.status["svc"] = "yes" /\ r.status["pod"] = "no"
    BY <2>1, <2>2, <2>3, <2>6 DEF Ladder, Kinds
  <2>7. CASE r.status["dns"] = "yes" /\ r.status["svc"] = "yes" /\ r.status["pod"] = "yes"
    BY <2>1, <2>2, <2>3, <2>7 DEF Ladder, Kinds
  <2> QED BY <1>2, <2>4, <2>5, <2>6, <2>7 DEF Kinds
<1> QED BY <1>1, <1>2 DEF Climbed

LEMMA FoundStep ==
  ASSUME ChecksInv, NEW c \in Checkers, NEW k \in Kinds, NEW yes \in BOOLEAN,
         NEW stage \in Kinds \union {"done"}, NEW address \in Addresses \union {NoAnswer, Other},
         NEW real \in BOOLEAN, Found(c, k, yes, stage, address, real),
         UNCHANGED <<net, pods>>, check[c].at \in Kinds,
         k = check[c].at,
         (k = "dns" /\ stage = "svc") \/ (k = "svc" /\ stage = "pod") \/ (k = "pod" /\ stage = "done"),
         yes => real, ~yes => k \in check[c].amiss,
         yes /\ stage = "pod" => address \in Addresses /\ address \in pods[check[c].peer]
  PROVE  /\ ChecksInv' /\ \A d \in Checkers \ {c} : check'[d] = check[d]
         /\ check'[c].left \in {<<>>, <<"dns", "svc", "pod">>}
<1>1. PICK old, new : old = check[c] /\ new = check'[c]
  OBVIOUS
<1>2. old \in Records /\ CheckOK(old)
  BY <1>1 DEF ChecksInv
<1>3. /\ check' = [check EXCEPT ![c] = new]
      /\ new = [at |-> IF yes THEN stage ELSE "done", peer |-> old.peer,
                status |-> [old.status EXCEPT ![k] = IF yes THEN "yes" ELSE "no"],
                address |-> address, amiss |-> old.amiss,
                met |-> IF real THEN old.met \union {k} ELSE old.met,
                left |-> IF yes /\ stage # "done" THEN <<>> ELSE <<"dns", "svc", "pod">>]
  BY <1>1, FoundIs DEF ChecksInv
<1>4. new.status \in [Kinds -> {"nil", "no", "yes"}] /\ new.status[k] = (IF yes THEN "yes" ELSE "no")
      /\ \A j \in Kinds \ {k} : new.status[j] = old.status[j]
  BY <1>2, <1>3 DEF Records, Fields
<1>5. new.left \in Lefts /\ (new.left # <<>> => new.at = "done")
  BY <1>3, LeftFacts
<1>6. new \in Records
  <2>1. new \in Fields
    BY <1>2, <1>3, <1>4, <1>5 DEF Records, Fields
  <2>2. old.at = k /\ Climbed(old)
    BY <1>1, <1>2 DEF Records
  <2>3. CASE k = "dns"
    <3>1. new.status["dns"] = (IF yes THEN "yes" ELSE "no") /\ new.status["svc"] = "nil"
          /\ new.status["pod"] = "nil"
      BY <1>4, <2>2, <2>3 DEF Climbed, NoStatus, Kinds
    <3>2. new.at = (IF yes THEN "svc" ELSE "done")
      BY <1>3, <2>3
    <3> QED BY <1>4, <2>1, <3>1, <3>2, ClimbedIf DEF Records
  <2>4. CASE k = "svc"
    <3>1. new.status["dns"] = "yes" /\ new.status["svc"] = (IF yes THEN "yes" ELSE "no")
          /\ new.status["pod"] = "nil"
      BY <1>4, <2>2, <2>4 DEF Climbed, Kinds
    <3>2. new.at = (IF yes THEN "pod" ELSE "done")
      BY <1>3, <2>4
    <3> QED BY <1>4, <2>1, <3>1, <3>2, ClimbedIf DEF Records
  <2>5. CASE k = "pod"
    <3>1. new.status["dns"] = "yes" /\ new.status["svc"] = "yes"
          /\ new.status["pod"] = (IF yes THEN "yes" ELSE "no")
      BY <1>4, <2>2, <2>5 DEF Climbed, Kinds
    <3>2. new.at = "done"
      BY <1>3, <2>5
    <3> QED BY <1>4, <2>1, <3>1, <3>2, ClimbedIf DEF Records
  <2> QED BY <2>3, <2>4, <2>5 DEF Kinds
<1>7. Honest(new)
  BY <1>1, <1>2, <1>3, <1>4 DEF CheckOK, Honest, Records, Fields
<1>8. new.at \in Kinds =>
        /\ new.peer \in Peers /\ new.left = <<>>
        /\ Troubles(net[new.peer], pods[new.peer]) \subseteq new.amiss
        /\ new.at = "pod" => new.address \in Addresses /\ new.address \in pods[new.peer]
  BY <1>1, <1>2, <1>3 DEF CheckOK, Kinds
<1>9. CheckOK(new)'
  BY <1>5, <1>7, <1>8 DEF CheckOK, Honest
<1>12. \A d \in Checkers \ {c} : check'[d] = check[d]
  BY <1>3 DEF ChecksInv
<1>10. \A d \in Checkers \ {c} : CheckOK(check[d])'
  BY <1>12 DEF ChecksInv, CheckOK, Honest
<1>11. check' \in [Checkers -> Records]
  BY <1>3, <1>6 DEF ChecksInv
<1>13. check'[c].left \in {<<>>, <<"dns", "svc", "pod">>}
  BY <1>1, <1>3
<1> QED BY <1>1, <1>9, <1>10, <1>11, <1>12, <1>13 DEF ChecksInv, WorldTyped

\* Each step of Peer.Status tells the truth: a yes comes from the peer itself, and a
\* no has a reason that holds or has held since the check began.
LEMMA StatusStep ==
  ASSUME ChecksInv, NEW c \in Checkers, Status(c)
  PROVE  /\ ChecksInv' /\ \A d \in Checkers \ {c} : check'[d] = check[d]
         /\ check'[c].left \in {<<>>, <<"dns", "svc", "pod">>}
<1>1. PICK r, p : r = check[c] /\ p = r.peer
  OBVIOUS
<1>2. r \in Records /\ CheckOK(r) /\ WorldTyped
  BY <1>1 DEF ChecksInv
<1>3. UNCHANGED <<net, pods>>
  BY DEF Status
<1>4. ASSUME r.at \in Kinds
      PROVE  /\ p \in Peers /\ net[p] \in Networks /\ pods[p] \in SUBSET Addresses
             /\ Troubles(net[p], pods[p]) \subseteq r.amiss
  BY <1>1, <1>2, <1>4 DEF CheckOK, WorldTyped
<1>5. CASE Resolve(c)
  <2>1. PICK yes \in BOOLEAN : yes = (net[p].dns = "one")
    OBVIOUS
  <2>2. r.at = "dns" /\ Found(c, "dns", yes, "svc", NoAnswer, yes)
    BY <1>1, <1>5, <2>1 DEF Resolve
  <2>3. ~yes => "dns" \in r.amiss
    BY <1>4, <2>1, <2>2 DEF Troubles, Kinds
  <2> QED BY <1>1, <1>3, <2>2, <2>3, FoundStep DEF Kinds
<1>6. CASE PingService(c)
  <2>1. PICK reply \in Answers(net[p].svc, BehindService(p)) :
          r.at = "svc" /\ Found(c, "svc", reply \in Addresses, "pod", reply, reply \in pods[p])
    BY <1>1, <1>6 DEF PingService
  <2>2. p \in Peers /\ net[p].svc \in {"up", "slow", "hole"} /\ pods[p] \in SUBSET Addresses
    BY <1>4, <2>1 DEF Networks, Kinds
  <2>3. reply \in Addresses \union {NoAnswer, Other}
    BY <2>1, <2>2 DEF Answers, BehindService, Ping
  <2>4. reply \in Addresses => reply \in pods[p]
    BY <2>1, <2>2, PeersAssumption DEF Answers, BehindService, Ping
  <2>5. reply \notin Addresses => net[p].svc # "up" \/ pods[p] = {}
    BY <2>1, <2>2 DEF Answers, BehindService, Ping
  <2>6. reply \notin Addresses => "svc" \in r.amiss
    BY <1>4, <2>1, <2>5 DEF Troubles, Kinds
  <2>7. PICK yes \in BOOLEAN : yes <=> reply \in Addresses
    OBVIOUS
  <2>8. PICK real \in BOOLEAN : real <=> reply \in pods[p]
    OBVIOUS
  <2>9. Found(c, "svc", yes, "pod", reply, real)
    BY <2>1, <2>7, <2>8 DEF Found
  <2>10. (yes => real) /\ (~yes => "svc" \in r.amiss)
    BY <2>4, <2>6, <2>7, <2>8
  <2>11. yes => reply \in Addresses /\ reply \in pods[p]
    BY <2>4, <2>7
  <2>12. r.at = "svc" /\ r.at \in Kinds /\ "svc" \in Kinds /\ "pod" \in Kinds
    BY <2>1 DEF Kinds
  <2> QED BY <1>1, <1>3, <2>3, <2>9, <2>10, <2>11, <2>12, FoundStep
<1>7. CASE PingPod(c)
  <2>1. PICK a : a = r.address
    OBVIOUS
  <2>2. PICK reply \in Answers(net[p].pod, AtAddress(p, a)) :
          r.at = "pod" /\ Found(c, "pod", SamePod(c, reply), "done", a, a \in MonitorPods)
    BY <1>1, <1>7, <2>1 DEF PingPod
  <2>3. p \in Peers /\ net[p].pod \in {"up", "slow", "hole"} /\ pods[p] \in SUBSET Addresses
    BY <1>4, <2>2 DEF Networks, Kinds
  <2>4. a \in Addresses /\ (a \in pods[p] \/ "pod" \in r.amiss)
    BY <1>1, <1>2, <2>1, <2>2 DEF CheckOK, Kinds
  <2>5. reply = a => a \in MonitorPods
    <3>1. reply \in AtAddress(p, a) \union {NoAnswer} /\ a # NoAnswer /\ a # Other
      BY <2>2, <2>4, PeersAssumption DEF Answers
    <3>2. a \in pods[p] => a \in MonitorPods
      BY <2>3 DEF MonitorPods
    <3> QED BY <3>1, <3>2 DEF AtAddress
  <2>6. reply # a => net[p].pod # "up" \/ a \notin pods[p]
    BY <2>2, <2>3, <2>4 DEF Answers, AtAddress, Ping
  <2>7. reply # a => "pod" \in r.amiss
    BY <1>4, <2>2, <2>4, <2>6 DEF Troubles, Kinds
  <2>8. PICK yes \in BOOLEAN : yes = (reply = a)
    OBVIOUS
  <2>9. PICK real \in BOOLEAN : real <=> a \in MonitorPods
    OBVIOUS
  <2>10. Found(c, "pod", yes, "done", a, real)
    BY <1>1, <2>1, <2>2, <2>8, <2>9 DEF SamePod, Found
  <2>11. (yes => real) /\ (~yes => "pod" \in r.amiss)
    BY <2>5, <2>7, <2>8, <2>9
  <2>12. r.at = "pod" /\ r.at \in Kinds /\ "pod" \in Kinds /\ "done" # "pod"
    BY <2>2 DEF Kinds
  <2> QED BY <1>1, <1>3, <2>4, <2>10, <2>11, <2>12, FoundStep
<1> QED BY <1>5, <1>6, <1>7 DEF Status

\* What a check has been told to remember covers what holds after the change.
LEMMA RememberStep ==
  ASSUME ChecksInv, NEW p \in Peers, NEW gone, WorldTyped',
         Remember(p, Troubles(net'[p], pods'[p]), gone),
         \A q \in Peers \ {p} : net'[q] = net[q] /\ pods'[q] = pods[q],
         pods[p] \subseteq pods'[p] \union gone
  PROVE  ChecksInv' /\ \A d \in Checkers : /\ check'[d].left = check[d].left
                                        /\ check'[d].status = check[d].status
                                        /\ check'[d].at = check[d].at
<1>1. PICK now : now = Troubles(net'[p], pods'[p]) /\ now \in SUBSET Kinds
  BY DEF Troubles
<1>2. ASSUME NEW d \in Checkers
      PROVE  /\ check'[d] \in Records /\ CheckOK(check[d])'
             /\ check'[d].left = check[d].left /\ check'[d].status = check[d].status
             /\ check'[d].at = check[d].at
  <2>1. PICK old, new : old = check[d] /\ new = check'[d]
    OBVIOUS
  <2>2. old \in Records /\ CheckOK(old)
    BY <2>1 DEF ChecksInv
  <2>3. CASE Checking(d) /\ old.peer = p
    <3>1. PICK more \in SUBSET Kinds : /\ now \subseteq more
                                       /\ old.address \in gone => "pod" \in more
                                       /\ new = [old EXCEPT !.amiss = old.amiss \union more]
      <4>1. PICK more : more = now \union (IF old.address \in gone THEN {"pod"} ELSE {})
        OBVIOUS
      <4>2. new = [old EXCEPT !.amiss = old.amiss \union more]
        <5>1. old.amiss \union more = (old.amiss \union now) \union (IF old.address \in gone THEN {"pod"} ELSE {})
          BY <4>1
        <5> QED BY <1>1, <2>1, <2>3, <5>1 DEF Remember
      <4> QED BY <1>1, <4>1, <4>2 DEF Kinds
    <3>2. new = [at |-> old.at, peer |-> old.peer, status |-> old.status, address |-> old.address,
                 amiss |-> old.amiss \union more, met |-> old.met, left |-> old.left]
      BY <2>2, <3>1 DEF Records, Fields
    <3>3. new \in Records
      BY <2>2, <3>2 DEF Records, Fields, Climbed
    <3>4. CheckOK(new)'
      BY <1>1, <2>2, <2>3, <3>1, <3>2 DEF CheckOK, Honest, Checking, Kinds
    <3>5. CheckOK(check[d])'
      BY <2>1, <3>4 DEF CheckOK, Honest
    <3> QED BY <2>1, <3>2, <3>3, <3>5
  <2>4. CASE ~(Checking(d) /\ old.peer = p)
    <3>1. new = old
      BY <2>1, <2>4 DEF Remember
    <3>2. CheckOK(check[d])'
      BY <2>1, <2>2, <2>4, <3>1 DEF CheckOK, Honest, Checking
    <3> QED BY <2>1, <2>2, <3>1, <3>2
  <2> QED BY <2>3, <2>4
<1>3. check' \in [Checkers -> Records]
  BY <1>2 DEF Remember
<1> QED BY <1>2, <1>3 DEF ChecksInv

LEMMA WorldStep ==
  ASSUME ChecksInv, PeerWorld
  PROVE  ChecksInv' /\ \A d \in Checkers : /\ check'[d].left = check[d].left
                                        /\ check'[d].status = check[d].status
                                        /\ check'[d].at = check[d].at
<1>1. PICK p \in Peers : NetChanges(p) \/ PodStarts(p) \/ PodStops(p)
  BY DEF PeerWorld
<1>2. CASE NetChanges(p)
  <2>1. WorldTyped' /\ pods' = pods /\ \A q \in Peers \ {p} : net'[q] = net[q]
    BY <1>2 DEF NetChanges, ChecksInv, WorldTyped
  <2>2. Remember(p, Troubles(net'[p], pods'[p]), {})
    BY <1>2, <2>1 DEF NetChanges
  <2> QED BY <2>1, <2>2, RememberStep
<1>3. CASE PodStarts(p)
  <2>1. WorldTyped' /\ net' = net /\ check' = check
        /\ \A q \in Peers : pods[q] \subseteq pods'[q]
    BY <1>3 DEF PodStarts, ChecksInv, WorldTyped
  <2>2. ASSUME NEW q \in Peers
        PROVE  Troubles(net[q], pods[q])' \subseteq Troubles(net[q], pods[q])
    BY <2>1 DEF Troubles
  <2>3. \A d \in Checkers : CheckOK(check[d])'
    BY <2>1, <2>2 DEF ChecksInv, CheckOK, Honest
  <2> QED BY <2>1, <2>3 DEF ChecksInv
<1>4. CASE PodStops(p)
  <2>1. PICK a \in pods[p] : /\ pods' = [pods EXCEPT ![p] = @ \ {a}]
                             /\ Remember(p, Troubles(net[p], pods'[p]), {a})
    BY <1>4 DEF PodStops
  <2>2. net' = net
    BY <1>4 DEF PodStops
  <2>3. WorldTyped' /\ \A q \in Peers \ {p} : pods'[q] = pods[q]
    BY <2>1, <2>2 DEF ChecksInv, WorldTyped
  <2>4. pods[p] \subseteq pods'[p] \union {a}
    BY <2>1 DEF ChecksInv, WorldTyped
  <2>5. Remember(p, Troubles(net'[p], pods'[p]), {a})
    BY <2>1, <2>2
  <2> QED BY <2>2, <2>3, <2>4, <2>5, RememberStep
<1> QED BY <1>1, <1>2, <1>3, <1>4

---------------------------------------------------------------------------
(* The gauges *)

LEMMA RecordFacts ==
  ASSUME NEW r \in Records
  PROVE  /\ r.left \in Lefts /\ r.status \in Rungs
         /\ r.status \in [Kinds -> {"nil", "no", "yes"}]
         /\ r.at = "done" => Verdict(r.status) \in Ladder
BY DEF Records, Fields, Climbed

LEMMA VerdictFacts ==
  ASSUME NEW r \in Records
  PROVE  /\ Verdict(r.status) \in [Kinds -> {-1, 0, 1}]
         /\ \A k \in Kinds : /\ Verdict(r.status)[k] = 1 => r.status[k] = "yes"
                             /\ Verdict(r.status)[k] = 0 => r.status[k] = "no"
<1>1. PICK v : v = Verdict(r.status)
  OBVIOUS
<1>2. v = [k \in Kinds |-> v[k]]
  BY <1>1 DEF Verdict
<1>3. \A k \in Kinds : v[k] = (IF r.status[k] = "yes" THEN 1 ELSE IF r.status[k] = "no" THEN 0 ELSE -1)
  BY <1>1 DEF Verdict
<1>4. v \in [Kinds -> {-1, 0, 1}]
  BY <1>2, <1>3
<1> QED BY <1>1, <1>3, <1>4

\* The kinds still to set.
Rest(l) == {l[j] : j \in DOMAIN l}

LEMMA RestFacts ==
  ASSUME NEW l \in Lefts, l # <<>>
  PROVE  /\ Head(l) \in Kinds /\ Tail(l) \in Lefts
         /\ Rest(l) = {Head(l)} \union Rest(Tail(l)) /\ Head(l) \notin Rest(Tail(l))
<1>1. CASE l = <<"pod">>
  <2>1. Head(l) = "pod" /\ Tail(l) = <<>>
    BY <1>1
  <2> QED BY <1>1, <2>1 DEF Rest, Lefts, Kinds
<1>2. CASE l = <<"svc", "pod">>
  <2>1. Head(l) = "svc" /\ Tail(l) = <<"pod">>
    BY <1>2
  <2>2. Rest(l) = {"svc", "pod"} /\ Rest(<<"pod">>) = {"pod"}
    BY <1>2 DEF Rest
  <2> QED BY <2>1, <2>2 DEF Lefts, Kinds
<1>3. CASE l = <<"dns", "svc", "pod">>
  <2>1. Head(l) = "dns" /\ Tail(l) = <<"svc", "pod">>
    BY <1>3
  <2>2. Rest(l) = {"dns", "svc", "pod"} /\ Rest(<<"svc", "pod">>) = {"svc", "pod"}
    BY <1>3 DEF Rest
  <2> QED BY <2>1, <2>2 DEF Lefts, Kinds
<1> QED BY <1>1, <1>2, <1>3 DEF Lefts

LEMMA RestEnds ==
  /\ Rest(<<>>) = {} /\ Rest(<<"dns", "svc", "pod">>) = Kinds
  /\ \A l \in Lefts : Rest(l) = {} => l = <<>>
<1>1. Rest(<<>>) = {} /\ Rest(<<"dns", "svc", "pod">>) = Kinds
  BY DEF Rest, Kinds
<1>2. ASSUME NEW l \in Lefts, l # <<>> PROVE Rest(l) # {}
  BY <1>2, RestFacts
<1> QED BY <1>1, <1>2

Values == {NoSeries, -1, 0, 1}
Named(n) == {i \in DOMAIN config : config[i].name = n}

\* The configuration, once it is loaded, is the accepted one of the deployment.
ConfigInv ==
  /\ deployment \in Deployments
  /\ config = <<>> \/ (config = deployment.peers /\ Accepted(config))

LEMMA ConfigFacts ==
  ASSUME ConfigInv
  PROVE  /\ Len(config) \in Nat /\ Len(config) <= MaxPeers /\ DOMAIN config = 1 .. Len(config)
         /\ DOMAIN config \subseteq Checkers /\ 0 \notin DOMAIN config /\ 0 \in Checkers
         /\ \A i \in DOMAIN config : config[i].name \in Names /\ config[i].peer \in Peers
         /\ \A i, j \in DOMAIN config : config[i].name = config[j].name => i = j
<1>0. PICK E : E = [name : Names, peer : Peers, url : BOOLEAN]
  OBVIOUS
<1>1. config \in Seq(E) /\ Len(config) <= MaxPeers
  <2>1. CASE config = <<>>
    BY <2>1, PeersAssumption
  <2>2. CASE config = deployment.peers
    BY <1>0, <2>2, DeploymentsAssumption DEF ConfigInv
  <2> QED BY <2>1, <2>2 DEF ConfigInv
<1>2. DOMAIN config = 1 .. Len(config) /\ Len(config) \in Nat
  BY <1>1
<1>3. \A i \in DOMAIN config : config[i].name \in Names /\ config[i].peer \in Peers
  <2>1. \A i \in DOMAIN config : config[i] \in E
    BY <1>1
  <2> QED BY <1>0, <2>1
<1>4. \A i, j \in DOMAIN config : config[i].name = config[j].name => i = j
  BY <1>2 DEF ConfigInv, Accepted
<1> QED BY <1>1, <1>2, <1>3, <1>4, PeersAssumption DEF Checkers

GaugesTyped ==
  /\ gauge \in [Names -> [Kinds -> Values]]
  /\ because \in [Names -> [Kinds -> SUBSET {"set", "amiss", "met"}]]

\* A value has its reason.
GaugesMeant ==
  \A n \in Names, k \in Kinds :
    /\ gauge[n][k] = 1 => "met" \in because[n][k]
    /\ gauge[n][k] = 0 => "amiss" \in because[n][k] \/ BeingCreated(n, k)
    /\ gauge[n][k] = NoSeries => because[n][k] = {}

\* At rest the gauges of a name are those of a check, and while they are set, those
\* behind are.
GaugesWhole ==
  \A n \in Names :
    /\ Named(n) = {} => gauge[n] = NoGauges
    /\ \A i \in Named(n) :
         /\ check[i].left = <<>> => gauge[n] \in Ladder \union {NoGauges}
         /\ \A k \in Kinds \ Rest(check[i].left) :
              check[i].left # <<>> => gauge[n][k] = Verdict(check[i].status)[k]

GaugesInv == ConfigInv /\ GaugesTyped /\ GaugesMeant /\ GaugesWhole

\* No gauge is written, and a check may become ready to write its own.
LEMMA GaugesKeep ==
  ASSUME ChecksInv, GaugesInv, UNCHANGED <<config, deployment, gauge, because>>,
         \A i \in DOMAIN config :
           \/ check'[i].left = check[i].left /\ check'[i].status = check[i].status
           \/ check[i].left = <<>> /\ check'[i].left \in {<<>>, <<"dns", "svc", "pod">>}
  PROVE  GaugesInv'
<1>1. ConfigInv' /\ GaugesTyped'
  BY DEF GaugesInv, ConfigInv, GaugesTyped, Accepted
<1>2. \A n \in Names : Named(n)' = Named(n)
  BY DEF Named
<1>3. \A n \in Names, k \in Kinds : BeingCreated(n, k) => BeingCreated(n, k)'
  BY DEF BeingCreated
<1>4. GaugesMeant'
  BY <1>3 DEF GaugesInv, GaugesMeant
<1>5. ASSUME NEW n \in Names, NEW i \in Named(n)
      PROVE  /\ check'[i].left = <<>> => gauge[n] \in Ladder \union {NoGauges}
             /\ \A k \in Kinds \ Rest(check'[i].left) :
                  check'[i].left # <<>> => gauge[n][k] = Verdict(check'[i].status)[k]
  <2>1. CASE check'[i].left = check[i].left /\ check'[i].status = check[i].status
    BY <2>1 DEF GaugesInv, GaugesWhole
  <2>2. CASE check[i].left = <<>> /\ check'[i].left \in {<<>>, <<"dns", "svc", "pod">>}
    BY <2>2, RestEnds DEF GaugesInv, GaugesWhole
  <2> QED BY <2>1, <2>2 DEF Named
<1>6. GaugesWhole'
  BY <1>2, <1>5 DEF GaugesInv, GaugesWhole
<1> QED BY <1>1, <1>4, <1>6 DEF GaugesInv

\* There is no gauge yet.
LEMMA GaugesFresh ==
  ASSUME ConfigInv', gauge' = [n \in Names |-> NoGauges],
         because' = [n \in Names |-> [k \in Kinds |-> {}]],
         \A i \in DOMAIN config' : check'[i].left = <<>>
  PROVE  GaugesInv'
<1>1. \A n \in Names, k \in Kinds : gauge'[n] = NoGauges /\ gauge'[n][k] = NoSeries /\ because'[n][k] = {}
  BY DEF NoGauges
<1>2. GaugesTyped'
  BY DEF GaugesTyped, NoGauges, Values
<1>3. GaugesMeant'
  BY <1>1 DEF GaugesMeant, NoSeries
<1>4. GaugesWhole'
  BY <1>1 DEF GaugesWhole, Named
<1> QED BY <1>2, <1>3, <1>4 DEF GaugesInv

\* The gauge of one kind and name is written.
LEMMA CreateStep ==
  ASSUME ChecksInv, GaugesInv, NEW i \in DOMAIN config, CreateGauge(i), deployment' = deployment
  PROVE  ChecksInv' /\ GaugesInv'
<1>1. PICK n, l, k : n = config[i].name /\ l = check[i].left /\ k = Head(l)
  OBVIOUS
<1>2. n \in Names /\ i \in Named(n) /\ \A j \in DOMAIN config : config[j].name = n => j = i
  BY <1>1, ConfigFacts DEF GaugesInv, Named
<1>3. i \in Checkers /\ check[i] \in Records
  BY ConfigFacts DEF GaugesInv, ChecksInv
<1>4. l \in Lefts /\ l # <<>>
  BY <1>1, <1>3, RecordFacts DEF CreateGauge
<1>5. k \in Kinds /\ k \in Rest(l)
  BY <1>1, <1>4, RestFacts
<1>6. /\ gauge[n][k] = NoSeries /\ gauge' = [gauge EXCEPT ![n][k] = 0]
      /\ UNCHANGED <<net, pods, config, check, because>>
  BY <1>1 DEF CreateGauge
<1>7. /\ gauge' \in [Names -> [Kinds -> Values]] /\ gauge'[n][k] = 0
      /\ \A m \in Names, j \in Kinds : m # n \/ j # k => gauge'[m][j] = gauge[m][j]
      /\ \A m \in Names \ {n} : gauge'[m] = gauge[m]
  BY <1>2, <1>5, <1>6 DEF GaugesInv, GaugesTyped, Values
<1>8. ChecksInv'
  BY <1>6 DEF ChecksInv, CheckOK, Honest, WorldTyped
<1>9. ConfigInv' /\ GaugesTyped'
  BY <1>6, <1>7 DEF GaugesInv, ConfigInv, GaugesTyped, Accepted
<1>10. \A m \in Names, j \in Kinds : BeingCreated(m, j) => BeingCreated(m, j)'
  BY <1>6 DEF BeingCreated
<1>11. BeingCreated(n, k)'
  BY <1>1, <1>2, <1>4, <1>5, <1>6 DEF BeingCreated, GaugesInv, GaugesMeant
<1>12. GaugesMeant'
  <2> SUFFICES ASSUME NEW m \in Names, NEW j \in Kinds
               PROVE  /\ gauge'[m][j] = 1 => "met" \in because'[m][j]
                      /\ gauge'[m][j] = 0 => "amiss" \in because'[m][j] \/ BeingCreated(m, j)'
                      /\ gauge'[m][j] = NoSeries => because'[m][j] = {}
    BY DEF GaugesMeant
  <2>1. CASE m = n /\ j = k
    BY <1>7, <1>11, <2>1 DEF NoSeries
  <2>2. CASE m # n \/ j # k
    BY <1>6, <1>7, <1>10, <2>2 DEF GaugesInv, GaugesMeant
  <2> QED BY <2>1, <2>2
<1>13. GaugesWhole'
  <2> SUFFICES ASSUME NEW m \in Names
               PROVE  /\ Named(m) = {} => gauge'[m] = NoGauges
                      /\ \A d \in Named(m) :
                           /\ check[d].left = <<>> => gauge'[m] \in Ladder \union {NoGauges}
                           /\ \A j \in Kinds \ Rest(check[d].left) :
                                check[d].left # <<>> => gauge'[m][j] = Verdict(check[d].status)[j]
    BY <1>6 DEF GaugesWhole, Named
  <2>1. CASE m = n
    <3>1. Named(m) = {i}
      BY <1>2, <2>1 DEF Named
    <3>2. \A j \in Kinds \ Rest(check[i].left) : gauge'[m][j] = gauge[m][j]
      BY <1>1, <1>2, <1>5, <1>7, <2>1
    <3> QED BY <1>1, <1>2, <1>4, <2>1, <3>1, <3>2 DEF GaugesInv, GaugesWhole
  <2>2. CASE m # n
    BY <1>7, <2>2 DEF GaugesInv, GaugesWhole
  <2> QED BY <2>1, <2>2
<1> QED BY <1>8, <1>9, <1>12, <1>13 DEF GaugesInv

LEMMA SetStep ==
  ASSUME ChecksInv, GaugesInv, NEW i \in DOMAIN config, SetGauge(i), deployment' = deployment
  PROVE  /\ ChecksInv' /\ GaugesInv'
         /\ \A d \in Checkers \ {i} : check'[d] = check[d]
<1>1. PICK n, old, k, rest, new :
        /\ n = config[i].name /\ old = check[i] /\ k = Head(old.left) /\ rest = Tail(old.left)
        /\ new = check'[i]
  OBVIOUS
<1>2. PICK v : v = Verdict(old.status)
  OBVIOUS
<1>3. n \in Names /\ i \in Named(n) /\ \A j \in DOMAIN config : config[j].name = n => j = i
  BY <1>1, ConfigFacts DEF GaugesInv, Named
<1>4. i \in Checkers /\ old \in Records /\ CheckOK(old)
  BY <1>1, ConfigFacts DEF GaugesInv, ChecksInv
<1>5. old.left \in Lefts /\ old.left # <<>> /\ old.at = "done" /\ v \in Ladder
  BY <1>1, <1>2, <1>4, RecordFacts DEF SetGauge, CheckOK
<1>6. /\ k \in Kinds /\ rest \in Lefts
      /\ Rest(old.left) = {k} \union Rest(rest) /\ k \notin Rest(rest)
  BY <1>1, <1>5, RestFacts
<1>7. PICK why : why = {"set"} \union (IF k \in old.amiss THEN {"amiss"} ELSE {})
                               \union (IF k \in old.met THEN {"met"} ELSE {})
  OBVIOUS
<1>8. /\ gauge' = [gauge EXCEPT ![n][k] = v[k]]
      /\ because' = [because EXCEPT ![n][k] = why]
      /\ check' = [check EXCEPT ![i] = IF rest = <<>> THEN Check("sleep", NoAnswer)
                                                     ELSE [old EXCEPT !.left = rest]]
      /\ UNCHANGED <<net, pods, config>>
  BY <1>1, <1>2, <1>7 DEF SetGauge
<1>9. /\ v \in [Kinds -> {-1, 0, 1}]
      /\ v[k] = 1 => old.status[k] = "yes"
      /\ v[k] = 0 => old.status[k] = "no"
  BY <1>2, <1>4, <1>6, VerdictFacts
<1>10. /\ gauge' \in [Names -> [Kinds -> Values]] /\ gauge'[n][k] = v[k]
       /\ \A m \in Names, j \in Kinds : m # n \/ j # k => gauge'[m][j] = gauge[m][j]
       /\ \A m \in Names \ {n} : gauge'[m] = gauge[m]
  BY <1>3, <1>6, <1>8, <1>9 DEF GaugesInv, GaugesTyped, Values
<1>11. /\ because' \in [Names -> [Kinds -> SUBSET {"set", "amiss", "met"}]] /\ because'[n][k] = why
       /\ \A m \in Names, j \in Kinds : m # n \/ j # k => because'[m][j] = because[m][j]
  <2>1. why \in SUBSET {"set", "amiss", "met"}
    BY <1>7
  <2> QED BY <1>3, <1>6, <1>8, <2>1 DEF GaugesInv, GaugesTyped
<1>12. /\ new \in Records /\ CheckOK(new) /\ new.left = rest
       /\ rest # <<>> => new.status = old.status
  <2>1. CASE rest = <<>>
    <3>1. new = Check("sleep", NoAnswer)
      BY <1>1, <1>4, <1>8, <2>1 DEF ChecksInv
    <3> QED BY <2>1, <3>1, FreshCheck
  <2>2. CASE rest # <<>>
    <3>1. new = [old EXCEPT !.left = rest]
      BY <1>1, <1>4, <1>8, <2>2 DEF ChecksInv
    <3>2. new = [at |-> old.at, peer |-> old.peer, status |-> old.status, address |-> old.address,
                 amiss |-> old.amiss, met |-> old.met, left |-> rest]
      BY <1>4, <3>1 DEF Records, Fields
    <3>3. new \in Records
      BY <1>4, <1>6, <3>2 DEF Records, Fields, Climbed
    <3>4. CheckOK(new)
      BY <1>4, <1>5, <3>2 DEF CheckOK, Honest, Kinds
    <3> QED BY <3>2, <3>3, <3>4
  <2> QED BY <2>1, <2>2
<1>13. \A d \in Checkers \ {i} : check'[d] = check[d]
  BY <1>8 DEF ChecksInv
<1>14. ChecksInv'
  <2>1. check' \in [Checkers -> Records]
    BY <1>1, <1>4, <1>8, <1>12 DEF ChecksInv
  <2>2. \A d \in Checkers : CheckOK(check'[d])
    BY <1>1, <1>12, <1>13 DEF ChecksInv
  <2>3. \A d \in Checkers : CheckOK(check[d])'
    BY <1>8, <2>2 DEF CheckOK, Honest
  <2> QED BY <1>8, <2>1, <2>3 DEF ChecksInv, WorldTyped
<1>15. ConfigInv' /\ GaugesTyped'
  BY <1>8, <1>10, <1>11 DEF GaugesInv, ConfigInv, GaugesTyped, Accepted
<1>16. ASSUME NEW m \in Names, NEW j \in Kinds, m # n \/ j # k, BeingCreated(m, j)
       PROVE  BeingCreated(m, j)'
  <2>1. PICK d \in DOMAIN config : config[d].name = m /\ check[d].left # <<>> /\ Head(check[d].left) = j
    BY <1>16 DEF BeingCreated
  <2>2. d # i
    BY <1>1, <1>16, <2>1
  <2>3. d \in Checkers
    BY ConfigFacts DEF GaugesInv
  <2>4. check'[d] = check[d] /\ because'[m][j] = because[m][j]
    BY <1>11, <1>13, <1>16, <2>2, <2>3
  <2> QED BY <1>8, <1>16, <2>1, <2>4 DEF BeingCreated
<1>17. GaugesMeant'
  <2> SUFFICES ASSUME NEW m \in Names, NEW j \in Kinds
               PROVE  /\ gauge'[m][j] = 1 => "met" \in because'[m][j]
                      /\ gauge'[m][j] = 0 => "amiss" \in because'[m][j] \/ BeingCreated(m, j)'
                      /\ gauge'[m][j] = NoSeries => because'[m][j] = {}
    BY DEF GaugesMeant
  <2>1. CASE m = n /\ j = k
    <3>1. (v[k] = 1 => "met" \in why) /\ (v[k] = 0 => "amiss" \in why)
      BY <1>4, <1>6, <1>7, <1>9 DEF CheckOK, Honest
    <3>2. v[k] # NoSeries
      BY <1>6, <1>9 DEF NoSeries
    <3> QED BY <1>10, <1>11, <2>1, <3>1, <3>2
  <2>2. CASE m # n \/ j # k
    BY <1>10, <1>11, <1>16, <2>2 DEF GaugesInv, GaugesMeant
  <2> QED BY <2>1, <2>2
<1>18. \A j \in Kinds \ Rest(rest) : gauge'[n][j] = v[j]
  <2> SUFFICES ASSUME NEW j \in Kinds \ Rest(rest), j # k PROVE gauge'[n][j] = v[j]
    BY <1>10
  <2>1. j \in Kinds \ Rest(old.left)
    BY <1>6
  <2>2. gauge[n][j] = v[j]
    BY <1>1, <1>2, <1>3, <1>5, <2>1 DEF GaugesInv, GaugesWhole
  <2> QED BY <1>3, <1>10, <2>2
<1>19. rest = <<>> => gauge'[n] \in Ladder
  <2> SUFFICES ASSUME rest = <<>> PROVE gauge'[n] = v
    BY <1>5
  <2>1. \A j \in Kinds : gauge'[n][j] = v[j]
    BY <1>18, RestEnds
  <2>2. gauge'[n] \in [Kinds -> Values]
    BY <1>3, <1>10
  <2> QED BY <1>9, <2>1, <2>2
<1>20. GaugesWhole'
  <2> SUFFICES ASSUME NEW m \in Names
               PROVE  /\ Named(m) = {} => gauge'[m] = NoGauges
                      /\ \A d \in Named(m) :
                           /\ check'[d].left = <<>> => gauge'[m] \in Ladder \union {NoGauges}
                           /\ \A j \in Kinds \ Rest(check'[d].left) :
                                check'[d].left # <<>> => gauge'[m][j] = Verdict(check'[d].status)[j]
    BY <1>8 DEF GaugesWhole, Named
  <2>1. CASE m = n
    <3>1. Named(m) = {i}
      BY <1>3, <2>1 DEF Named
    <3>2. \A d \in Named(m) : check'[d] = new
      BY <1>1, <3>1
    <3>3. new.left = <<>> => gauge'[m] \in Ladder \union {NoGauges}
      BY <1>12, <1>19, <2>1
    <3>4. \A j \in Kinds \ Rest(new.left) :
            new.left # <<>> => gauge'[m][j] = Verdict(new.status)[j]
      BY <1>2, <1>12, <1>18, <2>1
    <3> QED BY <3>1, <3>2, <3>3, <3>4
  <2>2. CASE m # n
    <3>1. \A d \in Named(m) : d \in Checkers /\ d # i
      BY <1>3, <2>2, ConfigFacts DEF Named, GaugesInv
    <3>2. \A d \in Named(m) : check'[d] = check[d]
      BY <1>13, <3>1
    <3> QED BY <1>10, <2>2, <3>2 DEF GaugesInv, GaugesWhole
  <2> QED BY <2>1, <2>2
<1> QED BY <1>13, <1>14, <1>15, <1>17, <1>20 DEF GaugesInv

---------------------------------------------------------------------------
(* The process *)

Boot == {"load", "environment", "pingers", "exited"}
Phases == Boot \union {"bgp", "listen", "up"}

\* Before the goroutines are started nothing is in memory.
BootInv ==
  /\ phase \in Phases
  /\ phase \in {"load", "exited"} => config = <<>>
  /\ phase \in Boot =>
       /\ \A c \in Checkers : check[c].at = "off"
       /\ gauge = [n \in Names |-> NoGauges]
       /\ because = [n \in Names |-> [k \in Kinds |-> {}]]
       /\ request = NoRequest /\ scrape = NoScrape

Findings == {f \in [status : Rungs, amiss : SUBSET Kinds, met : SUBSET Kinds] : Honest(f)}

\* A request has an honest answer so far, and its check is of a peer there is.
RequestInv ==
  /\ request = [next |-> request.next, answer |-> request.answer]
  /\ request.next \in 0 .. Len(config) + 1
  /\ request.answer \in Seq(Findings) /\ Len(request.answer) <= request.next
  /\ check[0].at # "off" => request.next \in DOMAIN config

\* What a scrape has read of names that it has not met in flux is what the gauges
\* still say.
ScrapeInv ==
  /\ scrape \in [todo : SUBSET (Names \X Kinds), seen : [Names -> [Kinds -> Values]],
                 flux : SUBSET Names]
  /\ scrape.todo # {} =>
       \A n \in Names \ scrape.flux :
         /\ ~InFlux(n)
         /\ \A k \in Kinds : <<n, k>> \notin scrape.todo => scrape.seen[n][k] = gauge[n][k]
  /\ TornOnlyInFlux

ProcessInv == ChecksInv /\ GaugesInv /\ BootInv /\ RequestInv /\ ScrapeInv

\* At rest the gauges of a name are those of one check.
LEMMA AtRest ==
  ASSUME ChecksInv, GaugesInv, NEW n \in Names, ~InFlux(n)
  PROVE  gauge[n] \in Ladder \union {NoGauges}
<1>1. CASE Named(n) = {}
  BY <1>1 DEF GaugesInv, GaugesWhole
<1>2. CASE Named(n) # {}
  <2>1. PICK i \in Named(n) : TRUE
    BY <1>2
  <2>2. i \in DOMAIN config /\ config[i].name = n /\ i \in Checkers
    BY <2>1, ConfigFacts DEF Named, GaugesInv
  <2>3. CASE check[i].left = <<>>
    BY <2>1, <2>3 DEF GaugesInv, GaugesWhole
  <2>4. CASE check[i].left # <<>>
    <3>1. check[i] \in Records /\ check[i].at = "done"
      BY <2>2, <2>4 DEF ChecksInv, CheckOK
    <3>2. PICK v : v = Verdict(check[i].status) /\ v \in Ladder /\ v \in [Kinds -> {-1, 0, 1}]
      BY <3>1, RecordFacts, VerdictFacts
    <3>3. \A k \in Rest(check[i].left) : gauge[n][k] = v[k]
      BY <2>2, <3>2 DEF InFlux, Rest
    <3>4. \A k \in Kinds \ Rest(check[i].left) : gauge[n][k] = v[k]
      BY <2>1, <2>4, <3>2 DEF GaugesInv, GaugesWhole
    <3>5. gauge[n] = v
      <4>1. gauge[n] \in [Kinds -> Values]
        BY DEF GaugesInv, GaugesTyped
      <4> QED BY <3>2, <3>3, <3>4, <4>1
    <3> QED BY <3>2, <3>5
  <2> QED BY <2>3, <2>4
<1> QED BY <1>1, <1>2

\* The checks behind the gauges are as far as before.
SameChecks ==
  \A i \in DOMAIN config : check'[i].left = check[i].left /\ check'[i].status = check[i].status

LEMMA ScrapeKeep ==
  ASSUME ScrapeInv, UNCHANGED <<scrape, gauge, config>>, SameChecks
  PROVE  ScrapeInv'
<1>1. \A n \in Names : InFlux(n)' = InFlux(n)
  BY DEF InFlux, SameChecks
<1>2. TornOnlyInFlux'
  BY DEF ScrapeInv, TornOnlyInFlux
<1> QED BY <1>1, <1>2 DEF ScrapeInv

LEMMA ScrapeNone ==
  ASSUME scrape' = NoScrape
  PROVE  ScrapeInv'
<1>1. [n \in Names |-> NoGauges] \in [Names -> [Kinds -> Values]]
  BY DEF NoGauges, Values
<1>2. TornOnlyInFlux'
  BY DEF NoScrape, TornOnlyInFlux
<1> QED BY <1>1, <1>2 DEF ScrapeInv, NoScrape

LEMMA EndsStep ==
  ASSUME ProcessInv, Ends
  PROVE  ProcessInv'
<1>1. /\ config' = <<>> /\ check' = Off /\ phase' = "exited"
      /\ gauge' = [n \in Names |-> NoGauges]
      /\ because' = [n \in Names |-> [k \in Kinds |-> {}]]
      /\ request' = NoRequest /\ scrape' = NoScrape
      /\ UNCHANGED <<net, pods, deployment>>
  BY DEF Ends, PeerReset
<1>2. \A c \in Checkers : check'[c] = Check("off", NoAnswer)
  BY <1>1 DEF Off
<1>3. ChecksInv'
  <2>1. check' \in [Checkers -> Records]
    BY <1>1, FreshCheck DEF Off
  <2>2. \A c \in Checkers : CheckOK(check[c])'
    BY <1>2, FreshCheck, <1>1 DEF CheckOK, Honest
  <2> QED BY <1>1, <2>1, <2>2 DEF ProcessInv, ChecksInv, WorldTyped
<1>4. GaugesInv'
  <2>1. ConfigInv'
    BY <1>1 DEF ProcessInv, GaugesInv, ConfigInv
  <2> QED BY <1>1, <2>1, GaugesFresh
<1>5. BootInv'
  BY <1>1, <1>2 DEF BootInv, Phases, Boot, Check
<1>6. RequestInv'
  BY <1>1, <1>2, PeersAssumption DEF RequestInv, NoRequest, Check, Checkers
<1> QED BY <1>1, <1>3, <1>4, <1>5, <1>6, ScrapeNone DEF ProcessInv

\* Steps that leave peers, requests and scrapes alone.
LEMMA QuietStep ==
  ASSUME ProcessInv, UNCHANGED <<peerVars, deployment, request, scrape>>,
         phase' \in Phases, phase' \in Boot => phase \in Boot,
         phase' \in {"load", "exited"} => phase \in {"load", "exited"}
  PROVE  ProcessInv'
<1> USE DEF peerVars
<1>1. ChecksInv'
  BY DEF ProcessInv, ChecksInv, CheckOK, Honest, WorldTyped
<1>2. GaugesInv'
  BY GaugesKeep DEF ProcessInv
<1>3. BootInv' /\ RequestInv'
  BY DEF ProcessInv, BootInv, RequestInv
<1>4. SameChecks
  BY DEF SameChecks
<1> QED BY <1>1, <1>2, <1>3, <1>4, ScrapeKeep DEF ProcessInv

LEMMA GetConfigStep ==
  ASSUME ProcessInv, GetConfig
  PROVE  ProcessInv'
<1>1. CASE Ends
  BY <1>1, EndsStep
<1>2. CASE /\ Accepted(deployment.peers)
           /\ config' = deployment.peers /\ phase' = "environment"
           /\ UNCHANGED <<net, pods, check, gauge, because, deployment, request, scrape>>
  <2>1. phase = "load"
    BY DEF GetConfig
  <2>2. ChecksInv'
    BY <1>2 DEF ProcessInv, ChecksInv, CheckOK, Honest, WorldTyped
  <2>3. ConfigInv'
    BY <1>2 DEF ProcessInv, GaugesInv, ConfigInv, Accepted
  <2>4. /\ gauge = [n \in Names |-> NoGauges] /\ because = [n \in Names |-> [k \in Kinds |-> {}]]
        /\ \A c \in Checkers : check[c].at = "off"
        /\ request = NoRequest /\ scrape = NoScrape
    BY <2>1 DEF ProcessInv, BootInv, Boot
  <2>5. \A c \in Checkers : check[c].left = <<>>
    BY <2>4 DEF ProcessInv, ChecksInv, CheckOK
  <2>6. DOMAIN config' \subseteq Checkers /\ Len(config') \in Nat /\ 0 \in Checkers
    <3>1. PICK E : E = [name : Names, peer : Peers, url : BOOLEAN]
      OBVIOUS
    <3>2. config' \in Seq(E) /\ Len(config') <= MaxPeers
      BY <1>2, <3>1, DeploymentsAssumption DEF ProcessInv, GaugesInv, ConfigInv
    <3> QED BY <3>2, PeersAssumption DEF Checkers
  <2>7. GaugesInv'
    BY <1>2, <2>3, <2>4, <2>5, <2>6, GaugesFresh
  <2>8. BootInv'
    BY <1>2, <2>4 DEF BootInv, Phases, Boot
  <2>9. RequestInv'
    BY <1>2, <2>4, <2>6 DEF RequestInv, NoRequest
  <2> QED BY <1>2, <2>2, <2>4, <2>7, <2>8, <2>9, ScrapeNone DEF ProcessInv
<1> QED BY <1>1, <1>2 DEF GetConfig

LEMMA StartPingersStep ==
  ASSUME ProcessInv, StartPingers
  PROVE  ProcessInv'
<1>1. /\ phase = "pingers" /\ phase' = "bgp"
      /\ UNCHANGED <<net, pods, config, gauge, because, deployment, request, scrape>>
  BY DEF StartPingers, Goes
<1>2. /\ gauge = [n \in Names |-> NoGauges] /\ because = [n \in Names |-> [k \in Kinds |-> {}]]
      /\ \A c \in Checkers : check[c].at = "off"
      /\ request = NoRequest /\ scrape = NoScrape
  BY <1>1 DEF ProcessInv, BootInv, Boot
<1>3. DOMAIN config \subseteq Checkers /\ 0 \notin DOMAIN config /\ 0 \in Checkers
      /\ Len(config) \in Nat
  BY ConfigFacts DEF ProcessInv, GaugesInv
<1>4. /\ check' \in [Checkers -> Records]
      /\ \A c \in Checkers : /\ check'[c] = check[c] \/ check'[c] = Check("sleep", NoAnswer)
                             /\ c \notin DOMAIN config => check'[c] = check[c]
  <2>1. CASE deployment.ping = "on"
    <3>1. check' = [c \in Checkers |-> IF c \in DOMAIN config
                                       THEN Check("sleep", NoAnswer) ELSE check[c]]
      BY <2>1 DEF StartPingers
    <3> QED BY <3>1, FreshCheck DEF ProcessInv, ChecksInv
  <2>2. CASE deployment.ping # "on"
    BY <2>2 DEF StartPingers, ProcessInv, ChecksInv
  <2> QED BY <2>1, <2>2
<1>5. \A c \in Checkers : check[c].left = <<>>
  BY <1>2 DEF ProcessInv, ChecksInv, CheckOK
<1>6. \A c \in Checkers : check'[c].left = <<>> /\ CheckOK(check'[c])
  BY <1>4, <1>5, FreshCheck DEF ProcessInv, ChecksInv
<1>7. ChecksInv'
  <2>1. \A c \in Checkers : CheckOK(check[c])'
    BY <1>1, <1>6 DEF CheckOK, Honest
  <2> QED BY <1>1, <1>4, <2>1 DEF ProcessInv, ChecksInv, WorldTyped
<1>8. GaugesInv'
  <2>1. ConfigInv'
    BY <1>1 DEF ProcessInv, GaugesInv, ConfigInv, Accepted
  <2> QED BY <1>1, <1>2, <1>3, <1>6, <2>1, GaugesFresh
<1>9. BootInv'
  BY <1>1 DEF BootInv, Phases, Boot
<1>10. RequestInv'
  BY <1>1, <1>2, <1>3, <1>4 DEF RequestInv, NoRequest
<1> QED BY <1>1, <1>2, <1>7, <1>8, <1>9, <1>10, ScrapeNone DEF ProcessInv

LEMMA PeerWorldStep ==
  ASSUME ProcessInv, PeerWorld, UNCHANGED <<phase, deployment, request, scrape>>
  PROVE  ProcessInv'
<1>1. ChecksInv' /\ \A d \in Checkers : /\ check'[d].left = check[d].left
                                        /\ check'[d].status = check[d].status
                                        /\ check'[d].at = check[d].at
  BY WorldStep DEF ProcessInv
<1>2. UNCHANGED <<config, gauge, because>>
  BY DEF PeerWorld, NetChanges, PodStarts, PodStops
<1>3. DOMAIN config \subseteq Checkers /\ 0 \in Checkers
  BY ConfigFacts DEF ProcessInv, GaugesInv
<1>4. SameChecks
  BY <1>1, <1>3 DEF SameChecks
<1>5. GaugesInv'
  BY <1>2, <1>4, GaugesKeep DEF ProcessInv, SameChecks
<1>6. BootInv' /\ RequestInv'
  BY <1>1, <1>2, <1>3 DEF ProcessInv, BootInv, RequestInv
<1> QED BY <1>1, <1>2, <1>4, <1>5, <1>6, ScrapeKeep DEF ProcessInv

\* What a request does to its own check concerns no gauge.
LEMMA OwnCheck ==
  ASSUME ProcessInv, ChecksInv', \A d \in Checkers \ {0} : check'[d] = check[d],
         phase \notin Boot, RequestInv',
         UNCHANGED <<config, gauge, because, phase, deployment, scrape>>
  PROVE  ProcessInv'
<1>1. DOMAIN config \subseteq Checkers \ {0}
  BY ConfigFacts DEF ProcessInv, GaugesInv
<1>2. SameChecks
  BY <1>1 DEF SameChecks
<1>3. GaugesInv'
  BY <1>2, GaugesKeep DEF ProcessInv, SameChecks
<1>4. BootInv'
  BY DEF ProcessInv, BootInv, Boot
<1> QED BY <1>2, <1>3, <1>4, ScrapeKeep DEF ProcessInv

\* Asking the next peer, or noticing that there is none.
LEMMA AskStep ==
  ASSUME ProcessInv, NEW k \in Nat, AskPeer(k), UNCHANGED <<net, pods>>
  PROVE  /\ ChecksInv' /\ \A d \in Checkers \ {0} : check'[d] = check[d]
         /\ check'[0].at # "off" => k \in DOMAIN config
<1>1. 0 \in Checkers /\ \A i \in DOMAIN config : config[i].peer \in Peers
  BY ConfigFacts DEF ProcessInv, GaugesInv
<1>2. CASE k \in DOMAIN config
  BY <1>1, <1>2, BeginStep DEF AskPeer, ProcessInv
<1>3. CASE k \notin DOMAIN config
  <2>1. check' = [check EXCEPT ![0] = Check("off", NoAnswer)]
    BY <1>3 DEF AskPeer
  <2>2. /\ check' \in [Checkers -> Records] /\ check'[0] = Check("off", NoAnswer)
        /\ \A d \in Checkers \ {0} : check'[d] = check[d]
    BY <1>1, <2>1, FreshCheck DEF ProcessInv, ChecksInv
  <2>3. \A d \in Checkers : CheckOK(check'[d])
    BY <2>2, FreshCheck DEF ProcessInv, ChecksInv
  <2>4. \A d \in Checkers : CheckOK(check[d])'
    BY <2>3 DEF CheckOK, Honest
  <2>5. ChecksInv'
    BY <2>2, <2>4 DEF ProcessInv, ChecksInv, WorldTyped
  <2> QED BY <2>2, <2>5 DEF Check
<1> QED BY <1>2, <1>3

LEMMA RequestStatusStep ==
  ASSUME ProcessInv, RequestStatus
  PROVE  ProcessInv'
<1>1. /\ AskPeer(1) /\ phase = "up" /\ request' = [next |-> 1, answer |-> <<>>]
      /\ UNCHANGED <<net, pods, config, gauge, because, phase, deployment, scrape>>
  BY DEF RequestStatus
<1>2. Len(config) \in Nat /\ DOMAIN config = 1 .. Len(config)
  BY ConfigFacts DEF ProcessInv, GaugesInv
<1>3. RequestInv'
  BY <1>1, <1>2, AskStep DEF RequestInv
<1> QED BY <1>1, <1>3, AskStep, OwnCheck DEF Boot

LEMMA CheckForRequestStep ==
  ASSUME ProcessInv, CheckForRequest
  PROVE  ProcessInv'
<1>1. 0 \in Checkers /\ Status(0) /\ UNCHANGED <<config, gauge, because, phase, deployment, request, scrape>>
  BY ConfigFacts DEF ProcessInv, GaugesInv, CheckForRequest, procVars, Status
<1>2. check[0].at # "off"
  BY <1>1 DEF Status, Resolve, PingService, PingPod
<1>3. ChecksInv' /\ \A d \in Checkers \ {0} : check'[d] = check[d]
  BY <1>1, StatusStep DEF ProcessInv
<1>4. RequestInv' /\ phase \notin Boot
  BY <1>1, <1>2 DEF ProcessInv, RequestInv, BootInv
<1> QED BY <1>1, <1>3, <1>4, OwnCheck

LEMMA CollectStatusStep ==
  ASSUME ProcessInv, CollectStatus
  PROVE  ProcessInv'
<1>1. /\ check[0].at = "done" /\ AskPeer(request.next + 1)
      /\ request' = [next |-> request.next + 1, answer |-> Append(request.answer, Finding(0))]
      /\ UNCHANGED <<net, pods, config, gauge, because, phase, deployment, scrape>>
  BY DEF CollectStatus
<1>2. Len(config) \in Nat /\ DOMAIN config = 1 .. Len(config) /\ 0 \in Checkers
  BY ConfigFacts DEF ProcessInv, GaugesInv
<1>3. request.next \in DOMAIN config /\ phase \notin Boot
  BY <1>1, <1>2 DEF ProcessInv, RequestInv, BootInv
<1>4. check[0] \in Records /\ CheckOK(check[0])
  BY <1>2 DEF ProcessInv, ChecksInv
<1>5. Finding(0) \in Findings
  BY <1>4 DEF Findings, Finding, Records, Fields, Climbed, CheckOK, Honest
<1>6. /\ request.answer \in Seq(Findings) /\ Len(request.answer) <= request.next
  BY DEF ProcessInv, RequestInv
<1>7. /\ Append(request.answer, Finding(0)) \in Seq(Findings)
      /\ Len(Append(request.answer, Finding(0))) <= request.next + 1
  BY <1>2, <1>3, <1>5, <1>6
<1>8. RequestInv'
  BY <1>1, <1>2, <1>3, <1>7, AskStep DEF RequestInv
<1> QED BY <1>1, <1>2, <1>3, <1>8, AskStep, OwnCheck

LEMMA ReplyStep ==
  ASSUME ProcessInv, Reply
  PROVE  ProcessInv'
<1>1. /\ request.next > 0 /\ AllAsked
      /\ request' = NoRequest /\ check' = [check EXCEPT ![0] = Check("off", NoAnswer)]
      /\ UNCHANGED <<net, pods, config, gauge, because, phase, deployment, scrape>>
  BY DEF Reply
<1>2. Len(config) \in Nat /\ DOMAIN config = 1 .. Len(config)
  BY ConfigFacts DEF ProcessInv, GaugesInv
<1>3. request.next \in Nat /\ request.next \notin DOMAIN config /\ phase \notin Boot
  BY <1>1, <1>2 DEF ProcessInv, RequestInv, AllAsked, BootInv, NoRequest
<1>4. AskPeer(request.next)
  BY <1>1, <1>3 DEF AskPeer
<1>5. ChecksInv' /\ (\A d \in Checkers \ {0} : check'[d] = check[d]) /\ check'[0].at = "off"
  BY <1>1, <1>3, <1>4, AskStep
<1>6. RequestInv'
  BY <1>1, <1>2, <1>5 DEF RequestInv, NoRequest
<1> QED BY <1>1, <1>3, <1>5, <1>6, OwnCheck

\* A pinger writes no gauge of a name that is not in flux.
LEMMA AtRestStays ==
  ASSUME ProcessInv, NEW i \in DOMAIN config, CreateGauge(i) \/ SetGauge(i),
         NEW n \in Names, ~InFlux(n)
  PROVE  gauge'[n] = gauge[n]
<1>1. PICK m, k, r : m = config[i].name /\ r = check[i] /\ k = Head(r.left)
  OBVIOUS
<1>2. m \in Names /\ i \in Checkers
  BY <1>1, ConfigFacts DEF ProcessInv, GaugesInv
<1>3. r \in Records /\ r.left \in Lefts /\ r.left # <<>>
  BY <1>1, <1>2, RecordFacts DEF ProcessInv, ChecksInv, CreateGauge, SetGauge
<1>4. k \in Kinds /\ k \in Rest(r.left)
  BY <1>1, <1>3, RestFacts
<1>5. gauge \in [Names -> [Kinds -> Values]]
  BY DEF ProcessInv, GaugesInv, GaugesTyped
<1>6. CASE m # n
  <2>1. \E val : gauge' = [gauge EXCEPT ![m][k] = val]
    BY <1>1 DEF CreateGauge, SetGauge
  <2> QED BY <1>2, <1>5, <1>6, <2>1
<1>7. CASE m = n
  <2>1. gauge[n][k] = Verdict(r.status)[k]
    BY <1>1, <1>4, <1>7 DEF InFlux, Rest
  <2>2. gauge[n][k] \in {-1, 0, 1}
    BY <1>3, <1>4, <2>1, VerdictFacts
  <2>3. ~CreateGauge(i)
    BY <1>1, <1>7, <2>2 DEF CreateGauge, NoSeries
  <2>4. gauge' = [gauge EXCEPT ![n][k] = gauge[n][k]]
    BY <1>1, <1>7, <2>1, <2>3 DEF SetGauge
  <2> QED BY <1>2, <1>4, <1>5, <1>7, <2>4
<1> QED BY <1>6, <1>7

\* What is left to show of a step of a pinger.
LEMMA PingerRest ==
  ASSUME ProcessInv, NEW i \in 1 .. MaxPeers, PingerOf(i), phase \notin Boot,
         ChecksInv', GaugesInv', \A d \in Checkers \ {i} : check'[d] = check[d],
         UNCHANGED <<config, phase, deployment, request>>,
         \A n \in Names : ~InFlux(n) => gauge'[n] = gauge[n]
  PROVE  ProcessInv'
<1>1. BootInv'
  BY DEF ProcessInv, BootInv, Boot
<1>2. RequestInv'
  BY PeersAssumption DEF ProcessInv, RequestInv, Checkers
<1>3. PICK old, now : old = scrape /\ now = {n \in Names : InFlux(n)'}
  OBVIOUS
<1>4. old = [todo |-> old.todo, seen |-> old.seen, flux |-> old.flux]
      /\ old.seen \in [Names -> [Kinds -> Values]] /\ old.todo \in SUBSET (Names \X Kinds)
      /\ old.flux \in SUBSET Names
  BY <1>3 DEF ProcessInv, ScrapeInv
<1>5. CASE scrape.todo = {}
  <2>1. scrape' = scrape
    BY <1>5 DEF PingerOf
  <2> QED BY <1>1, <1>2, <1>5, <2>1 DEF ProcessInv, ScrapeInv, TornOnlyInFlux
<1>6. CASE scrape.todo # {}
  <2>1. scrape' = [old EXCEPT !.flux = old.flux \union now]
    BY <1>3, <1>6 DEF PingerOf
  <2>2. scrape' = [todo |-> old.todo, seen |-> old.seen, flux |-> old.flux \union now]
    BY <1>4, <2>1
  <2>3. ASSUME NEW n \in Names \ (old.flux \union now)
        PROVE  /\ ~InFlux(n)'
               /\ \A k \in Kinds : <<n, k>> \notin old.todo => old.seen[n][k] = gauge'[n][k]
    <3>1. ~InFlux(n)'
      BY <1>3
    <3>2. ~InFlux(n) /\ \A k \in Kinds : <<n, k>> \notin old.todo => old.seen[n][k] = gauge[n][k]
      BY <1>3, <1>6 DEF ProcessInv, ScrapeInv
    <3> QED BY <3>1, <3>2
  <2>4. TornOnlyInFlux'
    BY <1>3, <1>6, <2>2 DEF TornOnlyInFlux
  <2>5. ScrapeInv'
    BY <1>3, <1>4, <2>2, <2>3, <2>4 DEF ScrapeInv
  <2> QED BY <1>1, <1>2, <2>5 DEF ProcessInv
<1> QED BY <1>5, <1>6

LEMMA PingerStep ==
  ASSUME ProcessInv, NEW i \in 1 .. MaxPeers, PingerOf(i)
  PROVE  ProcessInv'
<1>1. /\ i \in DOMAIN config /\ i \in Checkers /\ i # 0 /\ config[i].peer \in Peers
      /\ check[i].at # "off" /\ 0 \in Checkers /\ DOMAIN config \subseteq Checkers
      /\ UNCHANGED <<phase, deployment, request>>
  BY ConfigFacts DEF ProcessInv, GaugesInv, PingerOf
<1>2. phase \notin Boot
  BY <1>1 DEF ProcessInv, BootInv
<1>3. Pinger(i) /\ config' = config
  BY DEF PingerOf, Pinger, Wake, Status, CreateGauge, SetGauge
<1>4. CASE Wake(i) \/ Status(i)
  <2>1. /\ ChecksInv' /\ \A d \in Checkers \ {i} : check'[d] = check[d]
        /\ check[i].left = <<>>
    <3>1. CASE Wake(i)
      <4>1. Begin(i, config[i].peer) /\ UNCHANGED <<net, pods>> /\ check[i].at = "sleep"
        BY <3>1 DEF Wake
      <4> QED BY <1>1, <4>1, BeginStep DEF ProcessInv, ChecksInv, CheckOK
    <3>2. CASE Status(i)
      <4>1. check[i].at \in Kinds
        BY <3>2 DEF Status, Resolve, PingService, PingPod, Kinds
      <4>2. check[i].left = <<>>
        BY <1>1, <4>1 DEF ProcessInv, ChecksInv, CheckOK
      <4> QED BY <1>1, <3>2, <4>2, StatusStep DEF ProcessInv
    <3> QED BY <1>4, <3>1, <3>2
  <2>2. UNCHANGED <<gauge, because>>
    BY <1>4 DEF Wake, Status
  <2>3. check'[i].left \in {<<>>, <<"dns", "svc", "pod">>}
    <3>1. CASE Wake(i)
      BY <1>1, <3>1, BeginStep DEF Wake, ProcessInv
    <3>2. CASE Status(i)
      BY <1>1, <3>2, StatusStep DEF ProcessInv
    <3> QED BY <1>4, <3>1, <3>2
  <2>4. GaugesInv'
    BY <1>1, <1>3, <2>1, <2>2, <2>3, GaugesKeep DEF ProcessInv
  <2> QED BY <1>1, <1>2, <1>3, <2>1, <2>2, <2>4, PingerRest
<1>5. CASE CreateGauge(i) \/ SetGauge(i)
  <2>1. ChecksInv' /\ GaugesInv' /\ \A d \in Checkers \ {i} : check'[d] = check[d]
    <3>1. CASE CreateGauge(i)
      <4>1. check' = check
        BY <3>1 DEF CreateGauge
      <4> QED BY <1>1, <3>1, <4>1, CreateStep DEF ProcessInv
    <3>2. CASE SetGauge(i)
      BY <1>1, <3>2, SetStep DEF ProcessInv
    <3> QED BY <1>5, <3>1, <3>2
  <2>2. \A n \in Names : ~InFlux(n) => gauge'[n] = gauge[n]
    BY <1>1, <1>5, AtRestStays
  <2> QED BY <1>1, <1>2, <1>3, <2>1, <2>2, PingerRest
<1> QED BY <1>3, <1>4, <1>5 DEF Pinger

LEMMA StartScrapeStep ==
  ASSUME ProcessInv, StartScrape
  PROVE  ProcessInv'
<1>1. PICK none : none = [n \in Names |-> NoGauges] /\ none \in [Names -> [Kinds -> Values]]
  <2>1. NoGauges \in [Kinds -> Values]
    BY DEF NoGauges, Values
  <2>2. [n \in Names |-> NoGauges] \in [Names -> [Kinds -> Values]]
    BY <2>1
  <2> QED BY <2>2
<1>2. PICK flux : flux = {n \in Names : InFlux(n)}
  OBVIOUS
<1>3. /\ phase = "up" /\ scrape' = [todo |-> AllSeries, seen |-> none, flux |-> flux]
      /\ UNCHANGED <<net, pods, config, check, gauge, because, deployment, phase, request>>
  BY <1>1, <1>2 DEF StartScrape, peerVars
<1>4. ChecksInv' /\ GaugesInv'
  BY <1>3, GaugesKeep DEF ProcessInv, ChecksInv, CheckOK, Honest, WorldTyped
<1>5. BootInv' /\ RequestInv'
  BY <1>3 DEF ProcessInv, BootInv, RequestInv, Boot
<1>6. AllSeries \in SUBSET (Names \X Kinds)
  BY ConfigFacts DEF ProcessInv, GaugesInv, AllSeries
<1>7. ASSUME NEW n \in Names \ flux
      PROVE  ~InFlux(n)' /\ \A k \in Kinds : <<n, k>> \notin AllSeries => none[n][k] = gauge'[n][k]
  <2>1. ~InFlux(n)'
    BY <1>2, <1>3, <1>7 DEF InFlux
  <2>2. ASSUME NEW k \in Kinds, <<n, k>> \notin AllSeries PROVE none[n][k] = gauge[n][k]
    <3>1. Named(n) = {}
      BY <2>2 DEF AllSeries, Named
    <3>2. gauge[n] = NoGauges
      BY <3>1 DEF ProcessInv, GaugesInv, GaugesWhole
    <3> QED BY <1>1, <3>2
  <2> QED BY <1>3, <2>1, <2>2
<1>8. TornOnlyInFlux'
  BY <1>1, <1>3 DEF TornOnlyInFlux
<1>9. ScrapeInv'
  BY <1>1, <1>2, <1>3, <1>6, <1>7, <1>8 DEF ScrapeInv
<1> QED BY <1>4, <1>5, <1>9 DEF ProcessInv

LEMMA ReadSeriesStep ==
  ASSUME ProcessInv, ReadSeries
  PROVE  ProcessInv'
<1>1. PICK s \in scrape.todo :
        scrape' = [scrape EXCEPT !.todo = @ \ {s}, !.seen[s[1]][s[2]] = gauge[s[1]][s[2]]]
  BY DEF ReadSeries
<1>2. UNCHANGED <<net, pods, config, check, gauge, because, deployment, phase, request>>
  BY DEF ReadSeries, peerVars
<1>3. PICK old : old = scrape
  OBVIOUS
<1>4. /\ old = [todo |-> old.todo, seen |-> old.seen, flux |-> old.flux]
      /\ old.seen \in [Names -> [Kinds -> Values]] /\ old.todo \in SUBSET (Names \X Kinds)
      /\ old.flux \in SUBSET Names
      /\ \A n \in Names \ old.flux :
           ~InFlux(n) /\ \A k \in Kinds : <<n, k>> \notin old.todo => old.seen[n][k] = gauge[n][k]
  BY <1>1, <1>3 DEF ProcessInv, ScrapeInv
<1>5. PICK m \in Names, j \in Kinds : s = <<m, j>>
  BY <1>1, <1>3, <1>4
<1>6. PICK seen : seen = [old.seen EXCEPT ![m][j] = gauge[m][j]]
  OBVIOUS
<1>7. scrape' = [todo |-> old.todo \ {s}, seen |-> seen, flux |-> old.flux]
  BY <1>1, <1>3, <1>4, <1>5, <1>6
<1>8. gauge \in [Names -> [Kinds -> Values]]
  BY DEF ProcessInv, GaugesInv, GaugesTyped
<1>9. /\ seen \in [Names -> [Kinds -> Values]] /\ seen[m][j] = gauge[m][j]
      /\ \A n \in Names, k \in Kinds : n # m \/ k # j => seen[n][k] = old.seen[n][k]
  BY <1>4, <1>5, <1>6, <1>8
<1>10. ASSUME NEW n \in Names \ old.flux
       PROVE  ~InFlux(n)' /\ \A k \in Kinds : <<n, k>> \notin old.todo \ {s} => seen[n][k] = gauge'[n][k]
  <2>1. ~InFlux(n)'
    BY <1>2, <1>4 DEF InFlux
  <2>2. ASSUME NEW k \in Kinds, <<n, k>> \notin old.todo \ {s} PROVE seen[n][k] = gauge[n][k]
    BY <1>4, <1>5, <1>9, <2>2
  <2> QED BY <1>2, <2>1, <2>2
<1>11. TornOnlyInFlux'
  <2> SUFFICES ASSUME old.todo \ {s} = {}, NEW n \in Names \ old.flux
               PROVE  seen[n] \in Ladder \union {NoGauges}
    BY <1>7 DEF TornOnlyInFlux
  <2>1. \A k \in Kinds : seen[n][k] = gauge[n][k]
    BY <1>2, <1>10
  <2>2. seen[n] = gauge[n]
    BY <1>8, <1>9, <2>1
  <2>3. ~InFlux(n)
    BY <1>4
  <2> QED BY <2>2, <2>3, AtRest DEF ProcessInv
<1>12. ScrapeInv'
  <2>1. old.todo \ {s} \in SUBSET (Names \X Kinds)
    BY <1>4
  <2> QED BY <1>4, <1>7, <1>9, <1>10, <1>11, <2>1 DEF ScrapeInv
<1>13. ChecksInv' /\ GaugesInv'
  BY <1>2, GaugesKeep DEF ProcessInv, ChecksInv, CheckOK, Honest, WorldTyped
<1>14. BootInv' /\ RequestInv'
  <2>1. phase \notin Boot
    BY <1>1 DEF ProcessInv, BootInv, NoScrape
  <2> QED BY <1>2, <2>1 DEF ProcessInv, BootInv, RequestInv, Boot
<1> QED BY <1>12, <1>13, <1>14 DEF ProcessInv

LEMMA ProcessStep ==
  ASSUME ProcessInv, [Next]_vars
  PROVE  ProcessInv'
<1>1. CASE GetConfig
  BY <1>1, GetConfigStep
<1>2. CASE ReadEnvironment
  <2>1. CASE Ends
    BY <2>1, EndsStep
  <2>2. CASE Goes("environment", "pingers") /\ UNCHANGED <<peerVars, deployment, request, scrape>>
    BY <2>2, QuietStep DEF Goes, Phases, Boot
  <2> QED BY <1>2, <2>1, <2>2 DEF ReadEnvironment
<1>3. CASE StartPingers
  BY <1>3, StartPingersStep
<1>4. CASE StartBgp
  <2>1. CASE Ends
    BY <2>1, EndsStep
  <2>2. CASE Goes("bgp", "listen") /\ UNCHANGED <<peerVars, deployment, request, scrape>>
    BY <2>2, QuietStep DEF Goes, Phases, Boot
  <2> QED BY <1>4, <2>1, <2>2 DEF StartBgp
<1>5. CASE Listen
  BY <1>5, QuietStep DEF Listen, Goes, Phases, Boot
<1>6. CASE Kill
  BY <1>6, EndsStep DEF Kill
<1>7. CASE Restart
  BY <1>7, QuietStep DEF Restart, Goes, Phases, Boot
<1>8. CASE PingHandler \/ BgpUpdater \/ Time \/ UNCHANGED vars
  <2>1. phase \in Phases
    BY DEF ProcessInv, BootInv
  <2> QED BY <1>8, <2>1, QuietStep DEF PingHandler, BgpUpdater, Time, procVars, vars
<1>9. CASE RequestStatus
  BY <1>9, RequestStatusStep
<1>10. CASE CheckForRequest
  BY <1>10, CheckForRequestStep
<1>11. CASE CollectStatus
  BY <1>11, CollectStatusStep
<1>12. CASE Reply
  BY <1>12, ReplyStep
<1>13. CASE StartScrape
  BY <1>13, StartScrapeStep
<1>14. CASE ReadSeries
  BY <1>14, ReadSeriesStep
<1>15. CASE \E i \in 1 .. MaxPeers : PingerOf(i)
  BY <1>15, PingerStep
<1>16. CASE World
  <2>1. phase \in Phases
    BY DEF ProcessInv, BootInv
  <2>2. CASE PeerWorld
    BY <1>16, <2>2, PeerWorldStep DEF World
  <2>3. CASE UNCHANGED peerVars
    BY <1>16, <2>1, <2>3, QuietStep DEF World
  <2> QED BY <1>16, <2>2, <2>3 DEF World
<1> QED
  BY <1>1, <1>2, <1>3, <1>4, <1>5, <1>6, <1>7, <1>8, <1>9, <1>10, <1>11, <1>12, <1>13,
     <1>14, <1>15, <1>16
  DEF Next, Startup, Handlers

LEMMA ProcessInit ==
  ASSUME Init
  PROVE  ProcessInv
<1>1. /\ net = [p \in Peers |-> [dns |-> "one", svc |-> "up", pod |-> "up"]]
      /\ pods = InitialPods /\ config = <<>> /\ check = Off
      /\ gauge = [n \in Names |-> NoGauges]
      /\ because = [n \in Names |-> [k \in Kinds |-> {}]]
      /\ deployment \in Deployments
      /\ phase = "load" /\ request = NoRequest /\ scrape = NoScrape
  BY DEF Init, PeerInit
<1>2. WorldTyped
  BY <1>1, PeersAssumption DEF WorldTyped, Networks
<1>3. \A c \in Checkers : check[c] = Check("off", NoAnswer)
  BY <1>1 DEF Off
<1>4. ChecksInv
  BY <1>1, <1>2, <1>3, FreshCheck DEF ChecksInv, Off
<1>5. GaugesInv
  <2>1. \A n \in Names, k \in Kinds : gauge[n] = NoGauges /\ gauge[n][k] = NoSeries /\ because[n][k] = {}
    BY <1>1 DEF NoGauges
  <2>2. GaugesTyped
    BY <1>1 DEF GaugesTyped, NoGauges, Values
  <2>3. GaugesMeant
    BY <2>1 DEF GaugesMeant, NoSeries
  <2>4. GaugesWhole
    <3>1. \A n \in Names : Named(n) = {}
      <4>1. config = <<>> /\ DOMAIN config = {}
        BY <1>1
      <4> QED BY <4>1 DEF Named
    <3>2. \A n \in Names : gauge[n] = NoGauges
      BY <1>1
    <3> QED BY <3>1, <3>2 DEF GaugesWhole
  <2> QED BY <1>1, <2>2, <2>3, <2>4 DEF GaugesInv, ConfigInv
<1>6. BootInv
  BY <1>1, <1>3 DEF BootInv, Phases, Boot, Check
<1>7. RequestInv
  BY <1>1, <1>3, PeersAssumption DEF RequestInv, NoRequest, Check, Checkers
<1>8. ScrapeInv
  <2>1. [n \in Names |-> NoGauges] \in [Names -> [Kinds -> Values]]
    BY DEF NoGauges, Values
  <2> QED BY <1>1, <2>1 DEF ScrapeInv, NoScrape, TornOnlyInFlux
<1> QED BY <1>4, <1>5, <1>6, <1>7, <1>8 DEF ProcessInv

LEMMA ProcessAlways == Spec => []ProcessInv
<1>1. Init => ProcessInv
  BY ProcessInit
<1>2. ProcessInv /\ [Next]_vars => ProcessInv'
  BY ProcessStep
<1> QED BY <1>1, <1>2, PTL DEF Spec

\* For any peers, pods and networks, however they change during a check, and over any
\* kills: a gauge and an answer to /peers/status say what a check has met.
THEOREM GaugesSayWhatWasMet == Spec => []GaugesAreReal
<1>1. ProcessInv => GaugesAreReal
  <2> SUFFICES ASSUME ProcessInv PROVE GaugesAreReal
    OBVIOUS
  <2>1. \A i \in DOMAIN request.answer : request.answer[i] \in Findings
    BY DEF ProcessInv, RequestInv
  <2>2. \A i \in DOMAIN request.answer : Honest(request.answer[i])
    BY <2>1 DEF Findings
  <2> QED BY <2>2 DEF ProcessInv, GaugesInv, GaugesMeant, GaugesAreReal, Honest
<1> QED BY <1>1, ProcessAlways, PTL

\* For any number of peers and scrapes: a scrape that meets the gauges of a name at
\* rest reads those of one check.
THEOREM ScrapesAreWhole == Spec => []TornOnlyInFlux
<1>1. ProcessInv => TornOnlyInFlux
  BY DEF ProcessInv, ScrapeInv
<1> QED BY <1>1, ProcessAlways, PTL

---------------------------------------------------------------------------
(* The BGP gauges *)

Stages == {"off", "list", "hung", "resetPeers", "resetRoutes", "fill", "sleep"}
Item == [report : Reports, stamp : Nat]

LEMMA PlaceFacts ==
  ASSUME NEW list \in Seq(Item), NEW p \in Places(list)
  PROVE  /\ p.item \in Nat /\ p.entry \in Nat /\ p.vec \in {"peer", "route"}
         /\ p = [item |-> p.item, vec |-> p.vec, entry |-> p.entry]
         /\ list[p.item].stamp \in Nat
         /\ SeriesAt(list, p).vec = p.vec
<1>1. PICK i \in DOMAIN list : p \in PlacesIn(list, i)
  BY DEF Places
<1>2. i \in Nat /\ list[i] \in Item
  OBVIOUS
<1>3. PICK r : r = list[i].report
  OBVIOUS
<1>4. DOMAIN r.peers \subseteq Nat /\ DOMAIN r.routes \subseteq Nat /\ list[i].stamp \in Nat
  BY <1>2, <1>3, BgpAssumption DEF Item
<1>5. \/ p \in [item : {i}, vec : {"peer"}, entry : DOMAIN r.peers]
      \/ p \in [item : {i}, vec : {"route"}, entry : {j \in DOMAIN r.routes : r.routes[j].learned}]
  BY <1>1, <1>3 DEF PlacesIn
<1>6. /\ p.item = i /\ p.entry \in Nat /\ p.vec \in {"peer", "route"}
      /\ p = [item |-> p.item, vec |-> p.vec, entry |-> p.entry]
  BY <1>4, <1>5
<1>7. SeriesAt(list, p).vec = p.vec
  BY <1>6 DEF SeriesAt, Peering, Routing
<1> QED BY <1>2, <1>4, <1>6, <1>7

\* The loops come to no place twice.
LEMMA PrecedesOnce ==
  ASSUME NEW list \in Seq(Item), NEW p \in Places(list), NEW q \in Places(list),
         Precedes(p, q), Precedes(q, p)
  PROVE  FALSE
BY PlaceFacts DEF Precedes

\* A value is the verdict on its place at a moment since the list was made.
Fits(value, p) ==
  IF value = -1 THEN Stale(upd.list[p.item].stamp, clock)
  ELSE ~Stale(upd.list[p.item].stamp, upd.clock) /\ value = IF GoodAt(upd.list, p) THEN 1 ELSE 0

\* The last of some places with the series s.
IsLast(p, s, places) ==
  /\ p \in places /\ SeriesAt(upd.list, p) = s
  /\ \A q \in places \ {p} : SeriesAt(upd.list, q) = s => Precedes(q, p)

Of(places) == {SeriesAt(upd.list, p) : p \in places}
Done == Places(upd.list) \ upd.left

BgpTyped ==
  /\ crs \in Seq(Item) /\ clock \in Nat /\ api \in ApiStates
  /\ upd = [at |-> upd.at, list |-> upd.list, clock |-> upd.clock, left |-> upd.left]
  /\ upd.at \in Stages /\ upd.list \in Seq(Item) /\ upd.clock \in Nat /\ upd.clock <= clock

\* Every series there is says what its last place of the places says.
Shown(places) ==
  \A s \in Of(places) : s \in DOMAIN series /\ \E p \in places : IsLast(p, s, places) /\ Fits(series[s], p)

\* While the vectors are filled, the places done lie before those left, and the only
\* series without a value is that of the next place.
FillInv ==
  /\ upd.left \subseteq Places(upd.list)
  /\ \A p \in upd.left, q \in Done : Precedes(q, p)
  /\ DOMAIN series \subseteq Of(Done) \union Of({p \in upd.left : IsNext(p)})
  /\ Shown(Done)

StageInv ==
  /\ upd.at = "off" => DOMAIN series = {}
  /\ upd.at \in {"sleep", "list", "hung"} =>
       DOMAIN series = Of(Places(upd.list)) /\ Shown(Places(upd.list))
  /\ upd.at = "resetPeers" => \A s \in DOMAIN series : s.vec \in {"peer", "route"}
  /\ upd.at = "resetRoutes" => \A s \in DOMAIN series : s.vec = "route"
  /\ upd.at = "fill" => FillInv

BgpInv ==
  /\ BgpTyped /\ StageInv
  /\ phase \in {"load", "environment", "pingers", "bgp", "exited"} => upd.at = "off"

LEMMA UpdaterIs ==
  ASSUME NEW stage, NEW list, NEW at, NEW left
  PROVE  LET u == Updater(stage, list, at, left)
         IN  /\ u = [at |-> u.at, list |-> u.list, clock |-> u.clock, left |-> u.left]
             /\ u.at = stage /\ u.list = list /\ u.clock = at /\ u.left = left
BY DEF Updater

\* Time passes, or nothing: a series that was stale is so still.
LEMMA StageKeeps ==
  ASSUME BgpTyped, StageInv, UNCHANGED <<upd, series>>, clock' \in Nat, clock <= clock'
  PROVE  StageInv'
<1>1. \A p \in Places(upd.list) : \A v : Fits(v, p) => Fits(v, p)'
  <2> SUFFICES ASSUME NEW p \in Places(upd.list), NEW v, Fits(v, p) PROVE Fits(v, p)'
    OBVIOUS
  <2>1. upd.list[p.item].stamp \in Nat /\ Timeout \in Nat
    BY PlaceFacts, BgpAssumption DEF BgpTyped
  <2> QED BY <2>1 DEF Fits, Stale, BgpTyped, GoodAt
<1>2. \A p, s, places : IsLast(p, s, places)' = IsLast(p, s, places)
  BY DEF IsLast
<1>3. \A places : Of(places)' = Of(places)
  BY DEF Of
<1>4. Done' = Done /\ \A p : IsNext(p)' = IsNext(p)
  BY DEF Done, IsNext
<1>5. \A places \in SUBSET Places(upd.list) : Shown(places) => Shown(places)'
  BY <1>1, <1>2, <1>3 DEF Shown
<1>6. Done \subseteq Places(upd.list)
  BY DEF Done
<1>7. FillInv => FillInv'
  <2> SUFFICES ASSUME FillInv PROVE FillInv'
    OBVIOUS
  <2>1. Shown(Done)'
    <3>1. Shown(Done)
      BY DEF FillInv
    <3>2. \A s : s \in Of(Done)' <=> s \in Of(Done)
      BY <1>3, <1>4 DEF Of
    <3>3. \A p \in Done : \A s : IsLast(p, s, Done) /\ Fits(series[s], p) =>
             IsLast(p, s, Done)' /\ Fits(series[s], p)'
      BY <1>1, <1>4, <1>6 DEF IsLast
    <3> QED BY <1>4, <3>1, <3>2, <3>3 DEF Shown
  <2>2. Of({p \in upd.left : IsNext(p)})' = Of({p \in upd.left : IsNext(p)}) /\ Of(Done)' = Of(Done)
    BY <1>3, <1>4 DEF Of
  <2> QED BY <1>4, <2>1, <2>2 DEF FillInv
<1>8. Of(Places(upd.list))' = Of(Places(upd.list))
  BY <1>3 DEF Of
<1>9. Shown(Places(upd.list)) => Shown(Places(upd.list))'
  BY <1>5 DEF Shown
<1> QED BY <1>7, <1>8, <1>9 DEF StageInv

LEMMA ListKeeps ==
  ASSUME BgpTyped, StageInv, List
  PROVE  BgpTyped' /\ StageInv'
<1>0. /\ upd.at = "list" /\ UNCHANGED <<crs, clock, api, series>>
      /\ api = "answers" => upd' = Updater("resetPeers", crs, clock, {})
      /\ api \in {"fails", "hangs"} =>
           \E stage \in {"sleep", "hung"} : upd' = [upd EXCEPT !.at = stage]
  BY DEF List
<1>1. CASE api = "answers"
  <2>1. upd' = Updater("resetPeers", crs, clock, {})
    BY <1>0, <1>1
  <2>2. /\ upd' = [at |-> upd'.at, list |-> upd'.list, clock |-> upd'.clock, left |-> upd'.left]
        /\ upd'.at = "resetPeers" /\ upd'.list = crs /\ upd'.clock = clock
    BY <2>1, UpdaterIs
  <2>3. \A s \in DOMAIN series : s.vec \in {"peer", "route"}
    BY <1>0, PlaceFacts DEF BgpTyped, StageInv, Of
  <2> QED BY <1>0, <2>2, <2>3 DEF BgpTyped, StageInv, Stages
<1>2. CASE api \in {"fails", "hangs"}
  <2>1. \E stage \in {"sleep", "hung"} : upd' = [upd EXCEPT !.at = stage]
    BY <1>0, <1>2
  <2>2. /\ upd' = [at |-> upd'.at, list |-> upd'.list, clock |-> upd'.clock, left |-> upd'.left]
        /\ upd'.at \in {"sleep", "hung"} /\ upd'.list = upd.list /\ upd'.clock = upd.clock
    BY <2>1 DEF BgpTyped
  <2>3. \A places : Of(places)' = Of(places) /\ (Shown(places) => Shown(places)')
    BY <1>0, <2>2 DEF Of, Shown, IsLast, Fits
  <2>4. DOMAIN series' = Of(Places(upd.list))' /\ Shown(Places(upd.list))'
    BY <1>0, <2>2, <2>3 DEF StageInv, Of, Shown
  <2> QED BY <1>0, <2>2, <2>4 DEF BgpTyped, StageInv, Stages
<1> QED BY <1>1, <1>2 DEF BgpTyped, ApiStates

LEMMA ResetKeeps ==
  ASSUME BgpTyped, StageInv, ResetPeers \/ ResetRoutes
  PROVE  BgpTyped' /\ StageInv'
<1>1. CASE ResetPeers
  <2>1. upd' = [upd EXCEPT !.at = "resetRoutes"] /\ upd.at = "resetPeers" /\ UNCHANGED <<crs, clock, api>>
    BY <1>1 DEF ResetPeers
  <2>2. /\ upd' = [at |-> upd'.at, list |-> upd'.list, clock |-> upd'.clock, left |-> upd'.left]
        /\ upd'.at = "resetRoutes" /\ upd'.list = upd.list /\ upd'.clock = upd.clock
    BY <2>1 DEF BgpTyped
  <2>3. DOMAIN series' = {t \in DOMAIN series : t.vec # "peer"}
    BY <1>1 DEF ResetPeers, Without
  <2> QED BY <2>1, <2>2, <2>3 DEF BgpTyped, StageInv, Stages
<1>2. CASE ResetRoutes
  <2>1. /\ upd' = Updater("fill", upd.list, upd.clock, Places(upd.list))
        /\ upd.at = "resetRoutes" /\ UNCHANGED <<crs, clock, api>>
    BY <1>2 DEF ResetRoutes
  <2>2. /\ upd' = [at |-> upd'.at, list |-> upd'.list, clock |-> upd'.clock, left |-> upd'.left]
        /\ upd'.at = "fill" /\ upd'.list = upd.list /\ upd'.clock = upd.clock
        /\ upd'.left = Places(upd.list)
    BY <2>1, UpdaterIs
  <2>3. DOMAIN series' = {}
    <3>1. DOMAIN series' = {t \in DOMAIN series : t.vec # "route"}
      BY <1>2 DEF ResetRoutes, Without
    <3> QED BY <2>1, <3>1 DEF StageInv
  <2>4. Done' = {} /\ Of(Done)' = {}
    BY <2>2 DEF Done, Of
  <2>5. FillInv'
    BY <2>2, <2>3, <2>4 DEF FillInv, Shown
  <2> QED BY <2>1, <2>2, <2>5 DEF BgpTyped, StageInv, Stages
<1> QED BY <1>1, <1>2

LEMMA CreateKeeps ==
  ASSUME BgpTyped, StageInv, CreateSeries
  PROVE  BgpTyped' /\ StageInv'
<1>1. PICK p \in upd.left :
        /\ IsNext(p) /\ SeriesAt(upd.list, p) \notin DOMAIN series
        /\ series' = [s \in DOMAIN series \union {SeriesAt(upd.list, p)} |->
                        IF s = SeriesAt(upd.list, p) THEN 0 ELSE series[s]]
  BY DEF CreateSeries
<1>2. UNCHANGED <<crs, clock, api, upd>> /\ upd.at = "fill" /\ FillInv
  BY <1>1 DEF CreateSeries, IsNext, StageInv
<1>3. Done' = Done /\ Of(Done)' = Of(Done)
      /\ Of({q \in upd.left : IsNext(q)})' = Of({q \in upd.left : IsNext(q)})
  BY <1>2 DEF Done, Of, IsNext
<1>4. DOMAIN series' = DOMAIN series \union {SeriesAt(upd.list, p)}
  BY <1>1
<1>5. SeriesAt(upd.list, p) \in Of({q \in upd.left : IsNext(q)})
  BY <1>1 DEF Of
<1>6. DOMAIN series' \subseteq Of(Done)' \union Of({q \in upd.left : IsNext(q)})'
  BY <1>2, <1>3, <1>4, <1>5 DEF FillInv
<1>7. \A s \in DOMAIN series : s \in DOMAIN series' /\ series'[s] = series[s]
  BY <1>1
<1>8. Shown(Done)'
  <2> SUFFICES ASSUME NEW s \in Of(Done)
               PROVE  s \in DOMAIN series' /\ \E q \in Done : IsLast(q, s, Done)' /\ Fits(series[s], q)'
    BY <1>3 DEF Shown
  <2>1. s \in DOMAIN series
    BY <1>2 DEF FillInv, Shown
  <2>2. PICK q \in Done : IsLast(q, s, Done) /\ Fits(series[s], q)
    BY <1>2 DEF FillInv, Shown
  <2>3. series'[s] = series[s] /\ s \in DOMAIN series'
    BY <1>7, <2>1
  <2>4. IsLast(q, s, Done)'
    BY <1>2, <1>3, <2>2 DEF IsLast
  <2>5. Fits(series[s], q)'
    BY <1>2, <2>2, <2>3 DEF Fits
  <2> QED BY <2>3, <2>4, <2>5
<1>9. FillInv'
  BY <1>2, <1>3, <1>6, <1>8 DEF FillInv
<1> QED BY <1>2, <1>9 DEF BgpTyped, StageInv

LEMMA SetKeeps ==
  ASSUME BgpTyped, StageInv, SetSeries
  PROVE  BgpTyped' /\ StageInv'
<1>1. PICK p \in upd.left :
        /\ IsNext(p) /\ SeriesAt(upd.list, p) \in DOMAIN series
        /\ series' = [series EXCEPT ![SeriesAt(upd.list, p)] = ValueOf(upd.list, p, clock)]
        /\ upd' = [upd EXCEPT !.left = @ \ {p}]
  BY DEF SetSeries
<1>2. UNCHANGED <<crs, clock, api>> /\ upd.at = "fill" /\ FillInv
  BY <1>1 DEF SetSeries, IsNext, StageInv
<1>3. /\ upd' = [at |-> upd'.at, list |-> upd'.list, clock |-> upd'.clock, left |-> upd'.left]
      /\ upd'.at = "fill" /\ upd'.list = upd.list /\ upd'.clock = upd.clock
      /\ upd'.left = upd.left \ {p}
  BY <1>1, <1>2 DEF BgpTyped
<1>4. p \in Places(upd.list) /\ Done' = Done \union {p} /\ p \notin Done
  BY <1>2, <1>3 DEF FillInv, Done
<1>5. \A places : Of(places)' = Of(places)
  BY <1>3 DEF Of
<1>6. DOMAIN series' = DOMAIN series
  BY <1>1
<1>7. \A r \in upd.left \ {p}, q \in Done \union {p} : Precedes(q, r)
  BY <1>1, <1>2 DEF FillInv, IsNext
<1>8. DOMAIN series \subseteq Of(Done \union {p})
  <2>1. \A q \in upd.left : IsNext(q) => q = p
    <3> SUFFICES ASSUME NEW q \in upd.left, IsNext(q), q # p PROVE FALSE
      OBVIOUS
    <3>1. Precedes(p, q) /\ Precedes(q, p) /\ q \in Places(upd.list)
      BY <1>1, <1>2 DEF IsNext, FillInv
    <3> QED BY <1>4, <3>1, PrecedesOnce DEF BgpTyped
  <2> QED BY <1>2, <2>1 DEF FillInv, Of
<1>9. \A q, v : Fits(v, q)' = Fits(v, q)
  BY <1>2, <1>3 DEF Fits
<1>10. \A q, s, places : IsLast(q, s, places)' = IsLast(q, s, places)
  BY <1>3 DEF IsLast
<1>11. Fits(ValueOf(upd.list, p, clock), p)
  <2>1. upd.list[p.item].stamp \in Nat /\ Timeout \in Nat
    BY <1>4, PlaceFacts, BgpAssumption DEF BgpTyped
  <2> QED BY <2>1 DEF Fits, ValueOf, Stale, BgpTyped
<1>12. ASSUME NEW s \in Of(Done \union {p})
       PROVE  s \in DOMAIN series' /\ \E q \in Done \union {p} :
                 IsLast(q, s, Done \union {p}) /\ Fits(series'[s], q)
  <2>1. CASE s = SeriesAt(upd.list, p)
    <3>1. s \in DOMAIN series' /\ series'[s] = ValueOf(upd.list, p, clock)
      BY <1>1, <2>1
    <3>2. IsLast(p, s, Done \union {p})
      BY <1>2, <2>1 DEF IsLast, FillInv
    <3> QED BY <1>11, <3>1, <3>2
  <2>2. CASE s # SeriesAt(upd.list, p)
    <3>1. s \in Of(Done)
      BY <2>2 DEF Of
    <3>2. s \in DOMAIN series
      BY <1>2, <3>1 DEF FillInv, Shown
    <3>3. PICK q \in Done : IsLast(q, s, Done) /\ Fits(series[s], q)
      BY <1>2, <3>1 DEF FillInv, Shown
    <3>4. series'[s] = series[s]
      BY <1>1, <2>2, <3>2
    <3>5. IsLast(q, s, Done \union {p})
      BY <2>2, <3>3 DEF IsLast
    <3> QED BY <1>6, <3>2, <3>3, <3>4, <3>5
  <2> QED BY <2>1, <2>2
<1>13. Shown(Done)'
  <2>1. Of(Done)' = Of(Done \union {p})
    BY <1>3, <1>4 DEF Of
  <2>2. \A q, s : IsLast(q, s, Done)' = IsLast(q, s, Done \union {p})
    BY <1>3, <1>4 DEF IsLast
  <2> QED BY <1>4, <1>9, <1>12, <2>1, <2>2 DEF Shown
<1>14. DOMAIN series' \subseteq Of(Done)'
  BY <1>3, <1>4, <1>6, <1>8 DEF Of
<1>15. FillInv'
  BY <1>2, <1>3, <1>4, <1>7, <1>13, <1>14 DEF FillInv
<1> QED BY <1>2, <1>3, <1>15 DEF BgpTyped, StageInv, Stages

LEMMA SleepKeeps ==
  ASSUME BgpTyped, StageInv, Filled \/ NextPeriod
  PROVE  BgpTyped' /\ StageInv'
<1>1. \E stage \in {"sleep", "list"} : upd' = [upd EXCEPT !.at = stage]
  BY DEF Filled, NextPeriod
<1>2. /\ upd' = [at |-> upd'.at, list |-> upd'.list, clock |-> upd'.clock, left |-> upd'.left]
      /\ upd'.at \in {"sleep", "list"} /\ upd'.list = upd.list /\ upd'.clock = upd.clock
  BY <1>1 DEF BgpTyped
<1>3. UNCHANGED <<crs, clock, api, series>>
  BY DEF Filled, NextPeriod
<1>4. DOMAIN series = Of(Places(upd.list)) /\ Shown(Places(upd.list))
  <2>1. CASE Filled
    <3>1. upd.left = {} /\ FillInv
      BY <2>1 DEF Filled, StageInv
    <3>2. Done = Places(upd.list)
      BY <3>1 DEF Done
    <3>3. Of({p \in upd.left : IsNext(p)}) = {}
      BY <3>1 DEF Of
    <3>4. DOMAIN series \subseteq Of(Done) /\ Shown(Done)
      BY <3>1, <3>3 DEF FillInv
    <3> QED BY <3>2, <3>4 DEF Shown
  <2>2. CASE NextPeriod
    BY <2>2 DEF NextPeriod, StageInv
  <2> QED BY <2>1, <2>2
<1>5. \A places : Of(places)' = Of(places) /\ (Shown(places) => Shown(places)')
  BY <1>2, <1>3 DEF Of, Shown, IsLast, Fits
<1>6. DOMAIN series' = Of(Places(upd.list))' /\ Shown(Places(upd.list))'
  BY <1>2, <1>3, <1>4, <1>5 DEF Of, Shown
<1> QED BY <1>2, <1>3, <1>6 DEF BgpTyped, StageInv, Stages

LEMMA CalicoKeeps ==
  ASSUME BgpTyped, Report \/ Withdraw
  PROVE  crs' \in Seq(Item) /\ UNCHANGED <<clock, api, upd, series>>
<1>1. CASE Report
  <2>1. PICK i \in DOMAIN crs, r \in Reports : crs' = [crs EXCEPT ![i] = [report |-> r, stamp |-> clock]]
    BY <1>1 DEF Report
  <2>2. [report |-> r, stamp |-> clock] \in Item
    BY DEF Item, BgpTyped
  <2> QED BY <1>1, <2>1, <2>2 DEF Report, BgpTyped
<1>2. CASE Withdraw
  <2>1. PICK i \in DOMAIN crs : crs' = SubSeq(crs, 1, i - 1) \o SubSeq(crs, i + 1, Len(crs))
    BY <1>2 DEF Withdraw, RemoveAt
  <2>2. crs \in Seq(Item) /\ i \in 1 .. Len(crs) /\ Len(crs) \in Nat
    BY DEF BgpTyped
  <2>3. SubSeq(crs, 1, i - 1) \in Seq(Item)
    BY <2>2
  <2>4. SubSeq(crs, i + 1, Len(crs)) \in Seq(Item)
    BY <2>2
  <2> QED BY <1>2, <2>1, <2>3, <2>4 DEF Withdraw
<1> QED BY <1>1, <1>2

LEMMA BgpStarted ==
  ASSUME NEW stage \in {"off", "list"}, upd' = Updater(stage, <<>>, 0, {}),
         DOMAIN series' = {}, BgpTyped, UNCHANGED <<crs, clock, api>>
  PROVE  BgpTyped' /\ StageInv' /\ upd'.at = stage
<1>1. /\ upd' = [at |-> upd'.at, list |-> upd'.list, clock |-> upd'.clock, left |-> upd'.left]
      /\ upd'.at = stage /\ upd'.list = <<>> /\ upd'.clock = 0
  BY UpdaterIs
<1>2. Places(<<>>) = {}
  BY DEF Places
<1>3. Of(Places(upd.list))' = {} /\ Shown(Places(upd.list))'
  BY <1>1, <1>2 DEF Of, Shown
<1>4. <<>> \in Seq(Item) /\ 0 <= clock
  BY DEF BgpTyped
<1>5. BgpTyped'
  <2>1. crs' \in Seq(Item) /\ clock' \in Nat /\ api' \in ApiStates
    BY DEF BgpTyped
  <2>2. upd'.at \in Stages
    BY <1>1 DEF Stages
  <2>3. upd'.list \in Seq(Item)
    <3>1. upd'.list = <<>>
      BY <1>1, Zenon
    <3>2. <<>> \in Seq(Item)
      BY <1>4, Zenon
    <3> QED BY <3>1, <3>2, Zenon
  <2>4. upd'.clock \in Nat /\ upd'.clock <= clock'
    <3>1. upd'.clock = 0 /\ clock' = clock
      BY <1>1, Zenon
    <3>2. 0 \in Nat /\ 0 <= clock
      BY <1>4, SMT
    <3> QED BY <3>1, <3>2, Zenon
  <2> QED BY <1>1, <2>1, <2>2, <2>3, <2>4 DEF BgpTyped
<1>6. StageInv'
  BY <1>1, <1>3 DEF StageInv
<1> QED BY <1>1, <1>5, <1>6

LEMMA BgpEnds ==
  ASSUME BgpInv, Ends
  PROVE  BgpInv'
<1>1. upd' = Updater("off", <<>>, 0, {}) /\ series' = <<>> /\ UNCHANGED <<crs, clock, api>>
  BY DEF Ends, BgpReset, NotStarted, NoBgp
<1> QED BY <1>1, BgpStarted DEF BgpInv

LEMMA BgpRests ==
  ASSUME BgpInv, UNCHANGED bgpVars, phase' \in {"load", "environment", "pingers", "bgp", "exited"}
           => phase \in {"load", "environment", "pingers", "bgp", "exited"}
  PROVE  BgpInv'
<1>1. UNCHANGED <<crs, clock, api, upd, series>> /\ clock' \in Nat /\ clock <= clock'
  BY DEF bgpVars, BgpInv, BgpTyped
<1> QED BY <1>1, StageKeeps DEF BgpInv, BgpTyped

LEMMA BgpStep ==
  ASSUME BgpInv, [Next]_vars
  PROVE  BgpInv'
<1>1. CASE Ends
  BY <1>1, BgpEnds
<1>2. CASE UNCHANGED <<bgpVars, phase>>
  BY <1>2, BgpRests
<1>3. CASE GetConfig
  BY <1>1, <1>3, BgpRests DEF GetConfig
<1>4. CASE ReadEnvironment
  BY <1>1, <1>4, BgpRests DEF ReadEnvironment, Goes
<1>5. CASE StartPingers \/ Listen \/ Restart
  BY <1>5, BgpRests DEF StartPingers, Listen, Restart, Goes
<1>6. CASE StartBgp
  <2>1. CASE deployment.bgp = "on" /\ ~Ends
    <3>1. upd' = Updater("list", <<>>, 0, {}) /\ UNCHANGED <<crs, clock, api, series>> /\ phase' = "listen"
      BY <1>6, <2>1 DEF StartBgp, Goes
    <3>2. DOMAIN series = {}
      BY <1>6 DEF StartBgp, Goes, BgpInv, StageInv
    <3> QED BY <3>1, <3>2, BgpStarted DEF BgpInv
  <2>2. CASE deployment.bgp # "on" /\ ~Ends
    <3>1. UNCHANGED bgpVars /\ phase = "bgp" /\ phase' = "listen"
      BY <1>6, <2>2 DEF StartBgp, Goes, bgpVars
    <3> QED BY <3>1, BgpRests
  <2> QED BY <1>1, <2>1, <2>2
<1>7. CASE Kill
  BY <1>1, <1>7 DEF Kill
<1>8. CASE BgpUpdater
  <2>1. BgpTyped' /\ StageInv'
    BY <1>8, ListKeeps, ResetKeeps, CreateKeeps, SetKeeps, SleepKeeps DEF BgpUpdater, Update, BgpInv
  <2>2. phase' = phase /\ upd.at # "off"
    BY <1>8 DEF BgpUpdater, procVars, Update, List, ResetPeers, ResetRoutes, CreateSeries,
       SetSeries, IsNext, Filled, NextPeriod
  <2> QED BY <2>1, <2>2 DEF BgpInv
<1>9. CASE World
  <2>1. phase' = phase
    BY <1>9 DEF World
  <2>2. CASE UNCHANGED bgpVars
    BY <1>2, <2>1, <2>2
  <2>3. CASE Report \/ Withdraw
    <3>1. crs' \in Seq(Item) /\ UNCHANGED <<clock, api, upd, series>>
      BY <2>3, CalicoKeeps DEF BgpInv
    <3>2. clock' \in Nat /\ clock <= clock'
      BY <3>1 DEF BgpInv, BgpTyped
    <3> QED BY <2>1, <3>1, <3>2, StageKeeps DEF BgpInv, BgpTyped
  <2>4. CASE ApiChanges
    <3>1. api' \in ApiStates /\ UNCHANGED <<crs, clock, upd, series>>
      BY <2>4 DEF ApiChanges
    <3>2. clock' \in Nat /\ clock <= clock'
      BY <3>1 DEF BgpInv, BgpTyped
    <3> QED BY <2>1, <3>1, <3>2, StageKeeps DEF BgpInv, BgpTyped
  <2> QED BY <1>9, <2>2, <2>3, <2>4 DEF World
<1>10. CASE Time
  <2>1. UNCHANGED <<crs, api, upd, series, phase>> /\ clock' = clock + 1
    BY <1>10 DEF Time, Tick, procVars
  <2>2. clock' \in Nat /\ clock <= clock' /\ upd.clock <= clock'
    BY <2>1 DEF BgpInv, BgpTyped
  <2> QED BY <2>1, <2>2, StageKeeps DEF BgpInv, BgpTyped
<1>11. CASE \/ PingHandler \/ RequestStatus \/ Handlers \/ StartScrape \/ ReadSeries
            \/ \E i \in 1 .. MaxPeers : PingerOf(i)
  BY <1>2, <1>11
  DEF PingHandler, RequestStatus, Handlers, CheckForRequest, CollectStatus, Reply, StartScrape,
      ReadSeries, PingerOf, procVars
<1>12. CASE UNCHANGED vars
  BY <1>2, <1>12 DEF vars, procVars
<1> QED
  BY <1>3, <1>4, <1>5, <1>6, <1>7, <1>8, <1>9, <1>10, <1>11, <1>12 DEF Next, Startup

LEMMA BgpAlways == Spec => []BgpInv
<1>1. Init => BgpInv
  <2> SUFFICES ASSUME Init PROVE BgpInv
    OBVIOUS
  <2>1. /\ clock = 0 /\ api = "answers" /\ upd = NotStarted /\ series = <<>>
    BY DEF Init, BgpInit, NoBgp
  <2>2. api \in ApiStates
    BY <2>1 DEF ApiStates
  <2>3. crs \in Seq(Item)
    <3>1. PICK rs \in Resources : crs = [i \in DOMAIN rs |-> [report |-> rs[i], stamp |-> 0]]
      BY DEF Init, BgpInit
    <3>2. rs \in Seq(Reports)
      BY BgpAssumption
    <3>3. \A i \in DOMAIN rs : [report |-> rs[i], stamp |-> 0] \in Item
      BY <3>2 DEF Item
    <3>4. DOMAIN rs = 1 .. Len(rs) /\ Len(rs) \in Nat
      BY <3>2
    <3> QED BY <3>1, <3>3, <3>4
  <2>4. /\ upd = [at |-> upd.at, list |-> upd.list, clock |-> upd.clock, left |-> upd.left]
        /\ upd.at = "off" /\ upd.list = <<>> /\ upd.clock = 0
    BY <2>1 DEF NotStarted, Updater
  <2>5. BgpTyped
    BY <2>1, <2>2, <2>3, <2>4 DEF BgpTyped, Stages
  <2> QED BY <2>1, <2>4, <2>5 DEF BgpInv, StageInv
<1>2. BgpInv /\ [Next]_vars => BgpInv'
  BY BgpStep
<1> QED BY <1>1, <1>2, PTL DEF Spec

\* For any resources, periods and timeout, however Calico, the API server and restarts
\* interfere: between two updates the BGP gauges are those of the last list, and the
\* later of two resources with the same series counts.
THEOREM BgpGaugesShowTheList == Spec => []BgpShowsList
<1>1. BgpInv => BgpShowsList
  <2> SUFFICES ASSUME BgpInv PROVE BgpShowsList
    OBVIOUS
  <2>1. \A places : Of(places) = {SeriesAt(upd.list, p) : p \in places}
    BY DEF Of
  <2>2. upd.at = "fill" => DOMAIN series \subseteq SeriesIn(upd.list)
    BY DEF BgpInv, StageInv, FillInv, Of, Done, SeriesIn
  <2>3. ASSUME upd.at \in {"sleep", "list", "hung"}
        PROVE  DOMAIN series = SeriesIn(upd.list)
    BY <2>3 DEF BgpInv, StageInv, Of, SeriesIn
  <2>4. ASSUME upd.at \in {"sleep", "list", "hung"}, NEW s \in DOMAIN series
        PROVE  Fits(series[s], LastPlace(upd.list, s))
    <3>1. PICK p \in Places(upd.list) : IsLast(p, s, Places(upd.list)) /\ Fits(series[s], p)
      BY <2>4 DEF BgpInv, StageInv, Shown
    <3>2. PICK q : q = LastPlace(upd.list, s)
      OBVIOUS
    <3>3. IsLast(q, s, Places(upd.list))
      BY <3>1, <3>2 DEF IsLast, LastPlace
    <3>4. p # q => Precedes(p, q) /\ Precedes(q, p)
      BY <3>1, <3>3 DEF IsLast
    <3>5. p = q
      BY <3>1, <3>3, <3>4, PrecedesOnce DEF IsLast, BgpInv, BgpTyped
    <3> QED BY <3>1, <3>2, <3>5
  <2> QED BY <2>2, <2>3, <2>4 DEF BgpShowsList, Fits
<1> QED BY <1>1, BgpAlways, PTL

---------------------------------------------------------------------------
(* Types *)

LEMMA HealthStep == health \in {0, 1} /\ [Next]_vars => (health \in {0, 1})'
BY DEF Next, Startup, GetConfig, ReadEnvironment, StartPingers, StartBgp, Listen, Kill, Restart,
   PingHandler, RequestStatus, Handlers, CheckForRequest, CollectStatus, Reply, StartScrape,
   ReadSeries, PingerOf, BgpUpdater, World, Time, Ends, procVars, vars

\* Every variable of the process keeps its type for any deployment: an answer never has
\* more peers than were asked, a check climbs one rung after the other, and a
\* configuration in memory is that of the deployment.
THEOREM TypeCorrect == Spec => []TypeOK
<1>1. Init => health \in {0, 1}
  BY DEF Init
<1>2. health \in {0, 1} /\ [Next]_vars => (health \in {0, 1})'
  BY HealthStep
<1>3. ProcessInv /\ BgpInv /\ health \in {0, 1} => TypeOK
  <2> SUFFICES ASSUME ProcessInv, BgpInv, health \in {0, 1} PROVE TypeOK
    OBVIOUS
  <2>1. check \in [Checkers ->
          [at : Kinds \union {"off", "done", "sleep"}, peer : Peers \union {NoAnswer},
           status : Rungs,
           address : Addresses \union {NoAnswer, Other}, amiss : SUBSET Kinds,
           met : SUBSET Kinds, left : Seq(Kinds)]]
    <3>1. Lefts \subseteq Seq(Kinds)
      BY DEF Lefts, Kinds
    <3> QED BY <3>1 DEF ProcessInv, ChecksInv, Records, Fields, Climbed
  <2>2. config \in Seq([name : Names, peer : Peers, url : BOOLEAN]) /\ Len(config) <= MaxPeers
    <3>1. PICK E : E = [name : Names, peer : Peers, url : BOOLEAN]
      OBVIOUS
    <3>2. config \in Seq(E) /\ Len(config) <= MaxPeers
      <4>1. CASE config = <<>>
        BY <4>1, PeersAssumption
      <4>2. CASE config = deployment.peers
        BY <3>1, <4>2, DeploymentsAssumption DEF ProcessInv, GaugesInv, ConfigInv
      <4> QED BY <4>1, <4>2 DEF ProcessInv, GaugesInv, ConfigInv
    <3> QED BY <3>1, <3>2
  <2>3. PeerTypeOK
    BY <2>1, <2>2 DEF PeerTypeOK, ProcessInv, ChecksInv, WorldTyped, GaugesInv, GaugesTyped, Values
  <2>4. request.next \in 0 .. MaxPeers + 1 /\ Len(request.answer) <= request.next
    <3>1. Len(config) \in Nat /\ Len(config) <= MaxPeers
      BY ConfigFacts DEF ProcessInv, GaugesInv
    <3> QED BY <3>1, PeersAssumption DEF ProcessInv, RequestInv
  <2>5. config \in {<<>>, deployment.peers} /\ deployment \in Deployments
    BY DEF ProcessInv, GaugesInv, ConfigInv
  <2> QED
    BY <2>3, <2>4, <2>5
    DEF TypeOK, ProcessInv, BootInv, Phases, Boot, ScrapeInv, Values, BgpInv, BgpTyped, Stages
<1> QED BY <1>1, <1>2, <1>3, ProcessAlways, BgpAlways, PTL DEF Spec
===============================================================================
