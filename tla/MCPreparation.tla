----------------------------- MODULE MCPreparation -----------------------------
(***************************************************************************)
(* Small instances of Preparation.                                         *)
(***************************************************************************)
EXTENDS Preparation, TLC

Conf(m, after, before, sequence) ==
  [module |-> m, after |-> after, before |-> before, sequence |-> sequence]

----------------------------------------------------------------------------
(* Two services; the sites may disagree on everything but the module. *)

PairServices == {"db", "app"}
PairOther(s) == IF s = "db" THEN "app" ELSE "db"
PairConfs(s) ==
  { Conf("stateful", <<>>, <<>>, "standby"),
    Conf("stateful", <<PairOther(s)>>, <<>>, "standby"),
    Conf("stateful", <<>>, <<PairOther(s)>>, "active"),
    Conf("stateful", <<"ghost">>, <<>>, "standby"),
    Conf("custom", <<>>, <<>>, "standby"),
    Conf("other", <<>>, <<>>, "standby") }

PairListings ==
  UNION {[D -> UNION {PairConfs(s) : s \in D}] : D \in SUBSET PairServices}
PairSite == {f \in PairListings : \A s \in DOMAIN f : f[s] \in PairConfs(s)}
SameModules(f, g) == \A s \in DOMAIN f \cap DOMAIN g : f[s].module = g[s].module
Nothing == [s \in {} |-> Conf("stateful", <<>>, <<>>, "standby")]
Answers(up, here, there) ==
  [up |-> up, conf |-> [x \in {"site", "opposite"} |-> IF x = "site" THEN here ELSE there]]
PairClusters ==
  {Answers({"site", "opposite"}, p[1], p[2]) :
     p \in {q \in PairSite \X PairSite : SameModules(q[1], q[2])}}
  \cup {Answers({"opposite"}, Nothing, g) : g \in PairSite}
  \cup {Answers({"site"}, f, Nothing) : f \in PairSite}
  \cup {Answers({}, Nothing, Nothing)}

PairSelections ==
  { [run |-> {}, skip |-> {}], [run |-> {"app"}, skip |-> {}], [run |-> {}, skip |-> {"db"}] }
PairState(here, there) ==
  [x \in {"site", "opposite"} |-> IF x = "site" THEN here ELSE there]
PairRestrictions ==
  "db" :> {PairState("active", "active")} @@ "*" :> {PairState("standby", "standby")}
PairModes == {[s \in PairServices |-> m] : m \in {"active", "standby", "--"}}
PairPartOf == {<<m, m>> : m \in {"stateful", "custom", "other"}}

----------------------------------------------------------------------------
(* Three services, one of which waits for the two others. *)

TripleServices == {"db", "cache", "app"}
TripleSite ==
  [s \in TripleServices |->
     Conf("stateful", IF s = "app" THEN <<"db", "cache">> ELSE <<>>, <<>>, "standby")]
TripleClusters == {Answers({"site", "opposite"}, TripleSite, TripleSite)}
TripleSelections == {[run |-> {}, skip |-> {}]}
TripleModes == {[s \in TripleServices |-> "active"]}
NoRestrictions == [s \in {} |-> {}]
================================================================================
