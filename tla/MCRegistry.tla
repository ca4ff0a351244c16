------------------------------- MODULE MCRegistry -------------------------------
(***************************************************************************)
(* A small instance of Registry: resources of one name in two namespaces,  *)
(* in both APIs.                                                           *)
(***************************************************************************)
EXTENDS Registry

BothApis == Apis \X {"a", "b"}
FullName(k) == IF k = "a" THEN "db.a" ELSE "db.b"
ShortName(k) == IF k \in {"a", "b"} THEN "db" ELSE k

Made(api, key, alias, seen) == [res |-> <<api, key>>, alias |-> alias, seen |-> seen]
SomeHistories ==
  { <<>>,
    <<Made("legacy", "a", "db", 0), Made("legacy", "b", "none", 1)>>,
    <<Made("legacy", "a", "db.b", 0), Made("legacy", "b", "none", 0)>>,
    <<Made("legacy", "b", "none", 0), Made("new", "b", "none", 1)>>,
    <<Made("new", "a", "none", 0), Made("new", "b", "db", 1)>> }
================================================================================
