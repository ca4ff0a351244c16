----------------------------- MODULE MCStatusRequest -----------------------------
(***************************************************************************)
(* A small instance of StatusRequest: a cycle with a way into it, a        *)
(* resource that names itself, services reached twice, and a name without  *)
(* a resource behind an after and behind a before list.  Services of the   *)
(* legacy API appear in the new one, with the same lists or with others.   *)
(***************************************************************************)
EXTENDS StatusRequest

Deps(after, before) == [after |-> after, before |-> before]

Cycle == "a" :> Deps(<<"b">>, <<>>) @@ "b" :> Deps(<<>>, <<"a">>) @@ "c" :> Deps(<<"a">>, <<>>)
Diamond == "a" :> Deps(<<"b">>, <<"c">>) @@ "b" :> Deps(<<"c">>, <<>>)
Target == "c" :> Deps(<<"c">>, <<>>)

SomeLegacyLists == {Cycle, Diamond, NoList}
SomeNewLists == {Target, NoList}
================================================================================
