---------------------------- MODULE MCWatchStream -----------------------------
(* WatchStream for TLC: a secret in a/a and one in a/b, a watch on everything or on a *)
(* and a caller who may see both secrets, the second only, neither of them though it  *)
(* may list the one and watch the other, or nothing at all.                           *)
EXTENDS WatchStream, PollLoopInvariant

Identity(i)  == i
Opaque(r)    == r
TwoNs(k)     == IF k = 1 THEN <<"a", "a">> ELSE <<"a", "b">>
TwoRequests  == {Root, <<"a">>}
OneRequest   == {<<"a">>}

spec(ns, acts) == [principal |-> "caller", namespace |-> ns, actions |-> acts]
noise == [principal |-> "other", namespace |-> Root, actions |-> Action]

Choices(specSets) == {NewPolicy(specs \cup {noise}) : specs \in specSets}

Both    == {spec(Root, {"list"}), spec(<<"a">>, {"list", "watch"})}
Second  == {spec(<<"a">>, {"list", "get"}), spec(<<"a", "b">>, {"watch"})}
Neither == {spec(<<"a", "a">>, {"list"}), spec(<<"a", "b">>, {"watch"})}
Refused == {spec(Root, {"list", "put", "delete"})}

AllPolicies == Choices({Both, Second, Neither, Refused})
=============================================================================
