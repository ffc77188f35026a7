------------------------------- MODULE MCServer -------------------------------
(* Server for TLC: a secret in a and one in a/b; ann may do everything in a, bob may *)
(* list everything but read and delete in a/b only, eve is not configured.           *)
EXTENDS Server, TLC

TwoNs(k) == IF k = 1 THEN <<"a">> ELSE <<"a", "b">>

req(method, username, target, extra) ==
    [method |-> method, username |-> username, matches |-> TRUE, target |-> target, extra |-> extra]

Good ==
    {req("get", "bob", 1, "none"), req("get", "bob", 2, "none"), req("put", "ann", 1, "none"),
     req("put", "bob", 2, "none"), req("delete", "bob", 2, "none"), req("delete", "ann", 1, "none"),
     req("list", "bob", Root, "none"), req("list", "ann", <<"a", "b">>, "none")}
Odd ==
    {req("put", "ann", 2, "emptyValue"), req("put", "ann", 1, "expectedVersion"),
     req("list", "ann", <<"a">>, "pageToken"), req("get", "ann", Malformed, "none"),
     req("delete", "eve", 1, "none"),
     [req("get", "ann", 1, "none") EXCEPT !.matches = FALSE]}

Requests == Good \cup Odd
Writes   == {r \in Good : r.method \in {"put", "delete"}}

spec(user, ns, acts) == [principal |-> user, namespace |-> ns, actions |-> acts]
Wide   == NewPolicy({spec("ann", <<"a">>, Action), spec("bob", Root, {"list"}),
                     spec("bob", <<"a", "b">>, {"get", "delete"})})
Narrow == NewPolicy({spec("ann", <<"a", "b">>, Action), spec("bob", <<"a", "b">>, {"list", "put"})})
TwoPolicies == {Wide, Narrow}

CallSymmetry == Permutations(Call)
=============================================================================
