-------------------------------- MODULE Policy --------------------------------
(***************************************************************************)
(* app.Policy (internal/app/policy.go): which principal may do what, where.*)
(* A policy gives every principal a set of rules; a rule grants its        *)
(* actions in its namespace and in all that is nested beneath.  Rules only *)
(* grant, so the order of the slice the code keeps them in does not show.  *)
(***************************************************************************)
EXTENDS Namespaces

CONSTANT Principal

Action   == {"get", "list", "watch", "put", "delete"}
Rule     == [namespace : Namespace, actions : SUBSET Action]
Policies == [Principal -> SUBSET Rule]

\* NewPolicy on specs that parse: the rules of one principal are collected from
\* every spec that names it; "*" has become Root.
RuleSpec == [principal : Principal, namespace : Namespace, actions : SUBSET Action]
NewPolicy(specs) ==
    [p \in Principal |->
        {[namespace |-> s.namespace, actions |-> s.actions] :
            s \in {t \in specs : t.principal = p}}]

\* Mutant: an action granted below ns counts as granted at ns.
allowsBelow(policy, principal, action, ns) ==
    \E r \in policy[principal] : action \in r.actions /\ Overlap(r.namespace, ns)

\* Some rule grants action at or above ns.
allows(policy, principal, action, ns) ==
    \E r \in policy[principal] : action \in r.actions /\ Contains(r.namespace, ns)

\* Some rule grants action in a namespace that overlaps ns.
mayOverlap(policy, principal, action, ns) ==
    \E r \in policy[principal] : action \in r.actions /\ Overlap(r.namespace, ns)

\* Mutant: List is refused to those who may list only part of ns.
canListAll(policy, principal, ns) == allows(policy, principal, "list", ns)

canList(policy, principal, ns) == mayOverlap(policy, principal, "list", ns)

canWatch(policy, principal, ns) ==
    canList(policy, principal, ns) /\ mayOverlap(policy, principal, "watch", ns)

\* Service.visible: the check filterEvents makes for every event.
visible(policy, principal, ns, keyNS) ==
    /\ Contains(ns, keyNS)
    /\ allows(policy, principal, "list", keyNS)
    /\ allows(policy, principal, "watch", keyNS)

\* The check Service.List makes for every secret the store returned.
listable(policy, principal, ns, keyNS) ==
    /\ Contains(ns, keyNS)
    /\ allows(policy, principal, "list", keyNS)
=============================================================================
