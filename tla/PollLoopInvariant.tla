-------------------------- MODULE PollLoopInvariant ---------------------------
(***************************************************************************)
(* PollLoop over a backend that keeps its side: no two objects decode to   *)
(* the same key, and versions that compare equal belong to the same        *)
(* revision (domain/secret.go: "Two Versions are equal iff they refer to   *)
(* the same revision").  MCPollerGcp drops one of the two and shows what   *)
(* breaks.                                                                 *)
(*                                                                         *)
(* PollInv is an inductive invariant of the loop, whoever receives its     *)
(* events.                                                                 *)
(***************************************************************************)
EXTENDS PollLoop

ASSUME OneObjectPerKey == \A i, j \in Item : KeyOf(i) = KeyOf(j) => i = j

ASSUME VersionsIdentify ==
    \A r, s \in Revision :
        r.item = s.item /\ VersionOf(r) = VersionOf(s) => r = s

\* The bound on the changes bounds every item's revision and version number.
Counted == \A i \in Item : backend[i].rev <= writes + 1 /\ backend[i].num <= backend[i].rev

\* What can be on offer at a given stage.
Offers ==
    /\ pc \in {"idle", "rejected", "snapshot", "list", "closed"} => pending = NoEvent
    /\ pc = "wait" => pending \in {NoEvent, InSync}
    /\ pending = InSync => pc = "wait"
    /\ pc \in {"idle", "rejected", "snapshot"} => seen = [k \in Key |-> NoRev]

\* The windows hold what the backend holds, the later one lies in the earlier, and
\* neither holds anything the backend has yet to see.
Windows ==
    \A i \in Item :
        /\ Value(i) \in recent[i]
        /\ recent[i] \subseteq window[i]
        /\ \A v \in window[i] : v # NoRev => v.item = i /\ v.rev <= backend[i].rev

\* What List returned, or has read so far: one value per item, and a true one.
Metas ==
    /\ \A r \in metas : r \in recent[r.item]
    /\ \A r, s \in metas : r.item = s.item => r = s
    /\ pc \in {"snapshot", "list"} =>
          /\ \A r \in metas : r.item \notin unread
          /\ \A i \in Item \ unread : NoRev \in recent[i] \/ \E r \in metas : r.item = i

\* seen files a revision under its own key, and under no other.
Filed == \A k \in Key : seen[k] # NoRev => KeyOf(seen[k].item) = k

\* How far seen has caught up with the List being worked through.
Progress ==
    /\ pc = "replay" =>
          /\ \A r \in metas : seen[KeyOf(r.item)] = NoRev
          /\ \A i \in Item : seen[KeyOf(i)] \in window[i] \/ \E r \in metas : r.item = i
    /\ pc \in {"wait", "list"} => \A i \in Item : seen[KeyOf(i)] \in window[i]
    /\ pc = "diff" =>
          /\ \A r \in metas : KeyOf(r.item) \notin present
          /\ \A i \in Item :
                \/ KeyOf(i) \in present /\ seen[KeyOf(i)] \in window[i]
                \/ KeyOf(i) \notin present /\ NoRev \in window[i]
                \/ \E r \in metas : r.item = i
    /\ pc = "gone" =>
          /\ \A k \in gone : seen[k] # NoRev
          /\ \A i \in Item : (IF KeyOf(i) \in gone THEN NoRev ELSE seen[KeyOf(i)]) \in window[i]
    /\ pc \in {"replay", "diff"} => window = recent
    /\ pc \notin {"diff", "closed"} => present = {}

\* seen is never ahead of the backend, nor of a List that has yet to be compared.
Behind ==
    \A i \in Item : seen[KeyOf(i)] # NoRev =>
        /\ seen[KeyOf(i)].rev <= backend[i].rev
        /\ pc = "list" \/ (pc = "diff" /\ \E r \in metas : r.item = i) =>
              \A v \in recent[i] \ {NoRev} : seen[KeyOf(i)].rev <= v.rev

PollInv ==
    /\ PollTypeOK /\ Counted /\ Offers /\ Windows /\ Metas /\ Filed
    /\ Progress /\ Behind /\ Honest
=============================================================================
