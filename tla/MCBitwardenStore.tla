--------------------------- MODULE MCBitwardenStore ---------------------------
(* Instances of BitwardenStore: concurrent calls on one key of a project. *)
EXTENDS BitwardenStore, TLC

Symmetric == Permutations(Call) \cup Permutations(Object) \cup Permutations(Value)

\* Bound: what the project holds at the start has a note, as the adapter's own
\* objects have not until somebody adds one.
MCInit == Init /\ \A i \in Object : Exists(i) => objects[i].note # NoNote

MCSpec == MCInit /\ [][Next]_vars
================================================================================
