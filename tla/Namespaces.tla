------------------------------ MODULE Namespaces ------------------------------
(***************************************************************************)
(* domain.Namespace (internal/domain/key.go): a path of segments, of which *)
(* the empty one is the zero value and stands for "everything".  The       *)
(* grammar of a segment is left out: segments are opaque.                  *)
(***************************************************************************)
EXTENDS Naturals, Sequences

CONSTANTS
    Segment,            \* the segments in use
    MaxNamespaceDepth   \* maxNamespaceDepth, 8 in the code

ASSUME DepthAssumption == MaxNamespaceDepth \in Nat

Root == <<>>

Namespace == UNION {[1..depth -> Segment] : depth \in 0..MaxNamespaceDepth}

\* other is n itself or nested beneath it.
Contains(n, other) ==
    /\ Len(n) <= Len(other)
    /\ \A i \in 1..Len(n) : other[i] = n[i]

Overlap(n, other) == Contains(n, other) \/ Contains(other, n)
=============================================================================
