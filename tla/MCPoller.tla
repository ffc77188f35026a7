------------------------------- MODULE MCPoller -------------------------------
(* Poller for TLC: two secrets, versions that identify revisions. *)
EXTENDS PollerInvariant

Identity(i) == i
Opaque(r)   == r
=============================================================================
