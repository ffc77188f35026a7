------------------------------ MODULE MCGcpStore ------------------------------
(* Instances of GcpStore: concurrent calls on one key of Secret Manager. *)
EXTENDS GcpStore, TLC

Symmetric == Permutations(Call) \cup Permutations(Value)
================================================================================
