------------------------------ MODULE MCPollerGcp -----------------------------
(* Poller over Secret Manager: the version is the number in the resource name, *)
(* which starts at 1 again when a deleted secret is created anew.              *)
EXTENDS Poller

Identity(i) == i
Number(r)   == r.num
=============================================================================
