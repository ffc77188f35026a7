--------------------------- MODULE PollerInvariant ----------------------------
(***************************************************************************)
(* Poller under the assumptions of PollLoopInvariant, and the inductive    *)
(* invariant its properties rest on: that of the loop, and what the        *)
(* subscriber has in common with it.                                       *)
(***************************************************************************)
EXTENDS Poller, PollLoopInvariant

\* The subscriber has received IN_SYNC where the loop is past it, or it is on offer.
InSyncTold ==
    /\ pending = InSync => ~announced
    /\ pc \in {"idle", "rejected", "snapshot", "replay"} => ~announced
    /\ pc \in {"list", "diff", "gone"} => announced
    /\ pc = "wait" /\ pending = NoEvent => announced

\* The event on offer fits what the subscriber holds.
Fits ==
    pending \notin {NoEvent, InSync} => Suits(pending, kept[KeyOf(pending.meta.item)])

IInv == PollerTypeOK /\ PollInv /\ Replica /\ InSyncTold /\ Fits
=============================================================================
