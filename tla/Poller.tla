-------------------------------- MODULE Poller --------------------------------
(***************************************************************************)
(* watch.Poll together with one subscriber that receives every event and   *)
(* applies it to a local copy, as the contract of WatchSecrets lets a      *)
(* client do: no separate ListSecrets, an ADDED or UPDATED event puts the  *)
(* revision in the copy and a DELETED event takes the key out of it.       *)
(***************************************************************************)
EXTENDS PollLoop

VARIABLES
    kept,       \* the subscriber's copy: the revision it holds under each key
    announced   \* it has received IN_SYNC

pollerVars == <<pollVars, kept, announced>>

\* The subscriber receives the event emit is parked on and applies it.
Receive ==
    /\ Taken
    /\ kept' = Apply(pending, kept)
    /\ announced' = (announced \/ pending = InSync)

PollerInit ==
    /\ PollInit
    /\ kept = [k \in Key |-> NoRev]
    /\ announced = FALSE

PollerNext ==
    \/ (BackendStep \/ CtxEnds \/ LoopStep) /\ UNCHANGED <<kept, announced>>
    \/ Receive

PollerSafety == PollerInit /\ [][PollerNext]_pollerVars

(***************************************************************************)
(* Go runs the goroutine whenever it can go on, the ticker fires, a List   *)
(* call returns, and the subscriber keeps receiving while ctx lasts: once  *)
(* it has ended the gRPC handler may be gone.  A backend that is polled    *)
(* for ever answers successfully again and again; nothing is assumed of    *)
(* when the backend changes or ctx ends.                                   *)
(***************************************************************************)
PollerFairness ==
    /\ WF_pollerVars(LoopStep /\ UNCHANGED <<kept, announced>>)
    /\ WF_pollerVars(~ctxDone /\ Receive)
    /\ SF_pollerVars(PollSucceeds /\ UNCHANGED <<kept, announced>>)

PollerSpec == PollerSafety /\ PollerFairness

-----------------------------------------------------------------------------
PollerTypeOK ==
    /\ PollTypeOK
    /\ kept \in [Key -> Revision \cup {NoRev}]
    /\ announced \in BOOLEAN

\* The subscriber's copy and Poll's seen map never drift apart: they differ by
\* the one event that is on its way, and by nothing that an error, a failed
\* poll or an event given up could have left behind.
Replica == pc # "closed" => seen = IF pending = NoEvent THEN kept ELSE Apply(pending, kept)

\* Whenever Poll is at rest, and when it announces IN_SYNC, what the subscriber
\* holds under every key is a value the key had since the last successful List
\* began: no add, update or delete that was over by then has been missed.
CaughtUp ==
    pc = "wait" => \A i \in Item : kept[KeyOf(i)] \in window[i]

\* IN_SYNC comes once, after the whole snapshot and before any other change.
InSyncOnce ==
    /\ pending = InSync => ~announced
    /\ pc \in {"list", "diff", "gone"} => announced
    /\ pc \in {"idle", "snapshot", "replay"} => ~announced

\* An event's type fits what the subscriber holds when it receives it.
Discipline ==
    [][ Receive /\ pending # InSync =>
          Suits(pending, kept[KeyOf(pending.meta.item)]) ]_pollerVars

\* When the backend stays as it is, the copy of a subscriber that stays
\* becomes, and remains, what the backend holds.
Listing == {Value(i) : i \in Item} \ {NoRev}
CopyConverges ==
    <>[](\/ ctxDone
         \/ pc = "rejected"
         \/ {kept[k] : k \in Key} \ {NoRev} = Listing)

\* Once the backend has stopped changing, the stream falls silent: a secret that
\* stays as it is is not reported again at every poll.
Silent == <>[](pending = NoEvent)

\* Poll implements the contract: the window begins when the last successful
\* List began.
Contract ==
    INSTANCE WatchContract WITH
        Secret <- Item,
        None   <- NoRev,
        value  <- [i \in Item |-> Value(i)],
        view   <- [i \in Item |-> kept[KeyOf(i)]],
        synced <- announced,
        open   <- pc \notin {"rejected", "closed"}

KeepsContract == Contract!Spec
=============================================================================
