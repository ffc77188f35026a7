----------------------------- MODULE WatchContract -----------------------------
(***************************************************************************)
(* What WatchSecrets promises a subscriber, with no word of polling: a     *)
(* copy of the namespace that may lag but never lies.                      *)
(*                                                                         *)
(* For every secret there is a window of the values (a revision, or None   *)
(* for "no such secret") it has had since some moment in the past.  The    *)
(* subscriber is only ever told values of the window.  The window moves    *)
(* forward, forgetting older values, only when the copy of a subscriber    *)
(* that is in sync lies within it everywhere: the subscriber is never more *)
(* than one window behind.  IN_SYNC is announced once, when it is in sync. *)
(***************************************************************************)

CONSTANTS Secret, None

VARIABLES
    value,      \* what the backend holds
    window,     \* the values each secret has had since the window began
    view,       \* the subscriber's copy
    synced,     \* IN_SYNC has been received
    open        \* the stream has not ended

vars == <<value, window, view, synced, open>>

Within == \A s \in Secret : view[s] \in window[s]

Init ==
    /\ window = [s \in Secret |-> {value[s]}]
    /\ view = [s \in Secret |-> None]
    /\ synced = FALSE
    /\ open = TRUE

\* Somebody changes a secret in the backend.
Change(s) ==
    /\ \A t \in Secret \ {s} : value'[t] = value[t]
    /\ window' = [window EXCEPT ![s] = @ \cup {value'[s]}]
    /\ UNCHANGED <<view, synced, open>>

\* The window moves forward.
Advance ==
    /\ open
    /\ synced => Within
    /\ \A s \in Secret : value[s] \in window'[s] /\ window'[s] \subseteq window[s]
    /\ UNCHANGED <<value, view, synced, open>>

\* An ADDED, UPDATED or DELETED event reaches the subscriber.
Notify(s) ==
    /\ open
    /\ view'[s] \in window[s]
    /\ view' = [view EXCEPT ![s] = view'[s]]
    /\ UNCHANGED <<value, window, synced, open>>

\* The IN_SYNC event reaches the subscriber.
Sync ==
    /\ open
    /\ ~synced
    /\ Within
    /\ synced' = TRUE
    /\ UNCHANGED <<value, window, view, open>>

\* The stream ends, before it began or later.
Close ==
    /\ open
    /\ open' = FALSE
    /\ UNCHANGED <<value, window, view, synced>>

Next ==
    \/ \E s \in Secret : Change(s) \/ Notify(s)
    \/ Advance
    \/ Sync
    \/ Close

Spec == Init /\ [][Next]_vars
=============================================================================
