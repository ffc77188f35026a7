------------------------------- MODULE PollLoop -------------------------------
(***************************************************************************)
(* watch.Poll (internal/adapters/driven/watch/poll.go): the goroutine that *)
(* turns a backend's List into a stream of events by polling, up to the    *)
(* unbuffered channel on which it offers them.  Who receives from the      *)
(* channel is left to the modules that extend this one: Poller puts a      *)
(* subscriber there, WatchStream the filter and the gRPC handler.          *)
(*                                                                         *)
(* The backend is external.  It holds items; an item is one backend object *)
(* at or beneath the watched namespace, KeyOf gives the vaultlet key it    *)
(* decodes to and VersionOf the Version the adapter reads off a revision.  *)
(* It changes at any moment, whoever changes it: this server's own Put and *)
(* Delete, another replica, or a person at the console.                    *)
(***************************************************************************)
EXTENDS Naturals

CONSTANTS
    Item,           \* backend objects at or beneath the watched namespace
    Key,            \* keys, named by their rank in the order of strings.Compare
    KeyOf(_),       \* the key an item's name decodes to
    VersionOf(_),   \* the domain.Version an adapter derives from a revision
    MaxWrites,      \* bound: changes the backend undergoes
    NoRev,          \* stands for "no secret"
    NoEvent         \* stands for "nothing is offered on the channel"

(***************************************************************************)
(* A revision of an item: the rev-th write to it, which the backend        *)
(* numbered num.  The two differ because a backend may number the versions *)
(* of a recreated object from 1 again.  An item may have one revision      *)
(* before the first of the MaxWrites changes.                              *)
(***************************************************************************)
Count    == 0..(MaxWrites + 1)
Revision == [item : Item, rev : Count, num : Count]

EventType == {"added", "updated", "deleted"}
InSync    == [type |-> "inSync"]
Event     == [type : EventType, meta : Revision] \cup {InSync}

ASSUME KeyAssumption == Key \subseteq Nat /\ \A i \in Item : KeyOf(i) \in Key
ASSUME NoneAssumption == NoRev \notin Revision /\ NoEvent \notin Event
ASSUME BoundAssumption == MaxWrites \in Nat

VARIABLES
    backend,    \* [live, rev, num] of every item
    writes,     \* changes made so far, for the bound
    ctxDone,    \* the subscription's ctx has ended
    pc,         \* where Poll is
    unread,     \* items the List call in progress has not looked at yet
    metas,      \* what List returned (or read so far) and the loop has not ranged over
    present,    \* Poll's present set
    gone,       \* Poll's gone slice, as the set of what is left of it
    seen,       \* Poll's seen map; NoRev where it has no entry
    pending,    \* the event parked on the channel send in emit
    window,     \* history: values each item had since the last good List began
    recent      \* history: values each item had since the last List began

backendVars == <<backend, writes>>
loopVars    == <<pc, unread, metas, present, gone, seen, pending>>
history     == <<window, recent>>
pollVars    == <<backendVars, ctxDone, loopVars, history>>

-----------------------------------------------------------------------------
(* The backend. *)

\* What a List call that looks at item i now finds there.
Value(i) ==
    IF backend[i].live
    THEN [item |-> i, rev |-> backend[i].rev, num |-> backend[i].num]
    ELSE NoRev

Change(i, entry) ==
    /\ writes < MaxWrites
    /\ writes' = writes + 1
    /\ backend' = [backend EXCEPT ![i] = entry]
    /\ window' = [window EXCEPT ![i] = @ \cup {Value(i)'}]
    /\ recent' = [recent EXCEPT ![i] = @ \cup {Value(i)'}]
    /\ UNCHANGED <<ctxDone, loopVars>>

\* A write to an item, live or gone: the next version of the same object.
Write(i) ==
    Change(i, [live |-> TRUE, rev |-> backend[i].rev + 1, num |-> backend[i].num + 1])

\* A write that recreates an object that had been deleted: versions restart.
Recreate(i) ==
    /\ ~backend[i].live
    /\ backend[i].rev > 0
    /\ Change(i, [live |-> TRUE, rev |-> backend[i].rev + 1, num |-> 1])

\* The object is deleted, or its newest version disabled.
Remove(i) ==
    /\ backend[i].live
    /\ Change(i, [backend[i] EXCEPT !.live = FALSE])

\* A soft-deleted object is recovered, or a disabled version enabled: the same
\* revision is there again.
Restore(i) ==
    /\ ~backend[i].live
    /\ backend[i].rev > 0
    /\ Change(i, [backend[i] EXCEPT !.live = TRUE])

BackendStep == \E i \in Item : Write(i) \/ Recreate(i) \/ Remove(i) \/ Restore(i)

\* The subscriber hangs up, its deadline passes, or the server stops.
CtxEnds ==
    /\ ~ctxDone
    /\ ctxDone' = TRUE
    /\ UNCHANGED <<backendVars, loopVars, history>>

-----------------------------------------------------------------------------
(* Poll. *)

\* Calling list: it looks at the items one after another while the backend
\* goes on changing.
BeginList(where) ==
    /\ pc' = where
    /\ unread' = Item
    /\ metas' = {}
    /\ recent' = [i \in Item |-> {Value(i)}]
    /\ UNCHANGED <<backendVars, ctxDone, present, gone, seen, pending, window>>

\* Mutant: a secret that is gone is listed all the same.
ListReadsGhosts(i) ==
    /\ pc \in {"snapshot", "list"}
    /\ i \in unread
    /\ unread' = unread \ {i}
    /\ metas' = metas \cup {Value(i)}
    /\ UNCHANGED <<backendVars, ctxDone, pc, present, gone, seen, pending, history>>

\* An adapter's List looks at one item: a page of names, a latest version.
ListReads(i) ==
    /\ pc \in {"snapshot", "list"}
    /\ i \in unread
    /\ unread' = unread \ {i}
    /\ metas' = metas \cup ({Value(i)} \ {NoRev})
    /\ UNCHANGED <<backendVars, ctxDone, pc, present, gone, seen, pending, history>>

\* list returns an error.  What it had read by then is dropped, so it may as
\* well fail after the last read as before it.
ListReturns(from, to) ==
    /\ pc = from
    /\ unread = {}
    /\ pc' = to
    /\ UNCHANGED <<backendVars, ctxDone, unread, present, gone, seen, pending, recent>>

ListFails(from, to) ==
    /\ ListReturns(from, to)
    /\ metas' = {}
    /\ UNCHANGED window

ListSucceeds(from, to) ==
    /\ ListReturns(from, to)
    /\ window' = recent
    /\ UNCHANGED metas

\* Poll is called: ctx is checked first, then the snapshot is taken.
SubscribeTooLate ==
    /\ pc = "idle"
    /\ ctxDone
    /\ pc' = "rejected"
    /\ UNCHANGED <<backendVars, ctxDone, unread, metas, present, gone, seen, pending, history>>

Subscribe ==
    /\ pc = "idle"
    /\ ~ctxDone
    /\ BeginList("snapshot")

\* The error goes to Watch's caller; no goroutine was started.
SnapshotFails == ListFails("snapshot", "rejected")

SnapshotTaken == ListSucceeds("snapshot", "replay")

\* Mutant: emit is a plain send, without the select on ctx.
EmitNeverGivesUp == FALSE

\* emit parks the goroutine on the send; it goes on when the event has been
\* taken, or gives up when ctx ends.
Offer(event) ==
    /\ pending = NoEvent
    /\ pending' = event

EmitGivesUp ==
    /\ pending # NoEvent
    /\ ctxDone
    /\ pending' = NoEvent
    /\ pc' = "closed"
    /\ UNCHANGED <<backendVars, ctxDone, unread, metas, present, gone, seen, history>>

\* One iteration of the loop that replays the snapshot.
ReplayNext(r) ==
    /\ pc = "replay"
    /\ r \in metas
    /\ Offer([type |-> "added", meta |-> r])
    /\ metas' = metas \ {r}
    /\ seen' = [seen EXCEPT ![KeyOf(r.item)] = r]
    /\ UNCHANGED <<backendVars, ctxDone, pc, unread, present, gone, history>>

\* Mutant: IN_SYNC is announced before the snapshot has been replayed.
ReplayDoneEarly ==
    /\ pc = "replay"
    /\ Offer(InSync)
    /\ pc' = "wait"
    /\ UNCHANGED <<backendVars, ctxDone, unread, metas, present, gone, seen, history>>

ReplayDone ==
    /\ pc = "replay"
    /\ metas = {}
    /\ Offer(InSync)
    /\ pc' = "wait"
    /\ UNCHANGED <<backendVars, ctxDone, unread, metas, present, gone, seen, history>>

\* The receive that completes the send emit is parked on, whoever makes it.
Taken ==
    /\ pending # NoEvent
    /\ pending' = NoEvent
    /\ UNCHANGED <<backendVars, ctxDone, pc, unread, metas, present, gone, seen, history>>

\* The select of the ticker and ctx.  Both may be ready and either may win, but
\* a List on an ended ctx fails at once in every adapter and the loop returns,
\* as it does when ctx wins.
Tick ==
    /\ pc = "wait"
    /\ pending = NoEvent
    /\ ~ctxDone
    /\ BeginList("list")

Stop ==
    /\ pc = "wait"
    /\ pending = NoEvent
    /\ ctxDone
    /\ pc' = "closed"
    /\ UNCHANGED <<backendVars, ctxDone, unread, metas, present, gone, seen, pending, history>>

\* Mutant: a failed poll is diffed as if it had listed nothing.
PollFailsEmpty ==
    /\ ListReturns("list", "diff")
    /\ metas' = {}
    /\ window' = recent

\* A failed poll is logged and skipped, unless it failed because ctx ended.
PollFails == ListFails("list", IF ctxDone THEN "closed" ELSE "wait")

\* Mutant: a later List is replayed like the first one.
PollSucceedsReplays == ListSucceeds("list", "replay")

PollSucceeds == ListSucceeds("list", "diff")

\* Mutant: a key that has been seen counts as unchanged whatever its version.
UnchangedByKey(r) == seen[KeyOf(r.item)] # NoRev

\* Mutant: the comparison never finds two versions equal.
NeverUnchanged(r) == FALSE

Unchanged(r) ==
    LET prev == seen[KeyOf(r.item)]
    IN  prev # NoRev /\ VersionOf(prev) = VersionOf(r)

\* Mutant: present is only filled in for secrets that changed.
DiffSameNotPresent(r) ==
    /\ pc = "diff"
    /\ pending = NoEvent
    /\ r \in metas
    /\ Unchanged(r)
    /\ metas' = metas \ {r}
    /\ UNCHANGED <<backendVars, ctxDone, pc, unread, present, gone, seen, pending, history>>

\* One iteration of the loop over metas: a secret whose version is known ...
DiffSame(r) ==
    /\ pc = "diff"
    /\ pending = NoEvent
    /\ r \in metas
    /\ Unchanged(r)
    /\ metas' = metas \ {r}
    /\ present' = present \cup {KeyOf(r.item)}
    /\ UNCHANGED <<backendVars, ctxDone, pc, unread, gone, seen, pending, history>>

\* Mutant: the exists check is missing, every change is ADDED.
DiffChangedAlwaysAdds(r) ==
    /\ pc = "diff"
    /\ r \in metas
    /\ ~Unchanged(r)
    /\ Offer([type |-> "added", meta |-> r])
    /\ metas' = metas \ {r}
    /\ present' = present \cup {KeyOf(r.item)}
    /\ seen' = [seen EXCEPT ![KeyOf(r.item)] = r]
    /\ UNCHANGED <<backendVars, ctxDone, pc, unread, gone, history>>

\* ... and one that is new or has a new version.
DiffChanged(r) ==
    /\ pc = "diff"
    /\ r \in metas
    /\ ~Unchanged(r)
    /\ Offer([type |-> IF seen[KeyOf(r.item)] = NoRev THEN "added" ELSE "updated",
              meta |-> r])
    /\ metas' = metas \ {r}
    /\ present' = present \cup {KeyOf(r.item)}
    /\ seen' = [seen EXCEPT ![KeyOf(r.item)] = r]
    /\ UNCHANGED <<backendVars, ctxDone, pc, unread, gone, history>>

\* Mutant: deletions are not looked for.
DiffDoneNoGone ==
    /\ pc = "diff"
    /\ pending = NoEvent
    /\ metas = {}
    /\ pc' = "gone"
    /\ gone' = {}
    /\ present' = {}
    /\ UNCHANGED <<backendVars, ctxDone, unread, metas, seen, pending, history>>

\* The keys seen before and not present now are collected.
DiffDone ==
    /\ pc = "diff"
    /\ pending = NoEvent
    /\ metas = {}
    /\ pc' = "gone"
    /\ gone' = {k \in Key : seen[k] # NoRev} \ present
    /\ present' = {}
    /\ UNCHANGED <<backendVars, ctxDone, unread, metas, seen, pending, history>>

\* Mutant: the key stays in seen after it was reported deleted.
GoneNextKeepsSeen(k) ==
    /\ pc = "gone"
    /\ k \in gone
    /\ \A other \in gone : k <= other
    /\ Offer([type |-> "deleted", meta |-> seen[k]])
    /\ gone' = gone \ {k}
    /\ UNCHANGED <<backendVars, ctxDone, pc, unread, metas, present, seen, history>>

\* One iteration of the loop over gone, which is sorted.
GoneNext(k) ==
    /\ pc = "gone"
    /\ k \in gone
    /\ \A other \in gone : k <= other
    /\ Offer([type |-> "deleted", meta |-> seen[k]])
    /\ gone' = gone \ {k}
    /\ seen' = [seen EXCEPT ![k] = NoRev]
    /\ UNCHANGED <<backendVars, ctxDone, pc, unread, metas, present, history>>

GoneDone ==
    /\ pc = "gone"
    /\ pending = NoEvent
    /\ gone = {}
    /\ pc' = "wait"
    /\ UNCHANGED <<backendVars, ctxDone, unread, metas, present, gone, seen, pending, history>>

-----------------------------------------------------------------------------
PollInit ==
    /\ backend \in [Item -> {[live |-> FALSE, rev |-> 0, num |-> 0],
                             [live |-> TRUE,  rev |-> 1, num |-> 1]}]
    /\ writes = 0
    /\ ctxDone = FALSE
    /\ pc = "idle"
    /\ unread = {}
    /\ metas = {}
    /\ present = {}
    /\ gone = {}
    /\ seen = [k \in Key |-> NoRev]
    /\ pending = NoEvent
    /\ window = [i \in Item |-> {Value(i)}]
    /\ recent = [i \in Item |-> {Value(i)}]

\* Steps Poll takes by itself, without the receiver's help.
LoopStep ==
    \/ SubscribeTooLate \/ Subscribe \/ SnapshotFails \/ SnapshotTaken
    \/ \E i \in Item : ListReads(i)
    \/ \E r \in metas : ReplayNext(r) \/ DiffSame(r) \/ DiffChanged(r)
    \/ ReplayDone \/ Tick \/ Stop \/ PollFails \/ PollSucceeds
    \/ DiffDone \/ GoneDone \/ EmitGivesUp
    \/ \E k \in gone : GoneNext(k)

-----------------------------------------------------------------------------
(* What the events mean to whoever receives them: the contract of WatchSecrets *)
(* lets a client keep a copy, in which ADDED and UPDATED put a revision and    *)
(* from which DELETED takes the key out.                                       *)

\* What an event leaves under its key.
Told(e) == IF e.type = "deleted" THEN NoRev ELSE e.meta

Apply(e, copy) ==
    IF e = InSync THEN copy ELSE [copy EXCEPT ![KeyOf(e.meta.item)] = Told(e)]

\* An event's type fits what is held under its key: ADDED only where nothing is
\* held, UPDATED only where something is and never with the revision held or an
\* older one, DELETED with the revision held.
Suits(e, held) ==
    CASE e.type = "added"   -> held = NoRev
      [] e.type = "updated" -> held \notin {NoRev, e.meta} /\ held.rev <= e.meta.rev
      [] e.type = "deleted" -> held = e.meta

-----------------------------------------------------------------------------
PollTypeOK ==
    /\ backend \in [Item -> [live : BOOLEAN, rev : Count, num : Count]]
    /\ writes \in 0..MaxWrites
    /\ ctxDone \in BOOLEAN
    /\ pc \in {"idle", "rejected", "snapshot", "replay", "wait", "list",
               "diff", "gone", "closed"}
    /\ unread \subseteq Item
    /\ metas \subseteq Revision
    /\ present \subseteq Key
    /\ gone \subseteq Key
    /\ seen \in [Key -> Revision \cup {NoRev}]
    /\ pending \in Event \cup {NoEvent}
    /\ window \in [Item -> SUBSET (Revision \cup {NoRev})]
    /\ recent \in [Item -> SUBSET (Revision \cup {NoRev})]

\* What an offered event says was true at some moment of the List call it comes
\* from: the revision was the item's newest, or the item was absent.  So a
\* DELETED event is never made of a poll that failed, and an event never takes
\* the subscriber back to a time before that call.
Honest ==
    pending \notin {NoEvent, InSync} => Told(pending) \in window[pending.meta.item]
=============================================================================
