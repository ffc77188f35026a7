---------------------------- MODULE Poller_proofs -----------------------------
(***************************************************************************)
(* Proofs about PollLoop and Poller, for any number of secrets, any number *)
(* of changes and any order of steps.  Of the loop, whoever receives its   *)
(* events: PollInv (PollLoopInvariant) is inductive, and what it puts on   *)
(* offer fits what it has offered before; WatchStream_proofs uses these    *)
(* lemmas too, and for that the names of Poller are its own.  Of Poller:   *)
(* IInv (PollerInvariant) is inductive, the safety properties follow from  *)
(* it, and Poll implements WatchContract.                                  *)
(***************************************************************************)
EXTENDS PollerInvariant, TLAPS

-----------------------------------------------------------------------------
(* The loop. *)

\* What an item holds is a revision of it or nothing.
LEMMA ValueType ==
    ASSUME NEW i \in Item, backend \in [Item -> [live : BOOLEAN, rev : Count, num : Count]]
    PROVE  /\ Value(i) \in Revision \cup {NoRev}
           /\ backend[i].live => Value(i) \in Revision /\ Value(i).item = i
                                 /\ Value(i).rev = backend[i].rev
           /\ ~backend[i].live => Value(i) = NoRev
BY DEF Value, Revision

\* What a change puts in the backend.
Entry == [live : BOOLEAN, rev : Count, num : Count]

\* Every change to the backend replaces one item's entry by another, of a
\* revision that is not older.
LEMMA ChangeShape ==
    ASSUME PollTypeOK, Counted, BackendStep
    PROVE  \E i \in Item, entry \in Entry :
               /\ Change(i, entry)
               /\ entry.num <= entry.rev
               /\ backend[i].rev <= entry.rev
               /\ entry.rev <= writes + 2
<1>1. PICK i \in Item : Write(i) \/ Recreate(i) \/ Remove(i) \/ Restore(i)
  BY DEF BackendStep
<1>2. /\ backend[i] \in Entry
      /\ backend[i].rev <= writes + 1
      /\ backend[i].num <= backend[i].rev
      /\ writes \in Nat
  BY BoundAssumption DEF PollTypeOK, Counted, Entry
<1>3. CASE Write(i)
  <2> DEFINE entry == [live |-> TRUE, rev |-> backend[i].rev + 1, num |-> backend[i].num + 1]
  <2>1. Change(i, entry) /\ writes < MaxWrites
    BY <1>3 DEF Write, Change
  <2>2. entry \in Entry
    BY <1>2, <2>1, BoundAssumption DEF Entry, Count
  <2>3. entry.num <= entry.rev /\ backend[i].rev <= entry.rev /\ entry.rev <= writes + 2
    BY <1>2, BoundAssumption DEF Entry, Count
  <2> QED BY <2>1, <2>2, <2>3
<1>4. CASE Recreate(i)
  <2> DEFINE entry == [live |-> TRUE, rev |-> backend[i].rev + 1, num |-> 1]
  <2>1. Change(i, entry) /\ writes < MaxWrites
    BY <1>4 DEF Recreate, Change
  <2>2. entry \in Entry
    BY <1>2, <2>1, BoundAssumption DEF Entry, Count
  <2>3. entry.num <= entry.rev /\ backend[i].rev <= entry.rev /\ entry.rev <= writes + 2
    BY <1>2, <1>4, BoundAssumption DEF Entry, Count, Recreate
  <2> QED BY <2>1, <2>2, <2>3
<1>5. CASE Remove(i)
  <2> DEFINE entry == [backend[i] EXCEPT !.live = FALSE]
  <2>1. Change(i, entry)
    BY <1>5 DEF Remove
  <2>2. entry \in Entry /\ entry.rev = backend[i].rev /\ entry.num = backend[i].num
    BY <1>2 DEF Entry
  <2> QED BY <1>2, <2>1, <2>2, BoundAssumption DEF Entry, Count
<1>6. CASE Restore(i)
  <2> DEFINE entry == [backend[i] EXCEPT !.live = TRUE]
  <2>1. Change(i, entry)
    BY <1>6 DEF Restore
  <2>2. entry \in Entry /\ entry.rev = backend[i].rev /\ entry.num = backend[i].num
    BY <1>2 DEF Entry
  <2> QED BY <1>2, <2>1, <2>2, BoundAssumption DEF Entry, Count
<1> QED BY <1>1, <1>3, <1>4, <1>5, <1>6

\* A change keeps every variable in its type and every count within the bound.
LEMMA ChangeTyping ==
    ASSUME PollTypeOK, Counted, BackendStep
    PROVE  PollTypeOK' /\ Counted'
<1>1. PICK i \in Item, entry \in Entry :
          /\ Change(i, entry)
          /\ entry.num <= entry.rev
          /\ backend[i].rev <= entry.rev
          /\ entry.rev <= writes + 2
  BY ChangeShape
<1>2. backend' \in [Item -> Entry]
  BY <1>1 DEF Change, PollTypeOK, Entry
<1>3. Value(i)' \in Revision \cup {NoRev}
  BY <1>2 DEF Value, Revision, Entry
<1>4. window' \in [Item -> SUBSET (Revision \cup {NoRev})]
      /\ recent' \in [Item -> SUBSET (Revision \cup {NoRev})]
  BY <1>1, <1>3 DEF Change, PollTypeOK
<1>5. writes' \in 0..MaxWrites /\ writes' = writes + 1 /\ writes \in Nat
  BY <1>1, BoundAssumption DEF Change, PollTypeOK
<1>6. PollTypeOK'
  BY <1>1, <1>2, <1>4, <1>5 DEF Change, loopVars, PollTypeOK, Entry
<1>7. ASSUME NEW j \in Item
      PROVE  backend'[j].rev <= writes' + 1 /\ backend'[j].num <= backend'[j].rev
  <2>1. CASE j = i
    BY <1>1, <1>5, <2>1 DEF Change, PollTypeOK, Entry, Count
  <2>2. CASE j # i
    <3>1. backend'[j] = backend[j] /\ backend[j] \in Entry
      BY <1>1, <2>2 DEF Change, PollTypeOK, Entry
    <3> QED BY <1>5, <3>1, BoundAssumption DEF Counted, Entry, Count
  <2> QED BY <2>1, <2>2
<1> QED BY <1>6, <1>7 DEF Counted

\* Neither Poll nor the subscriber touches the backend, so Counted survives.
LEMMA CountedStep ==
    ASSUME Counted, UNCHANGED backendVars
    PROVE  Counted'
BY DEF Counted, backendVars

\* Every step of Poll keeps every variable in its type.
LEMMA LoopTyping ==
    ASSUME PollTypeOK, Progress, LoopStep
    PROVE  PollTypeOK' /\ UNCHANGED backendVars
<1> USE DEF PollTypeOK, backendVars
<1>1. \A i \in Item : Value(i) \in Revision \cup {NoRev}
  BY ValueType
<1>2. \A r \in Revision : r.item \in Item /\ KeyOf(r.item) \in Key
  BY KeyAssumption DEF Revision
<1>3. \A r \in Revision, t \in EventType : [type |-> t, meta |-> r] \in Event
  BY DEF Event
<1>4. CASE SubscribeTooLate
  BY <1>4 DEF SubscribeTooLate, history
<1>5. CASE Subscribe
  BY <1>1, <1>5 DEF Subscribe, BeginList
<1>6. CASE SnapshotFails
  BY <1>6 DEF SnapshotFails, ListFails, ListReturns
<1>7. CASE SnapshotTaken
  BY <1>7 DEF SnapshotTaken, ListSucceeds, ListReturns
<1>8. ASSUME NEW i \in Item, ListReads(i)
      PROVE  PollTypeOK' /\ UNCHANGED backendVars
  BY <1>1, <1>8 DEF ListReads, history
<1>9. ASSUME NEW r \in metas, ReplayNext(r)
      PROVE  PollTypeOK' /\ UNCHANGED backendVars
  BY <1>2, <1>3, <1>9 DEF ReplayNext, Offer, EventType, history
<1>10. ASSUME NEW r \in metas, DiffSame(r)
       PROVE  PollTypeOK' /\ UNCHANGED backendVars
  BY <1>2, <1>10 DEF DiffSame, history
<1>11. ASSUME NEW r \in metas, DiffChanged(r)
       PROVE  PollTypeOK' /\ UNCHANGED backendVars
  BY <1>2, <1>3, <1>11 DEF DiffChanged, Offer, EventType, history
<1>12. CASE ReplayDone
  BY <1>12 DEF ReplayDone, Offer, Event, history
<1>13. CASE Tick
  BY <1>1, <1>13 DEF Tick, BeginList
<1>14. CASE Stop
  BY <1>14 DEF Stop, history
<1>15. CASE PollFails
  BY <1>15 DEF PollFails, ListFails, ListReturns
<1>16. CASE PollSucceeds
  BY <1>16 DEF PollSucceeds, ListSucceeds, ListReturns
<1>17. CASE DiffDone
  BY <1>17 DEF DiffDone, history
<1>18. CASE GoneDone
  BY <1>18 DEF GoneDone, history
<1>19. CASE EmitGivesUp
  BY <1>19 DEF EmitGivesUp, history
<1>20. ASSUME NEW k \in gone, GoneNext(k)
       PROVE  PollTypeOK' /\ UNCHANGED backendVars
  <2>1. seen[k] \in Revision
    BY <1>20 DEF Progress, GoneNext
  <2> QED BY <1>3, <1>20, <2>1 DEF GoneNext, Offer, EventType, history
<1> QED
  BY <1>4, <1>5, <1>6, <1>7, <1>8, <1>9, <1>10, <1>11, <1>12, <1>13, <1>14, <1>15,
     <1>16, <1>17, <1>18, <1>19, <1>20 DEF LoopStep

-----------------------------------------------------------------------------
(* PollInv, action by action. *)

\* The part of PollInv that is not about types.
Core == Offers /\ Windows /\ Metas /\ Filed /\ Progress /\ Behind /\ Honest

LEMMA StopKeeps ==
    ASSUME PollInv, Stop \/ SubscribeTooLate \/ EmitGivesUp
    PROVE  Core'
<1> USE DEF Stop, SubscribeTooLate, EmitGivesUp, PollInv, backendVars, history
<1>1. Offers'
  BY NoneAssumption DEF Offers, PollTypeOK, Event
<1>2. Windows'
  BY DEF Windows, Value
<1>3. Metas'
  BY DEF Metas
<1>4. Filed'
  BY DEF Filed
<1>5. Progress'
  BY DEF Progress, Offers
<1>6. Behind'
  BY DEF Behind
<1>7. Honest'
  BY DEF Honest
<1> QED BY <1>1, <1>2, <1>3, <1>4, <1>5, <1>6, <1>7 DEF Core

LEMMA ChangeKeeps ==
    ASSUME PollInv, BackendStep
    PROVE  Core'
<1> USE DEF loopVars
<1>1. PICK i \in Item, entry \in Entry :
          /\ Change(i, entry)
          /\ backend[i].rev <= entry.rev
  BY ChangeShape DEF PollInv
<1>2. /\ backend' = [backend EXCEPT ![i] = entry]
      /\ window' = [window EXCEPT ![i] = @ \cup {Value(i)'}]
      /\ recent' = [recent EXCEPT ![i] = @ \cup {Value(i)'}]
      /\ UNCHANGED <<loopVars, ctxDone>>
  BY <1>1 DEF Change
<1>3. \A j \in Item : window[j] \subseteq window'[j] /\ recent[j] \subseteq recent'[j]
  BY <1>2 DEF PollInv, PollTypeOK
<1>4. Value(i)' # NoRev => Value(i)'.item = i /\ Value(i)'.rev = entry.rev
  BY <1>2 DEF PollInv, PollTypeOK, Value
<1>5. \A j \in Item : backend[j].rev \in Nat /\ backend'[j].rev \in Nat
                        /\ backend[j].rev <= backend'[j].rev
  BY <1>1, <1>2, BoundAssumption DEF PollInv, PollTypeOK, Entry, Count
<1>6. \A r \in Revision : r.item \in Item /\ r.rev \in Nat
  BY BoundAssumption DEF Revision, Count
<1>7. Offers' /\ Filed'
  <2>1. Offers'
    BY <1>2 DEF PollInv, Offers
  <2>2. Filed'
    BY <1>2 DEF PollInv, Filed
  <2> QED BY <2>1, <2>2
<1>8. Windows'
  <2> SUFFICES ASSUME NEW j \in Item
               PROVE  /\ Value(j)' \in recent'[j]
                      /\ recent'[j] \subseteq window'[j]
                      /\ \A v \in window'[j] : v # NoRev => v.item = j /\ v.rev <= backend'[j].rev
    BY DEF Windows
  <2>1. CASE j = i
    <3>1. /\ window'[j] = window[j] \cup {Value(j)'}
          /\ recent'[j] = recent[j] \cup {Value(j)'}
          /\ backend'[j] = entry
      BY <1>2, <2>1 DEF PollInv, PollTypeOK
    <3>2. \A v \in window[j] : v # NoRev => v.item = j /\ v.rev <= entry.rev
      BY <1>1, <1>5, <1>6, <2>1, <3>1 DEF PollInv, Windows, PollTypeOK
    <3> QED BY <1>4, <1>5, <2>1, <3>1, <3>2 DEF PollInv, Windows
  <2>2. CASE j # i
    <3>1. /\ window'[j] = window[j]
          /\ recent'[j] = recent[j]
          /\ backend'[j] = backend[j]
          /\ Value(j)' = Value(j)
      BY <1>2, <2>2 DEF PollInv, PollTypeOK, Value
    <3> QED BY <3>1 DEF PollInv, Windows
  <2> QED BY <2>1, <2>2
<1>9. Metas'
  BY <1>2, <1>3, <1>6 DEF PollInv, Metas, PollTypeOK
<1>10. Progress'
  BY <1>2, <1>3 DEF PollInv, Progress, PollTypeOK
<1>11. Behind'
  <2> SUFFICES ASSUME NEW j \in Item, seen[KeyOf(j)] # NoRev
               PROVE  /\ seen[KeyOf(j)].rev <= backend'[j].rev
                      /\ pc = "list" \/ (pc = "diff" /\ \E r \in metas : r.item = j) =>
                            \A v \in recent'[j] \ {NoRev} : seen[KeyOf(j)].rev <= v.rev
    BY <1>2 DEF Behind
  <2>1. seen[KeyOf(j)].rev \in Nat /\ seen[KeyOf(j)].rev <= backend[j].rev
    BY <1>6, KeyAssumption DEF PollInv, Behind, PollTypeOK
  <2>2. seen[KeyOf(j)].rev <= backend'[j].rev
    BY <1>5, <2>1
  <2>3. \A v \in recent'[j] \ {NoRev} : v \in recent[j] \/ v.rev = backend'[j].rev
    BY <1>2, <1>4 DEF PollInv, PollTypeOK
  <2> QED BY <2>2, <2>3 DEF PollInv, Behind
<1>12. Honest'
  BY <1>2, <1>3, <1>6 DEF PollInv, Honest, PollTypeOK, Event
<1> QED BY <1>7, <1>8, <1>9, <1>10, <1>11, <1>12 DEF Core

LEMMA BeginListKeeps ==
    ASSUME PollInv, Subscribe \/ Tick
    PROVE  Core'
<1> USE DEF PollInv, Subscribe, Tick, BeginList, backendVars
<1>1. /\ pc' \in {"snapshot", "list"}
      /\ metas' = {} /\ unread' = Item
      /\ recent' = [i \in Item |-> {Value(i)}]
      /\ UNCHANGED <<backend, present, gone, seen, pending, window>>
  OBVIOUS
<1>2. \A i \in Item : Value(i)' = Value(i)
  BY DEF Value
<1>3. Filed' /\ Honest'
  BY <1>1 DEF Filed, Honest, Offers
<1>4. Offers'
  BY NoneAssumption DEF Offers, Event
<1>5. Windows'
  BY <1>1, <1>2 DEF Windows
<1>6. Metas'
  BY <1>1 DEF Metas
<1>7. Progress'
  BY DEF Progress
<1>8. Behind'
  BY <1>1, NoneAssumption, BoundAssumption DEF Behind, Value, Revision
<1> QED BY <1>3, <1>4, <1>5, <1>6, <1>7, <1>8 DEF Core

LEMMA ListReadsKeeps ==
    ASSUME PollInv, NEW i \in Item, ListReads(i)
    PROVE  Core'
<1> USE DEF PollInv, ListReads, backendVars, history
<1>1. Value(i) # NoRev => Value(i).item = i
  BY DEF Value
<1>2. Filed' /\ Honest' /\ Offers'
  BY DEF Filed, Honest, Offers
<1>3. Windows' /\ Progress' /\ Behind'
  BY DEF Windows, Progress, Behind, Value
<1>4. Metas'
  BY <1>1 DEF Metas, Windows
<1> QED BY <1>2, <1>3, <1>4 DEF Core

LEMMA ListFailsKeeps ==
    ASSUME PollInv, SnapshotFails \/ PollFails
    PROVE  Core'
<1> USE DEF PollInv, SnapshotFails, PollFails, ListFails, ListReturns, backendVars
<1>1. Filed' /\ Honest'
  BY DEF Filed, Honest
<1>2. Offers'
  BY NoneAssumption DEF Offers, Event
<1>3. Windows' /\ Metas'
  BY DEF Windows, Metas, Value
<1>4. Progress' /\ Behind'
  BY DEF Progress, Behind
<1> QED BY <1>1, <1>2, <1>3, <1>4 DEF Core

LEMMA ListSucceedsKeeps ==
    ASSUME PollInv, SnapshotTaken \/ PollSucceeds
    PROVE  Core'
<1> USE DEF PollInv, SnapshotTaken, PollSucceeds, ListSucceeds, ListReturns, backendVars
<1>1. Filed' /\ Offers'
  BY NoneAssumption DEF Filed, Offers, Event
<1>2. Windows' /\ Metas'
  BY DEF Windows, Metas, Value
<1>3. Progress'
  <2>1. \A i \in Item : NoRev \in recent[i] \/ \E r \in metas : r.item = i
    BY DEF Metas
  <2>2. pc = "snapshot" => \A i \in Item : seen[KeyOf(i)] = NoRev
    BY KeyAssumption DEF Offers
  <2>3. \A r \in metas : r.item \in Item
    BY DEF PollTypeOK, Revision
  <2>4. window' = recent /\ recent' = recent /\ metas' = metas /\ seen' = seen
        /\ present' = present /\ present = {}
    BY DEF Progress
  <2>5. CASE SnapshotTaken
    BY <2>1, <2>2, <2>3, <2>4, <2>5 DEF Progress
  <2>6. CASE PollSucceeds
    BY <2>1, <2>3, <2>4, <2>6 DEF Progress
  <2> QED BY <2>5, <2>6
<1>4. Behind'
  BY DEF Behind, Offers
<1>5. Honest'
  BY DEF Honest, Offers
<1> QED BY <1>1, <1>2, <1>3, <1>4, <1>5 DEF Core

\* The facts about one revision that the steps which work through metas share.
LEMMA MetaFacts ==
    ASSUME PollInv, NEW r \in metas
    PROVE  /\ r \in Revision /\ r.item \in Item /\ KeyOf(r.item) \in Key /\ r # NoRev
           /\ r \in recent[r.item] /\ r \in window[r.item]
           /\ r.rev \in Nat /\ r.rev <= backend[r.item].rev
           /\ \A i \in Item : KeyOf(i) = KeyOf(r.item) => i = r.item
<1>1. r \in Revision /\ r.item \in Item /\ KeyOf(r.item) \in Key /\ r # NoRev /\ r.rev \in Nat
  BY KeyAssumption, NoneAssumption, BoundAssumption
     DEF PollInv, PollTypeOK, Revision, Count
<1>2. r \in recent[r.item] /\ r \in window[r.item] /\ r.rev <= backend[r.item].rev
  BY <1>1 DEF PollInv, Metas, Windows
<1> QED BY <1>1, <1>2, OneObjectPerKey

LEMMA ReplayNextKeeps ==
    ASSUME PollInv, NEW r \in metas, ReplayNext(r)
    PROVE  Core'
<1> DEFINE k == KeyOf(r.item)
<1>1. /\ r \in Revision /\ r.item \in Item /\ k \in Key /\ r # NoRev
      /\ r \in recent[r.item] /\ r \in window[r.item]
      /\ r.rev \in Nat /\ r.rev <= backend[r.item].rev
      /\ \A i \in Item : KeyOf(i) = k => i = r.item
  BY MetaFacts
<1>2. /\ pc = "replay" /\ pending = NoEvent
      /\ pending' = [type |-> "added", meta |-> r]
      /\ metas' = metas \ {r}
      /\ seen' = [seen EXCEPT ![k] = r]
      /\ UNCHANGED <<backend, ctxDone, pc, unread, present, gone, window, recent>>
  BY DEF ReplayNext, Offer, backendVars, history
<1>3. pending' \notin {NoEvent, InSync}
  BY <1>1, <1>2, NoneAssumption DEF Event, EventType, InSync
<1>4. seen \in [Key -> Revision \cup {NoRev}] /\ seen[k] = NoRev
  BY <1>2 DEF PollInv, PollTypeOK, Progress
<1> HIDE DEF k
<1>5. Offers'
  BY <1>2, <1>3 DEF PollInv, Offers
<1>6. Windows'
  BY <1>2 DEF PollInv, Windows, Value
<1>7. Metas'
  BY <1>2 DEF PollInv, Metas
<1>8. Filed'
  BY <1>1, <1>2, <1>4 DEF PollInv, Filed, k
<1>9. Progress'
  <2>1. \A q \in metas' : seen'[KeyOf(q.item)] = NoRev
    <3> SUFFICES ASSUME NEW q \in metas, q # r
                 PROVE  seen'[KeyOf(q.item)] = NoRev
      BY <1>2
    <3>1. q.item # r.item /\ q.item \in Item
      BY MetaFacts DEF PollInv, Metas
    <3>2. KeyOf(q.item) # k
      BY <1>1, <3>1
    <3> QED BY <1>2, <1>4, <3>2 DEF PollInv, Progress
  <2>2. \A i \in Item : seen'[KeyOf(i)] \in window'[i] \/ \E q \in metas' : q.item = i
    <3> SUFFICES ASSUME NEW i \in Item
                 PROVE  seen'[KeyOf(i)] \in window[i] \/ \E q \in metas \ {r} : q.item = i
      BY <1>2
    <3>1. CASE i = r.item
      BY <1>1, <1>2, <1>4, <3>1 DEF k
    <3>2. CASE i # r.item
      BY <1>1, <1>2, <1>4, <3>2 DEF PollInv, Progress
    <3> QED BY <3>1, <3>2
  <2> QED BY <1>2, <2>1, <2>2 DEF PollInv, Progress
<1>10. Behind'
  <2> SUFFICES ASSUME NEW i \in Item, seen'[KeyOf(i)] # NoRev
               PROVE  seen'[KeyOf(i)].rev <= backend[i].rev
    BY <1>2 DEF Behind
  <2>1. CASE i = r.item
    BY <1>1, <1>2, <1>4, <2>1 DEF k
  <2>2. CASE i # r.item
    BY <1>1, <1>2, <1>4, <2>2 DEF PollInv, Behind
  <2> QED BY <2>1, <2>2
<1>11. Honest'
  BY <1>1, <1>2 DEF Honest, Told
<1> QED
  BY <1>5, <1>6, <1>7, <1>8, <1>9, <1>10, <1>11 DEF Core

LEMMA ReplayDoneKeeps ==
    ASSUME PollInv, ReplayDone
    PROVE  Core'
<1>1. /\ pc = "replay" /\ metas = {} /\ pending = NoEvent
      /\ pc' = "wait" /\ pending' = InSync
      /\ UNCHANGED <<backend, ctxDone, unread, metas, present, gone, seen, window, recent>>
  BY DEF ReplayDone, Offer, backendVars, history
<1>2. InSync # NoEvent
  BY NoneAssumption DEF Event
<1>3. Offers'
  BY <1>1, <1>2 DEF PollInv, Offers
<1>4. Windows' /\ Metas' /\ Filed'
  BY <1>1 DEF PollInv, Windows, Metas, Filed, Value
<1>5. Progress' /\ Behind'
  BY <1>1 DEF PollInv, Progress, Behind
<1>6. Honest'
  BY <1>1 DEF Honest
<1> QED BY <1>3, <1>4, <1>5, <1>6 DEF Core

\* Where a version is known, the revision is.
LEMMA DiffSameKeeps ==
    ASSUME PollInv, NEW r \in metas, DiffSame(r)
    PROVE  Core'
<1> DEFINE k == KeyOf(r.item)
<1>1. /\ r \in Revision /\ r.item \in Item /\ k \in Key /\ r # NoRev
      /\ r \in recent[r.item] /\ r \in window[r.item]
      /\ \A i \in Item : KeyOf(i) = k => i = r.item
  BY MetaFacts
<1>2. /\ pc = "diff" /\ pending = NoEvent
      /\ metas' = metas \ {r}
      /\ present' = present \cup {k}
      /\ seen[k] # NoRev /\ VersionOf(seen[k]) = VersionOf(r)
      /\ UNCHANGED <<backend, ctxDone, pc, unread, gone, seen, pending, window, recent>>
  BY DEF DiffSame, Unchanged, backendVars, history
<1>3. seen[k] = r
  <2>1. seen[k] \in Revision /\ KeyOf(seen[k].item) = k /\ seen[k].item \in Item
    BY <1>1, <1>2 DEF PollInv, PollTypeOK, Filed, Revision
  <2>2. seen[k].item = r.item
    BY <1>1, <2>1
  <2> QED BY <1>1, <1>2, <2>1, <2>2, VersionsIdentify
<1> HIDE DEF k
<1>4. Offers'
  BY <1>2 DEF PollInv, Offers
<1>5. Windows' /\ Metas' /\ Filed'
  BY <1>2 DEF PollInv, Windows, Metas, Filed, Value
<1>6. Progress'
  <2>1. \A q \in metas' : KeyOf(q.item) \notin present'
    <3> SUFFICES ASSUME NEW q \in metas, q # r
                 PROVE  KeyOf(q.item) \notin present \cup {k}
      BY <1>2
    <3>1. q.item # r.item /\ q.item \in Item
      BY MetaFacts DEF PollInv, Metas
    <3> QED BY <1>1, <1>2, <3>1 DEF PollInv, Progress
  <2>2. \A i \in Item :
            \/ KeyOf(i) \in present' /\ seen'[KeyOf(i)] \in window'[i]
            \/ KeyOf(i) \notin present' /\ NoRev \in window'[i]
            \/ \E q \in metas' : q.item = i
    <3> SUFFICES ASSUME NEW i \in Item
                 PROVE  \/ KeyOf(i) \in present \cup {k} /\ seen[KeyOf(i)] \in window[i]
                        \/ KeyOf(i) \notin present \cup {k} /\ NoRev \in window[i]
                        \/ \E q \in metas \ {r} : q.item = i
      BY <1>2
    <3>1. CASE i = r.item
      BY <1>1, <1>3, <3>1 DEF k
    <3>2. CASE i # r.item
      BY <1>1, <1>2, <3>2 DEF PollInv, Progress
    <3> QED BY <3>1, <3>2
  <2> QED BY <1>2, <2>1, <2>2 DEF PollInv, Progress
<1>7. Behind'
  BY <1>2 DEF PollInv, Behind
<1>8. Honest'
  BY <1>2 DEF Honest
<1> QED BY <1>4, <1>5, <1>6, <1>7, <1>8 DEF Core

LEMMA DiffChangedKeeps ==
    ASSUME PollInv, NEW r \in metas, DiffChanged(r)
    PROVE  Core'
<1> DEFINE k == KeyOf(r.item)
           type == IF seen[k] = NoRev THEN "added" ELSE "updated"
<1>1. /\ r \in Revision /\ r.item \in Item /\ k \in Key /\ r # NoRev
      /\ r \in recent[r.item] /\ r \in window[r.item]
      /\ r.rev \in Nat /\ r.rev <= backend[r.item].rev
      /\ \A i \in Item : KeyOf(i) = k => i = r.item
  BY MetaFacts
<1>2. /\ pc = "diff" /\ pending = NoEvent
      /\ pending' = [type |-> type, meta |-> r]
      /\ metas' = metas \ {r}
      /\ present' = present \cup {k}
      /\ seen' = [seen EXCEPT ![k] = r]
      /\ seen[k] = NoRev \/ VersionOf(seen[k]) # VersionOf(r)
      /\ UNCHANGED <<backend, ctxDone, pc, unread, gone, window, recent>>
  BY DEF DiffChanged, Offer, Unchanged, backendVars, history
<1>3. pending' \notin {NoEvent, InSync}
  BY <1>1, <1>2, NoneAssumption DEF Event, EventType, InSync
<1>4. seen \in [Key -> Revision \cup {NoRev}]
  BY <1>2 DEF PollInv, PollTypeOK
<1>5. \A i \in Item : i # r.item => seen'[KeyOf(i)] = seen[KeyOf(i)]
  BY <1>1, <1>2, <1>4
<1>6. seen[k] # NoRev => seen[k] # r /\ seen[k].rev <= r.rev
  BY <1>1, <1>2, <1>4 DEF PollInv, Behind
<1> HIDE DEF k
<1>7. Offers'
  BY <1>2, <1>3 DEF PollInv, Offers
<1>8. Windows' /\ Metas'
  BY <1>2 DEF PollInv, Windows, Metas, Value
<1>9. Filed'
  BY <1>1, <1>2, <1>4 DEF PollInv, Filed, k
<1>10. Progress'
  <2>1. \A q \in metas' : KeyOf(q.item) \notin present'
    <3> SUFFICES ASSUME NEW q \in metas, q # r
                 PROVE  KeyOf(q.item) \notin present \cup {k}
      BY <1>2
    <3>1. q.item # r.item /\ q.item \in Item
      BY MetaFacts DEF PollInv, Metas
    <3> QED BY <1>1, <1>2, <3>1 DEF PollInv, Progress
  <2>2. \A i \in Item :
            \/ KeyOf(i) \in present' /\ seen'[KeyOf(i)] \in window'[i]
            \/ KeyOf(i) \notin present' /\ NoRev \in window'[i]
            \/ \E q \in metas' : q.item = i
    <3> SUFFICES ASSUME NEW i \in Item
                 PROVE  \/ KeyOf(i) \in present \cup {k} /\ seen'[KeyOf(i)] \in window[i]
                        \/ KeyOf(i) \notin present \cup {k} /\ NoRev \in window[i]
                        \/ \E q \in metas \ {r} : q.item = i
      BY <1>2
    <3>1. CASE i = r.item
      BY <1>1, <1>2, <1>4, <3>1 DEF k
    <3>2. CASE i # r.item
      BY <1>1, <1>2, <1>5, <3>2 DEF PollInv, Progress
    <3> QED BY <3>1, <3>2
  <2> QED BY <1>2, <2>1, <2>2 DEF PollInv, Progress
<1>11. Behind'
  <2> SUFFICES ASSUME NEW i \in Item, seen'[KeyOf(i)] # NoRev
               PROVE  /\ seen'[KeyOf(i)].rev <= backend[i].rev
                      /\ (\E q \in metas' : q.item = i) =>
                            \A v \in recent[i] \ {NoRev} : seen'[KeyOf(i)].rev <= v.rev
    BY <1>2 DEF Behind
  <2>1. CASE i = r.item
    <3>1. \A q \in metas' : q.item # r.item
      BY <1>2 DEF PollInv, Metas
    <3> QED BY <1>1, <1>2, <1>4, <2>1, <3>1 DEF k
  <2>2. CASE i # r.item
    BY <1>2, <1>5, <2>2 DEF PollInv, Behind
  <2> QED BY <2>1, <2>2
<1>12. Honest'
  BY <1>1, <1>2 DEF Honest, Told
<1> QED
  BY <1>7, <1>8, <1>9, <1>10, <1>11, <1>12 DEF Core

LEMMA DiffDoneKeeps ==
    ASSUME PollInv, DiffDone
    PROVE  Core'
<1>1. /\ pc = "diff" /\ pending = NoEvent /\ metas = {}
      /\ pc' = "gone" /\ present' = {}
      /\ gone' = {k \in Key : seen[k] # NoRev} \ present
      /\ UNCHANGED <<backend, ctxDone, unread, metas, seen, pending, window, recent>>
  BY DEF DiffDone, backendVars, history
<1>2. Offers'
  BY <1>1 DEF PollInv, Offers
<1>3. Windows' /\ Metas' /\ Filed'
  BY <1>1 DEF PollInv, Windows, Metas, Filed, Value
<1>4. Progress'
  <2>1. \A i \in Item : (IF KeyOf(i) \in gone' THEN NoRev ELSE seen[KeyOf(i)]) \in window[i]
    BY <1>1, KeyAssumption DEF PollInv, Progress
  <2> QED BY <1>1, <2>1 DEF Progress
<1>5. Behind' /\ Honest'
  BY <1>1 DEF PollInv, Behind, Honest
<1> QED BY <1>2, <1>3, <1>4, <1>5 DEF Core

LEMMA GoneNextKeeps ==
    ASSUME PollInv, NEW k \in gone, GoneNext(k)
    PROVE  Core'
<1>1. /\ pc = "gone" /\ pending = NoEvent
      /\ pending' = [type |-> "deleted", meta |-> seen[k]]
      /\ gone' = gone \ {k}
      /\ seen' = [seen EXCEPT ![k] = NoRev]
      /\ UNCHANGED <<backend, ctxDone, pc, unread, metas, present, window, recent>>
  BY DEF GoneNext, Offer, backendVars, history
<1>2. /\ k \in Key /\ seen[k] # NoRev /\ seen[k] \in Revision
      /\ seen[k].item \in Item /\ KeyOf(seen[k].item) = k
  BY <1>1 DEF PollInv, PollTypeOK, Progress, Filed, Revision
<1>3. pending' \notin {NoEvent, InSync}
  BY <1>1, <1>2, NoneAssumption DEF Event, EventType, InSync
<1>4. seen \in [Key -> Revision \cup {NoRev}]
  BY <1>1 DEF PollInv, PollTypeOK
<1>5. Offers'
  BY <1>1, <1>3 DEF PollInv, Offers
<1>6. Windows' /\ Metas'
  BY <1>1 DEF PollInv, Windows, Metas, Value
<1>7. Filed'
  BY <1>1, <1>4 DEF PollInv, Filed
<1>8. Progress'
  <2>1. \A j \in gone' : seen'[j] # NoRev
    BY <1>1, <1>4 DEF PollInv, Progress, PollTypeOK
  <2>2. \A i \in Item : (IF KeyOf(i) \in gone' THEN NoRev ELSE seen'[KeyOf(i)]) \in window[i]
    BY <1>1, <1>2, <1>4, KeyAssumption DEF PollInv, Progress
  <2> QED BY <1>1, <2>1, <2>2 DEF PollInv, Progress
<1>9. Behind'
  BY <1>1, <1>4, KeyAssumption DEF PollInv, Behind
<1>10. Honest'
  BY <1>1, <1>2 DEF PollInv, Progress, Honest, Told
<1> QED BY <1>5, <1>6, <1>7, <1>8, <1>9, <1>10 DEF Core

LEMMA GoneDoneKeeps ==
    ASSUME PollInv, GoneDone
    PROVE  Core'
<1>1. /\ pc = "gone" /\ pending = NoEvent /\ gone = {} /\ pc' = "wait"
      /\ UNCHANGED <<backend, ctxDone, unread, metas, present, gone, seen, pending, window,
                     recent>>
  BY DEF GoneDone, backendVars, history
<1>2. Offers'
  BY <1>1 DEF PollInv, Offers
<1>3. Windows' /\ Metas' /\ Filed'
  BY <1>1 DEF PollInv, Windows, Metas, Filed, Value
<1>4. Progress' /\ Behind' /\ Honest'
  BY <1>1 DEF PollInv, Progress, Behind, Honest
<1> QED BY <1>2, <1>3, <1>4 DEF Core

\* A receive from the channel takes the event on offer and nothing else.
LEMMA TakenKeeps ==
    ASSUME PollInv, Taken
    PROVE  PollInv'
<1>1. /\ pending # NoEvent /\ pending' = NoEvent
      /\ UNCHANGED <<backend, writes, ctxDone, pc, unread, metas, present, gone, seen, window,
                     recent>>
  BY DEF Taken, backendVars, history
<1>2. PollTypeOK' /\ Counted'
  BY <1>1 DEF PollInv, PollTypeOK, Counted
<1>3. Offers'
  BY <1>1, NoneAssumption DEF PollInv, Offers, PollTypeOK, Event
<1>4. Windows' /\ Metas' /\ Filed'
  BY <1>1 DEF PollInv, Windows, Metas, Filed, Value
<1>5. Progress' /\ Behind' /\ Honest'
  BY <1>1 DEF PollInv, Progress, Behind, Honest
<1> QED BY <1>2, <1>3, <1>4, <1>5 DEF PollInv

LEMMA IdleKeeps ==
    ASSUME PollInv, UNCHANGED <<backendVars, loopVars, history>>, ctxDone' \in BOOLEAN
    PROVE  PollInv'
<1> USE DEF backendVars, loopVars, history
<1>1. PollTypeOK' /\ Counted'
  BY DEF PollInv, PollTypeOK, Counted
<1>2. Offers' /\ Windows' /\ Metas' /\ Filed'
  BY DEF PollInv, Offers, Windows, Metas, Filed, Value
<1>3. Progress' /\ Behind' /\ Honest'
  BY DEF PollInv, Progress, Behind, Honest
<1> QED BY <1>1, <1>2, <1>3 DEF PollInv

-----------------------------------------------------------------------------
(* What the modules with a receiver build on. *)

LEMMA PollBegins == PollInit => PollInv
<1> SUFFICES ASSUME PollInit PROVE PollInv
  OBVIOUS
<1>1. /\ pc = "idle" /\ pending = NoEvent /\ ctxDone = FALSE /\ writes = 0
      /\ unread = {} /\ metas = {} /\ present = {} /\ gone = {}
      /\ seen = [k \in Key |-> NoRev]
      /\ window = [i \in Item |-> {Value(i)}] /\ recent = window
  BY DEF PollInit
<1> DEFINE none  == [live |-> FALSE, rev |-> 0, num |-> 0]
           first == [live |-> TRUE,  rev |-> 1, num |-> 1]
<1>2. backend \in [Item -> {none, first}]
  BY DEF PollInit
<1>3. /\ none \in Entry /\ none.rev = 0 /\ none.num = 0
      /\ first \in Entry /\ first.rev = 1 /\ first.num = 1
  BY BoundAssumption DEF Entry, Count
<1> HIDE DEF none, first
<1>4. backend \in [Item -> Entry]
  BY <1>2, <1>3
<1>5. \A i \in Item : backend[i].rev \in {0, 1} /\ backend[i].num = backend[i].rev
  BY <1>2, <1>3
<1>6. \A i \in Item : Value(i) \in Revision \cup {NoRev}
  BY <1>4, ValueType DEF Entry
<1>7. \A i \in Item : Value(i) # NoRev => Value(i).item = i /\ Value(i).rev = backend[i].rev
  BY DEF Value
<1>8. PollTypeOK
  <2>1. window \in [Item -> SUBSET (Revision \cup {NoRev})]
    BY <1>1, <1>6
  <2>2. seen \in [Key -> Revision \cup {NoRev}]
    BY <1>1
  <2>3. backend \in [Item -> [live : BOOLEAN, rev : Count, num : Count]]
    BY <1>4 DEF Entry
  <2>4. writes \in 0..MaxWrites
    BY <1>1, BoundAssumption
  <2>5. ctxDone \in BOOLEAN
    BY <1>1
  <2> QED BY <1>1, <2>1, <2>2, <2>3, <2>4, <2>5 DEF PollTypeOK
<1>9. Counted
  <2> SUFFICES ASSUME NEW i \in Item
               PROVE  backend[i].rev <= writes + 1 /\ backend[i].num <= backend[i].rev
    BY DEF Counted
  <2> QED BY <1>1, <1>5
<1>10. Offers /\ Filed /\ Metas
  BY <1>1, NoneAssumption DEF Offers, Filed, Metas, Event
<1>11. Windows
  <2> SUFFICES ASSUME NEW i \in Item
               PROVE  Value(i) # NoRev => Value(i).item = i /\ Value(i).rev <= backend[i].rev
    BY <1>1 DEF Windows
  <2> QED BY <1>5, <1>7
<1>12. Progress /\ Behind /\ Honest
  BY <1>1, KeyAssumption DEF Progress, Behind, Honest
<1> QED BY <1>8, <1>9, <1>10, <1>11, <1>12 DEF PollInv

\* Whatever the backend, ctx, the loop and the receiver do, PollInv survives.
LEMMA PollKeeps ==
    ASSUME PollInv, BackendStep \/ CtxEnds \/ LoopStep \/ Taken \/ UNCHANGED pollVars
    PROVE  PollInv'
<1>1. CASE BackendStep
  BY <1>1, ChangeTyping, ChangeKeeps DEF PollInv, Core
<1>2. CASE CtxEnds
  BY <1>2, IdleKeeps DEF CtxEnds
<1>3. CASE LoopStep
  <2>1. PollTypeOK' /\ Counted'
    BY <1>3, LoopTyping, CountedStep DEF PollInv
  <2>2. Core'
    BY <1>3, StopKeeps, BeginListKeeps, ListReadsKeeps, ListFailsKeeps, ListSucceedsKeeps,
       ReplayNextKeeps, ReplayDoneKeeps, DiffSameKeeps, DiffChangedKeeps, DiffDoneKeeps,
       GoneNextKeeps, GoneDoneKeeps DEF LoopStep
  <2> QED BY <2>1, <2>2 DEF PollInv, Core
<1>4. CASE Taken
  BY <1>4, TakenKeeps
<1>5. CASE UNCHANGED pollVars
  BY <1>5, IdleKeeps DEF pollVars, PollInv, PollTypeOK
<1> QED BY <1>1, <1>2, <1>3, <1>4, <1>5

\* Before IN_SYNC is on offer.
Early == {"idle", "rejected", "snapshot", "replay"}

\* A step that leaves the channel alone: the stages it may lead from and to.
Silently ==
    /\ UNCHANGED <<pending, seen>>
    /\ pc # "closed"
    /\ pc' \in Early => pc \in Early
    /\ pc \in Early => pc' \in Early \cup {"closed"}
    /\ pc = "wait" /\ pc' # "wait" => pending = NoEvent
    /\ pc' = "closed" => ctxDone
    /\ pc' \in {"snapshot", "rejected"} => pc \in {"idle", "snapshot"}
    /\ pc' # "idle"

GivesUp ==
    /\ pending # NoEvent /\ pending' = NoEvent
    /\ ctxDone /\ pc' = "closed"
    /\ seen' = seen

OffersInSync ==
    /\ pending = NoEvent /\ pending' = InSync
    /\ pc = "replay" /\ pc' = "wait"
    /\ seen' = seen

\* Event e is offered: it fits what seen had under its key, and seen now has what
\* it tells.
OffersEvent(e) ==
    /\ pending = NoEvent /\ pending' = e
    /\ e # InSync
    /\ pc \in {"replay", "diff", "gone"} /\ pc' = pc
    /\ KeyOf(e.meta.item) \in Key
    /\ Suits(e, seen[KeyOf(e.meta.item)])
    /\ pc = "replay" => e.type = "added"
    /\ seen' = [seen EXCEPT ![KeyOf(e.meta.item)] = Told(e)]

\* What the loop puts on the channel goes with what it does to seen: the events,
\* in the order in which they are offered, are exactly the changes to seen.
LEMMA LoopOffers ==
    ASSUME PollInv, LoopStep
    PROVE  /\ ctxDone' = ctxDone
           /\ \/ Silently \/ GivesUp \/ OffersInSync
              \/ \E e \in [type : EventType, meta : Revision] : OffersEvent(e)
<1> DEFINE AnEvent == \E e \in [type : EventType, meta : Revision] : OffersEvent(e)
<1>1. ASSUME NEW r \in metas, ReplayNext(r)
      PROVE  AnEvent
  <2> DEFINE e == [type |-> "added", meta |-> r]
  <2>1. r \in Revision /\ KeyOf(r.item) \in Key
    BY MetaFacts
  <2>2. e \in [type : EventType, meta : Revision] /\ e # InSync
    BY <2>1 DEF EventType, InSync
  <2>3. seen[KeyOf(r.item)] = NoRev
    BY <1>1 DEF ReplayNext, PollInv, Progress
  <2>4. OffersEvent(e)
    BY <1>1, <2>1, <2>2, <2>3 DEF ReplayNext, Offer, OffersEvent, Suits, Told
  <2> QED BY <2>2, <2>4
<1>2. ASSUME NEW r \in metas, DiffChanged(r)
      PROVE  AnEvent
  <2> DEFINE k == KeyOf(r.item)
             e == [type |-> IF seen[k] = NoRev THEN "added" ELSE "updated", meta |-> r]
  <2>1. r \in Revision /\ k \in Key /\ r \in recent[r.item] /\ r.item \in Item /\ r # NoRev
    BY MetaFacts
  <2>2. e \in [type : EventType, meta : Revision] /\ e # InSync
    BY <2>1 DEF EventType, InSync
  <2>3. pc = "diff" /\ (seen[k] = NoRev \/ VersionOf(seen[k]) # VersionOf(r))
    BY <1>2 DEF DiffChanged, Unchanged
  <2>4. seen[k] # NoRev => seen[k] # r /\ seen[k].rev <= r.rev
    BY <2>1, <2>3 DEF PollInv, Behind
  <2>5. Suits(e, seen[k])
    BY <2>4 DEF Suits
  <2>6. OffersEvent(e)
    BY <1>2, <2>1, <2>2, <2>3, <2>5 DEF DiffChanged, Offer, OffersEvent, Told
  <2> QED BY <2>2, <2>6
<1>3. ASSUME NEW k \in gone, GoneNext(k)
      PROVE  AnEvent
  <2> DEFINE e == [type |-> "deleted", meta |-> seen[k]]
  <2>1. /\ k \in Key /\ seen[k] # NoRev /\ seen[k] \in Revision
        /\ seen[k].item \in Item /\ KeyOf(seen[k].item) = k
    BY <1>3 DEF GoneNext, PollInv, PollTypeOK, Progress, Filed, Revision
  <2>2. e \in [type : EventType, meta : Revision] /\ e # InSync
    BY <2>1 DEF EventType, InSync
  <2>3. OffersEvent(e)
    BY <1>3, <2>1, <2>2 DEF GoneNext, Offer, OffersEvent, Suits, Told
  <2> QED BY <2>2, <2>3
<1>4. CASE ReplayDone
  BY <1>4 DEF ReplayDone, Offer, OffersInSync
<1>5. CASE EmitGivesUp
  BY <1>5 DEF EmitGivesUp, GivesUp
<1>6. CASE SubscribeTooLate \/ Subscribe \/ SnapshotFails \/ SnapshotTaken
  BY <1>6 DEF SubscribeTooLate, Subscribe, SnapshotFails, SnapshotTaken, BeginList,
              ListFails, ListSucceeds, ListReturns, Silently, Early
<1>7. CASE Tick \/ Stop \/ PollFails \/ PollSucceeds \/ DiffDone \/ GoneDone
  BY <1>7 DEF Tick, Stop, PollFails, PollSucceeds, DiffDone, GoneDone, BeginList,
              ListFails, ListSucceeds, ListReturns, Silently, Early
<1>8. ASSUME NEW i \in Item, ListReads(i)
      PROVE  Silently
  BY <1>8 DEF ListReads, Silently
<1>9. ASSUME NEW r \in metas, DiffSame(r)
      PROVE  Silently
  BY <1>9 DEF DiffSame, Silently
<1>10. ctxDone' = ctxDone
  BY DEF LoopStep, SubscribeTooLate, Subscribe, SnapshotFails, SnapshotTaken, ListReads,
         ReplayNext, DiffSame, DiffChanged, ReplayDone, Tick, Stop, PollFails, PollSucceeds,
         DiffDone, GoneDone, EmitGivesUp, GoneNext, BeginList, ListFails, ListSucceeds,
         ListReturns
<1> QED BY <1>1, <1>2, <1>3, <1>4, <1>5, <1>6, <1>7, <1>8, <1>9, <1>10 DEF LoopStep

-----------------------------------------------------------------------------
(* When ctx has ended. *)

\* The stages Poll can still go through when it will not start another List, and
\* the work it has left in the present one.
StagesLeft ==
    CASE pc \in {"idle", "snapshot"}     -> 5
      [] pc = "list"                     -> 4
      [] pc \in {"replay", "diff"}       -> 3
      [] pc = "gone"                     -> 2
      [] pc = "wait"                     -> 1
      [] pc \in {"rejected", "closed"}   -> 0

WorkLeft ==
    CASE pc \in {"snapshot", "list"} -> unread
      [] pc \in {"replay", "diff"}   -> metas
      [] pc = "gone"                 -> gone
      [] OTHER                       -> {}

\* A stage is over; or some of the work of this one; or an event has been taken.
PollDescends ==
    \/ StagesLeft' < StagesLeft
    \/ /\ StagesLeft' = StagesLeft
       /\ \/ WorkLeft' \subseteq WorkLeft /\ WorkLeft' # WorkLeft
          \/ WorkLeft' = WorkLeft /\ pending # NoEvent /\ pending' = NoEvent

PollStands == UNCHANGED <<StagesLeft, WorkLeft, pending>>

LEMMA PollStandsIf ==
    ASSUME UNCHANGED loopVars
    PROVE  PollStands
BY DEF PollStands, loopVars, StagesLeft, WorkLeft

\* What Poll does after ctx has ended, and what is taken from it, brings it nearer
\* to its end.
LEMMA LoopDescends ==
    ASSUME PollInv, ctxDone, LoopStep \/ Taken
    PROVE  PollDescends
<1> USE DEF PollDescends, StagesLeft
<1>1. CASE Taken
  BY <1>1 DEF Taken, WorkLeft
<1>2. ASSUME NEW i \in Item, ListReads(i)
      PROVE  PollDescends
  <2>1. pc \in {"snapshot", "list"} /\ pc' = pc /\ i \in unread /\ unread' = unread \ {i}
    BY <1>2 DEF ListReads
  <2>2. WorkLeft = unread /\ WorkLeft' = unread \ {i}
    BY <2>1 DEF WorkLeft
  <2> QED BY <2>1, <2>2
<1>3. ASSUME NEW r \in metas, ReplayNext(r) \/ DiffSame(r) \/ DiffChanged(r)
      PROVE  PollDescends
  <2>1. pc \in {"replay", "diff"} /\ pc' = pc /\ metas' = metas \ {r}
    BY <1>3 DEF ReplayNext, DiffSame, DiffChanged
  <2>2. WorkLeft = metas /\ WorkLeft' = metas \ {r}
    BY <2>1 DEF WorkLeft
  <2> QED BY <2>1, <2>2
<1>4. ASSUME NEW k \in gone, GoneNext(k)
      PROVE  PollDescends
  <2>1. pc = "gone" /\ pc' = pc /\ gone' = gone \ {k}
    BY <1>4 DEF GoneNext
  <2>2. WorkLeft = gone /\ WorkLeft' = gone \ {k}
    BY <2>1 DEF WorkLeft
  <2> QED BY <2>1, <2>2
<1>5. CASE SubscribeTooLate \/ SnapshotFails \/ SnapshotTaken \/ PollFails \/ PollSucceeds
  <2>1. \/ pc = "idle" /\ pc' = "rejected"
        \/ pc = "snapshot" /\ pc' \in {"rejected", "replay"}
        \/ pc = "list" /\ pc' \in {"closed", "diff"}
    BY <1>5 DEF SubscribeTooLate, SnapshotFails, SnapshotTaken, PollFails, PollSucceeds,
                ListFails, ListSucceeds, ListReturns
  <2> QED BY <2>1
<1>6. CASE ReplayDone \/ DiffDone \/ GoneDone \/ Stop
  <2>1. \/ pc = "replay" /\ pc' = "wait"
        \/ pc = "diff" /\ pc' = "gone"
        \/ pc = "gone" /\ pc' = "wait"
        \/ pc = "wait" /\ pc' = "closed"
    BY <1>6 DEF ReplayDone, DiffDone, GoneDone, Stop
  <2> QED BY <2>1
<1>7. CASE EmitGivesUp
  <2>1. pc' = "closed" /\ pc \in {"replay", "wait", "diff", "gone"}
    BY <1>7 DEF EmitGivesUp, PollInv, PollTypeOK, Offers
  <2> QED BY <2>1
<1>8. ~Tick /\ ~Subscribe
  BY DEF Tick, Subscribe
<1> QED BY <1>1, <1>2, <1>3, <1>4, <1>5, <1>6, <1>7, <1>8 DEF LoopStep

-----------------------------------------------------------------------------
(* The loop and its subscriber. *)

\* What the subscriber has in common with the loop.
Common == Replica /\ InSyncTold /\ Fits

LEMMA OfferKeeps ==
    ASSUME IInv, NEW e \in [type : EventType, meta : Revision], OffersEvent(e),
           UNCHANGED <<kept, announced>>
    PROVE  Common'
<1> DEFINE k == KeyOf(e.meta.item)
<1>1. /\ pending = NoEvent /\ pending' = e /\ e # InSync
      /\ pc \in {"replay", "diff", "gone"} /\ pc' = pc
      /\ Suits(e, seen[k])
      /\ seen' = [seen EXCEPT ![k] = Told(e)]
  BY DEF OffersEvent
<1>2. e # NoEvent
  BY NoneAssumption DEF Event
<1>3. seen = kept
  BY <1>1 DEF IInv, Replica
<1>4. Replica'
  BY <1>1, <1>2, <1>3 DEF Replica, Apply
<1>5. InSyncTold'
  BY <1>1, <1>2 DEF IInv, InSyncTold
<1>6. Fits'
  BY <1>1, <1>3 DEF Fits
<1> QED BY <1>4, <1>5, <1>6 DEF Common

LEMMA LoopKeeps ==
    ASSUME IInv, LoopStep, UNCHANGED <<kept, announced>>
    PROVE  Common'
<1>1. CASE Silently
  <2>1. Replica'
    BY <1>1 DEF IInv, Replica, Silently, Early, Apply, PollInv, PollTypeOK
  <2>2. InSyncTold'
    BY <1>1 DEF IInv, InSyncTold, Silently, Early, PollInv, PollTypeOK, Offers
  <2>3. Fits'
    BY <1>1 DEF IInv, Fits, Silently
  <2> QED BY <2>1, <2>2, <2>3 DEF Common
<1>2. CASE GivesUp
  <2>1. NoEvent # InSync
    BY NoneAssumption DEF Event
  <2> QED BY <1>2, <2>1 DEF GivesUp, Common, Replica, InSyncTold, Fits
<1>3. CASE OffersInSync
  <2>1. NoEvent # InSync
    BY NoneAssumption DEF Event
  <2> QED BY <1>3, <2>1 DEF OffersInSync, IInv, Common, Replica, InSyncTold, Fits, Apply
<1>4. ASSUME NEW e \in [type : EventType, meta : Revision], OffersEvent(e)
      PROVE  Common'
  BY <1>4, OfferKeeps
<1> QED BY <1>1, <1>2, <1>3, <1>4, LoopOffers DEF IInv

LEMMA ReceiveKeeps ==
    ASSUME IInv, Receive
    PROVE  PollerTypeOK' /\ Common'
<1>1. /\ pending # NoEvent /\ pending' = NoEvent
      /\ kept' = Apply(pending, kept)
      /\ announced' = (announced \/ pending = InSync)
      /\ UNCHANGED <<pc, seen>>
  BY DEF Receive, Taken
<1>2. PollTypeOK'
  BY PollKeeps DEF IInv, PollInv, Receive
<1>3. \A r \in Revision : KeyOf(r.item) \in Key
  BY KeyAssumption DEF Revision
<1>4. Apply(pending, kept) \in [Key -> Revision \cup {NoRev}]
  BY <1>1, <1>3 DEF IInv, PollerTypeOK, PollTypeOK, Apply, Told, Event
<1>5. PollerTypeOK'
  BY <1>1, <1>2, <1>4 DEF IInv, PollerTypeOK
<1>6. Replica'
  BY <1>1 DEF IInv, Replica
<1>7. InSyncTold'
  BY <1>1, NoneAssumption DEF IInv, PollInv, Offers, InSyncTold, PollTypeOK, Event
<1>8. Fits'
  BY <1>1 DEF Fits
<1> QED BY <1>5, <1>6, <1>7, <1>8 DEF Common

-----------------------------------------------------------------------------
(* The theorems. *)

LEMMA PollerBegins == PollerInit => IInv
<1> SUFFICES ASSUME PollerInit PROVE IInv
  OBVIOUS
<1>1. PollInv
  BY PollBegins DEF PollerInit
<1>2. /\ pc = "idle" /\ pending = NoEvent /\ announced = FALSE
      /\ seen = [k \in Key |-> NoRev] /\ kept = seen
  BY DEF PollerInit, PollInit
<1>3. PollerTypeOK
  BY <1>1, <1>2 DEF PollerTypeOK, PollInv
<1>4. Replica /\ InSyncTold /\ Fits
  BY <1>2, NoneAssumption DEF Replica, InSyncTold, Fits, Event
<1> QED BY <1>1, <1>3, <1>4 DEF IInv

LEMMA PollerKeeps == IInv /\ [PollerNext]_pollerVars => IInv'
<1> SUFFICES ASSUME IInv, [PollerNext]_pollerVars PROVE IInv'
  OBVIOUS
<1>1. PollInv'
  BY PollKeeps DEF IInv, PollerNext, pollerVars, Receive
<1>2. ASSUME UNCHANGED <<kept, announced>>
      PROVE  PollerTypeOK'
  BY <1>1, <1>2 DEF IInv, PollerTypeOK, PollInv
<1>3. CASE LoopStep /\ UNCHANGED <<kept, announced>>
  BY <1>1, <1>2, <1>3, LoopKeeps DEF IInv, Common
<1>4. CASE Receive
  BY <1>1, <1>4, ReceiveKeeps DEF IInv, Common
<1>5. CASE (BackendStep \/ CtxEnds \/ UNCHANGED pollerVars) /\ UNCHANGED <<kept, announced>>
  <2>1. UNCHANGED loopVars
    BY <1>5 DEF BackendStep, Write, Recreate, Remove, Restore, Change, CtxEnds, pollerVars, pollVars
  <2>2. Common'
    BY <1>5, <2>1 DEF IInv, Common, Replica, InSyncTold, Fits, Apply, loopVars
  <2> QED BY <1>1, <1>2, <1>5, <2>2 DEF IInv, Common
<1> QED BY <1>3, <1>4, <1>5 DEF PollerNext, pollerVars

\* IInv holds in every reachable state, whatever the numbers of secrets and
\* changes: the loop of poll.go never leaves the states IInv describes.
THEOREM Invariance == PollerSpec => []IInv
<1>1. PollerInit => IInv
  BY PollerBegins
<1>2. IInv /\ [PollerNext]_pollerVars => IInv'
  BY PollerKeeps
<1> QED BY <1>1, <1>2, PTL DEF PollerSpec, PollerSafety

\* Every variable of Poll and of its subscriber keeps its type.
THEOREM Typing == PollerSpec => []PollerTypeOK
<1>1. IInv => PollerTypeOK
  BY DEF IInv
<1> QED BY <1>1, Invariance, PTL

\* The copy of the subscriber and Poll's seen map never drift apart.
THEOREM ReplicaTheorem == PollerSpec => []Replica
<1>1. IInv => Replica
  BY DEF IInv
<1> QED BY <1>1, Invariance, PTL

\* No event says what was not true during the List call it comes from; in
\* particular a failed poll never turns into DELETED events.
THEOREM HonestTheorem == PollerSpec => []Honest
<1>1. IInv => Honest
  BY DEF IInv, PollInv
<1> QED BY <1>1, Invariance, PTL

LEMMA CaughtUpFollows == IInv => CaughtUp
<1> SUFFICES ASSUME IInv, pc = "wait", NEW i \in Item
             PROVE  kept[KeyOf(i)] \in window[i]
  BY DEF CaughtUp
<1>1. seen = kept
  BY DEF IInv, PollInv, Offers, Replica, InSyncTold, Apply
<1> QED BY <1>1 DEF IInv, PollInv, Progress

\* At rest and when IN_SYNC is announced, the subscriber has missed nothing that
\* was over when the last successful List began.
THEOREM CaughtUpTheorem == PollerSpec => []CaughtUp
BY CaughtUpFollows, Invariance, PTL

\* IN_SYNC comes once, after the snapshot and before anything else.
THEOREM InSyncOnceTheorem == PollerSpec => []InSyncOnce
<1>1. IInv => InSyncOnce
  BY NoneAssumption DEF IInv, PollInv, PollTypeOK, Offers, InSyncTold, InSyncOnce, Event
<1> QED BY <1>1, Invariance, PTL

\* The type of every event fits what the subscriber holds when it receives it.
THEOREM DisciplineTheorem == PollerSpec => Discipline
<1>1. IInv /\ [PollerNext]_pollerVars =>
         [Receive /\ pending # InSync => Suits(pending, kept[KeyOf(pending.meta.item)])]_pollerVars
  BY DEF IInv, Fits, Receive, Taken
<1> QED BY <1>1, Invariance, PTL DEF PollerSpec, PollerSafety, Discipline

-----------------------------------------------------------------------------
(* When the backend leaves Poll in peace. *)

\* What the subscriber has, to be compared with Listing, what ListSecrets would
\* answer now.
Copied == {kept[k] : k \in Key} \ {NoRev}

\* Poll is between two polls, and since the last List that succeeded began nothing
\* has changed.
Quiet ==
    /\ pc = "wait" /\ pending = NoEvent
    /\ \A i \in Item : window[i] = {Value(i)}

Mirrored == Quiet => Copied = Listing

\* The copy is the backend: nothing is missing from it, and nothing is left over in
\* it, under a key no object has either.
THEOREM MirrorTheorem == PollerSpec => []Mirrored
<1>1. IInv => Mirrored
  <2> SUFFICES ASSUME IInv, Quiet PROVE Copied = Listing
    BY DEF Mirrored
  <2>1. seen = kept /\ pc = "wait"
    BY DEF Quiet, IInv, Replica
  <2>2. \A i \in Item : kept[KeyOf(i)] = Value(i)
    BY <2>1, CaughtUpFollows DEF CaughtUp, Quiet
  <2>3. \A k \in Key : kept[k] # NoRev => kept[k].item \in Item /\ KeyOf(kept[k].item) = k
    BY <2>1 DEF IInv, PollInv, PollTypeOK, Filed, Revision
  <2>4. Copied \subseteq Listing
    <3> SUFFICES ASSUME NEW k \in Key, kept[k] # NoRev PROVE kept[k] \in Listing
      BY DEF Copied
    <3>1. PICK i \in Item : KeyOf(i) = k
      BY <2>3
    <3> QED BY <2>2, <3>1 DEF Listing
  <2>5. Listing \subseteq Copied
    BY <2>2, KeyAssumption DEF Listing, Copied
  <2> QED BY <2>4, <2>5
<1> QED BY <1>1, Invariance, PTL

\* What Poll keeps to from then on: nothing on offer, nothing in seen that the
\* backend does not hold, and no key taken for deleted.
Steady ==
    /\ pending = NoEvent
    /\ pc \in {"wait", "list", "diff", "gone", "closed"}
    /\ \A i \in Item : window[i] = {Value(i)} /\ seen[KeyOf(i)] = Value(i)
    /\ pc = "gone" => gone = {}

SteadyStays == [][Steady /\ ~BackendStep => Steady']_pollerVars

LEMMA SteadyKeeps ==
    ASSUME IInv, Steady, LoopStep
    PROVE  Steady'
<1>1. /\ pending = NoEvent
      /\ pc \in {"wait", "list", "diff", "gone", "closed"}
      /\ pc = "gone" => gone = {}
  BY DEF Steady
<1>2. \A i \in Item : window[i] = {Value(i)} /\ seen[KeyOf(i)] = Value(i)
  BY DEF Steady
<1>3. recent = window
  <2>1. \A i \in Item : Value(i) \in recent[i] /\ recent[i] \subseteq window[i]
    BY DEF IInv, PollInv, Windows
  <2>2. ASSUME NEW i \in Item
        PROVE  recent[i] = window[i]
    <3>1. window[i] = {Value(i)} /\ Value(i) \in recent[i] /\ recent[i] \subseteq window[i]
      BY <1>2, <2>1
    <3> QED BY <3>1, Zenon
  <2> QED BY <2>2 DEF IInv, PollInv, PollTypeOK
<1>4. \A i \in Item : Value(i)' = Value(i)
  BY LoopTyping DEF IInv, PollInv, backendVars, Value
<1>5. ASSUME UNCHANGED <<pending, seen, window>>,
             pc' \in {"wait", "list", "diff", "gone", "closed"},
             pc' = "gone" => gone' = {}
      PROVE  Steady'
  BY <1>1, <1>2, <1>4, <1>5 DEF Steady
<1>6. ASSUME NEW r \in metas, DiffChanged(r)
      PROVE  FALSE
  <2>1. r \in recent[r.item] /\ r.item \in Item /\ r # NoRev
    BY MetaFacts DEF IInv
  <2>2. r = Value(r.item)
    BY <1>2, <1>3, <2>1
  <2>3. seen[KeyOf(r.item)] = r
    BY <1>2, <2>1, <2>2
  <2> QED BY <1>6, <2>1, <2>3 DEF DiffChanged, Unchanged
<1>7. CASE DiffDone
  <2>1. pc = "diff" /\ metas = {} /\ gone' = {k \in Key : seen[k] # NoRev} \ present
        /\ pc' = "gone" /\ UNCHANGED <<pending, seen, window>>
    BY <1>7 DEF DiffDone, history
  <2>2. ASSUME NEW k \in gone'
        PROVE  FALSE
    <3>1. /\ seen[k] # NoRev /\ k \in Key /\ k \notin present
          /\ seen[k].item \in Item /\ KeyOf(seen[k].item) = k
      BY <2>1, <2>2 DEF IInv, PollInv, PollTypeOK, Filed, Revision
    <3>2. NoRev \in window[seen[k].item]
      BY <2>1, <3>1 DEF IInv, PollInv, Progress
    <3> QED BY <1>2, <3>1, <3>2
  <2> QED BY <1>5, <2>1, <2>2
<1>8. CASE Tick \/ Stop \/ PollFails \/ GoneDone
  BY <1>1, <1>5, <1>8 DEF Tick, Stop, PollFails, GoneDone, BeginList, ListFails,
                          ListReturns, history
<1>9. CASE PollSucceeds
  BY <1>3, <1>5, <1>9 DEF PollSucceeds, ListSucceeds, ListReturns
<1>10. ASSUME NEW i \in Item, ListReads(i)
       PROVE  Steady'
  BY <1>1, <1>5, <1>10 DEF ListReads, history
<1>11. ASSUME NEW r \in metas, DiffSame(r)
       PROVE  Steady'
  BY <1>1, <1>5, <1>11 DEF DiffSame, history
<1>12. ~(SubscribeTooLate \/ Subscribe \/ SnapshotFails \/ SnapshotTaken \/ ReplayDone)
  BY <1>1 DEF SubscribeTooLate, Subscribe, SnapshotFails, SnapshotTaken, ListFails,
              ListSucceeds, ListReturns, ReplayDone
<1>13. /\ ~EmitGivesUp
       /\ \A r \in metas : ~ReplayNext(r)
       /\ \A k \in gone : ~GoneNext(k)
  BY <1>1 DEF EmitGivesUp, ReplayNext, GoneNext
<1> QED BY <1>6, <1>7, <1>8, <1>9, <1>10, <1>11, <1>12, <1>13 DEF LoopStep

\* A poll that finds what was there before sends nothing, the next one sends nothing
\* either, and so on until the backend changes; whatever errors the polls meet.
THEOREM SteadyTheorem == PollerSpec => [](Quiet => Steady) /\ SteadyStays
<1>1. IInv => (Quiet => Steady)
  <2> SUFFICES ASSUME IInv, Quiet PROVE Steady
    OBVIOUS
  <2>1. \A i \in Item : seen[KeyOf(i)] \in window[i]
    BY DEF IInv, PollInv, Progress, Quiet
  <2> QED BY <2>1 DEF Steady, Quiet
<1>2. IInv /\ [PollerNext]_pollerVars => [Steady /\ ~BackendStep => Steady']_pollerVars
  <2> SUFFICES ASSUME IInv, PollerNext, Steady, ~BackendStep PROVE Steady'
    OBVIOUS
  <2>1. CASE CtxEnds
    BY <2>1 DEF CtxEnds, Steady, Value, backendVars, loopVars, history
  <2>2. CASE LoopStep
    BY <2>2, SteadyKeeps
  <2>3. ~Receive
    BY DEF Steady, Receive, Taken
  <2> QED BY <2>1, <2>2, <2>3 DEF PollerNext
<1> QED BY <1>1, <1>2, Invariance, PTL DEF PollerSpec, PollerSafety, SteadyStays

-----------------------------------------------------------------------------
(* Poll implements WatchContract. *)

\* The contract's value and view, and whether its stream is open.
cvalue == [i \in Item |-> Value(i)]
cview  == [i \in Item |-> kept[KeyOf(i)]]
copen  == pc \notin {"rejected", "closed"}

LEMMA ChangeIsChange ==
    ASSUME IInv, BackendStep, UNCHANGED <<kept, announced>>
    PROVE  \E i \in Item : Contract!Change(i)
<1>1. PICK i \in Item, entry \in Entry : Change(i, entry)
  BY ChangeShape DEF IInv, PollInv
<1>2. /\ backend' = [backend EXCEPT ![i] = entry]
      /\ window' = [window EXCEPT ![i] = @ \cup {Value(i)'}]
      /\ UNCHANGED <<kept, announced, pc>>
  BY <1>1 DEF Change, loopVars
<1>3. \A j \in Item \ {i} : Value(j)' = Value(j)
  BY <1>2 DEF IInv, PollInv, PollTypeOK, Value
<1> QED BY <1>2, <1>3 DEF Contract!Change

LEMMA ReceiveIsNotifyOrSync ==
    ASSUME IInv, Receive
    PROVE  Contract!Next
<1>1. /\ pending # NoEvent
      /\ kept' = Apply(pending, kept)
      /\ announced' = (announced \/ pending = InSync)
      /\ UNCHANGED <<backend, pc, seen, window>>
  BY DEF Receive, Taken, backendVars, history
<1>2. copen /\ copen' = copen
  BY <1>1 DEF IInv, PollInv, Offers, InSyncTold, copen
<1>3. cvalue' = cvalue
  BY <1>1 DEF cvalue, Value
<1>4. CASE pending = InSync
  <2>1. kept' = kept /\ pc = "wait" /\ ~announced /\ announced'
    BY <1>1, <1>4 DEF Apply, IInv, PollInv, Offers, InSyncTold
  <2>2. \A i \in Item : kept[KeyOf(i)] \in window[i]
    BY <2>1, CaughtUpFollows DEF CaughtUp
  <2>3. Contract!Sync
    BY <1>1, <1>2, <1>3, <2>1, <2>2 DEF Contract!Sync, Contract!Within, cvalue, copen
  <2> QED BY <2>3 DEF Contract!Next
<1>5. CASE pending # InSync
  <2>1. pending \in [type : EventType, meta : Revision]
    BY <1>1, <1>5 DEF IInv, PollInv, PollTypeOK, Event
  <2>2. PICK i \in Item : i = pending.meta.item /\ KeyOf(i) \in Key
    BY <2>1, KeyAssumption DEF Revision
  <2>3. PICK v : v = IF pending.type = "deleted" THEN NoRev ELSE pending.meta
    OBVIOUS
  <2>4. v \in window[i]
    BY <1>1, <1>5, <2>2, <2>3 DEF IInv, PollInv, Honest, Told
  <2>5. kept' = [kept EXCEPT ![KeyOf(i)] = v]
    BY <1>1, <1>5, <2>2, <2>3 DEF Apply, Told
  <2>6. kept \in [Key -> Revision \cup {NoRev}]
    BY DEF IInv, PollerTypeOK
  <2>7. cview' = [cview EXCEPT ![i] = v]
    BY <2>2, <2>5, <2>6, OneObjectPerKey, KeyAssumption DEF cview
  <2>8. cview'[i] = v
    BY <2>7 DEF cview
  <2>9. announced' = announced
    BY <1>1, <1>5 DEF IInv, PollerTypeOK
  <2>10. Contract!Notify(i)
    BY <1>1, <1>2, <1>3, <2>4, <2>7, <2>8, <2>9
       DEF Contract!Notify, cvalue, cview, copen
  <2> QED BY <2>10 DEF Contract!Next
<1> QED BY <1>4, <1>5

LEMMA LoopImplements ==
    ASSUME IInv, LoopStep, UNCHANGED <<kept, announced>>
    PROVE  [Contract!Next]_(Contract!vars)
<1>1. UNCHANGED <<cvalue, cview>>
  <2>1. UNCHANGED backend
    BY LoopTyping DEF IInv, PollInv, backendVars
  <2> QED BY <2>1 DEF cvalue, cview, Value
<1>2. ASSUME UNCHANGED <<pc, window>>
      PROVE  UNCHANGED Contract!vars
  BY <1>1, <1>2 DEF Contract!vars, cvalue, cview
<1>3. ASSUME UNCHANGED window, copen' = copen
      PROVE  UNCHANGED Contract!vars
  BY <1>1, <1>3 DEF Contract!vars, cvalue, cview, copen
<1>4. ASSUME UNCHANGED window, copen, ~copen'
      PROVE  Contract!Next
  BY <1>1, <1>4 DEF Contract!Next, Contract!Close, cvalue, cview, copen
<1>5. CASE SnapshotTaken \/ PollSucceeds
  <2>1. window' = recent /\ copen /\ copen'
    BY <1>5 DEF SnapshotTaken, PollSucceeds, ListSucceeds, ListReturns, copen
  <2>2. announced => \A i \in Item : kept[KeyOf(i)] \in window[i]
    BY <1>5 DEF SnapshotTaken, PollSucceeds, ListSucceeds, ListReturns, IInv, PollInv, Offers, InSyncTold,
                Replica, Progress
  <2>3. \A i \in Item : Value(i) \in window'[i] /\ window'[i] \subseteq window[i]
    BY <2>1 DEF IInv, PollInv, Windows
  <2> QED BY <1>1, <2>1, <2>2, <2>3
          DEF Contract!Next, Contract!Advance, Contract!Within, cvalue, cview, copen
<1>6. CASE SubscribeTooLate \/ SnapshotFails \/ Stop \/ PollFails \/ EmitGivesUp
  <2>1. UNCHANGED window
    BY <1>6 DEF SubscribeTooLate, SnapshotFails, Stop, PollFails, EmitGivesUp, ListFails,
                history
  <2>2. copen
    BY <1>6 DEF SubscribeTooLate, SnapshotFails, Stop, PollFails, EmitGivesUp, ListFails,
                ListReturns, copen, IInv, PollInv, Offers, InSyncTold
  <2> QED BY <1>3, <1>4, <2>1, <2>2 DEF copen
<1>7. CASE Subscribe \/ Tick \/ ReplayDone \/ DiffDone \/ GoneDone
  <2>1. UNCHANGED window /\ copen /\ copen'
    BY <1>7 DEF Subscribe, Tick, ReplayDone, DiffDone, GoneDone, BeginList, history, copen
  <2> QED BY <1>3, <2>1 DEF copen
<1>8. ASSUME NEW i \in Item, ListReads(i)
      PROVE  UNCHANGED Contract!vars
  BY <1>2, <1>8 DEF ListReads, history
<1>9. ASSUME NEW r \in metas, ReplayNext(r) \/ DiffSame(r) \/ DiffChanged(r)
      PROVE  UNCHANGED Contract!vars
  BY <1>2, <1>9 DEF ReplayNext, DiffSame, DiffChanged, history
<1>10. ASSUME NEW k \in gone, GoneNext(k)
       PROVE  UNCHANGED Contract!vars
  BY <1>2, <1>10 DEF GoneNext, history
<1> QED BY <1>5, <1>6, <1>7, <1>8, <1>9, <1>10 DEF LoopStep

\* Poll keeps the promise of WatchSecrets: what a subscriber holds may lag by one
\* window but never lies, and IN_SYNC is announced once, when it is in sync.
THEOREM Implements == PollerSpec => KeepsContract
<1>1. PollerInit => Contract!Init
  BY KeyAssumption DEF PollerInit, PollInit, Contract!Init
<1>2. IInv /\ [PollerNext]_pollerVars => [Contract!Next]_(Contract!vars)
  <2> SUFFICES ASSUME IInv, [PollerNext]_pollerVars
               PROVE  [Contract!Next]_(Contract!vars)
    OBVIOUS
  <2>1. CASE BackendStep /\ UNCHANGED <<kept, announced>>
    BY <2>1, ChangeIsChange DEF Contract!Next
  <2>2. CASE CtxEnds /\ UNCHANGED <<kept, announced>>
    BY <2>2 DEF CtxEnds, Contract!vars, Value, backendVars, loopVars, history
  <2>3. CASE LoopStep /\ UNCHANGED <<kept, announced>>
    BY <2>3, LoopImplements
  <2>4. CASE Receive
    BY <2>4, ReceiveIsNotifyOrSync
  <2>5. CASE UNCHANGED pollerVars
    BY <2>5 DEF pollerVars, pollVars, Contract!vars, Value, backendVars, loopVars, history
  <2> QED BY <2>1, <2>2, <2>3, <2>4, <2>5 DEF PollerNext
<1> QED BY <1>1, <1>2, Invariance, PTL DEF PollerSpec, PollerSafety, KeepsContract, Contract!Spec
=============================================================================
