------------------------- MODULE BitwardenStore_proofs -------------------------
(***************************************************************************)
(* Proofs about BitwardenStore, for any number of calls, objects, values   *)
(* and notes, and any number of changes made by people.                    *)
(***************************************************************************)
EXTENDS BitwardenStore, FiniteSetTheorems, TLAPS

-----------------------------------------------------------------------------
(* The inductive invariant. *)

CallRecord ==
    [op : Op \cup {ListOp, NoOp},
     at : {"new", "called", "resolved", "create", "update", "fetch", "done"},
     outcome : Outcome, id : Object \cup {None}, note : Note, created : BOOLEAN,
     ids : SUBSET Object]

ProjectTypes ==
    /\ writable \in BOOLEAN
    /\ objects \in Projects
    /\ outside \in 0..MaxOutside

\* What has been seen of the project, at some moment of a call or at all of them.
Bore(moments, i)        == \E p \in moments : i \in Bearers(p)
BoreNone(moments)       == \E p \in moments : Bearers(p) = {}
Spelt(moments, i)       == \E p \in moments : i \in Shown(p)
SpeltAlways(moments, i) == \A p \in moments : i \in Shown(p)
Noted(moments, i, n)    == \E p \in moments : p[i] # None /\ p[i].note = n
Valued(moments, i, v)   == \E p \in moments : p[i] # None /\ p[i].value = v

\* A call that has not returned has told nothing; a Put or Delete under way may write.
Fit(c) ==
    /\ call[c].at # "done" => call[c].outcome = Pending /\ ~call[c].created
    /\ call[c].at \notin {"new", "done"} => call[c].op \in Op \cup {ListOp}
    /\ call[c].at \in {"resolved", "create", "update"} =>
          call[c].op \in Op /\ (Asks(c, "put") => call[c].op.value \in Value)
    /\ call[c].at \in {"create", "update"} => Asks(c, "put")
    /\ call[c].at = "fetch" => Asks(c, "list")

\* What a call goes by was so at a moment of the call: the objects themselves may
\* have changed since.
Informed(c) ==
    /\ Running(c) => objects \in during[c]
    /\ call[c].at \in {"resolved", "update"} =>
          call[c].id \in Object /\ Bore(during[c], call[c].id)
    /\ call[c].at = "update" => Noted(during[c], call[c].id, call[c].note)
    /\ call[c].at = "create" => BoreNone(during[c])
    /\ call[c].at = "fetch" => \A i \in Object : SpeltAlways(during[c], i) => i \in call[c].ids

\* FoundIsHeld, AbsentWhenTold and ListedIsHeld of one call.
Judged(c) ==
    /\ \A v \in Value : call[c].outcome = Found(v) =>
          \E i \in Object : Bore(during[c], i) /\ Valued(during[c], i, v)
    /\ call[c].outcome = NotFound \/ call[c].created => BoreNone(during[c])
    /\ Asks(c, "list") /\ call[c].outcome = Ok =>
          /\ \A i \in call[c].ids : Spelt(during[c], i)
          /\ \A i \in Object : SpeltAlways(during[c], i) => i \in call[c].ids

Story(c) == Fit(c) /\ Informed(c) /\ Judged(c)

BitwardenInv ==
    /\ ProjectTypes
    /\ call \in [Call -> CallRecord]
    /\ during \in [Call -> SUBSET Projects]
    /\ \A c \in Call : Story(c)

-----------------------------------------------------------------------------
(* Operations, outcomes and moments. *)

LEMMA OutcomesDiffer ==
    /\ Pending # Ok /\ Pending # NotFound /\ Pending # ReadOnly /\ Pending # Failed
    /\ Ok # NotFound /\ Ok # ReadOnly /\ Ok # Failed /\ NotFound # Failed /\ NotFound # ReadOnly
    /\ {Pending, Ok, NotFound, ReadOnly, Failed} \subseteq Outcome
    /\ \A v \in Value : Found(v) \in Outcome /\ Found(v) \notin {Pending, Ok, NotFound, ReadOnly, Failed}
    /\ \A v, w : Found(v) = Found(w) => v = w
BY DEF Pending, Ok, NotFound, ReadOnly, Failed, Ended, Found, Outcome

LEMMA Operations ==
    /\ ListOp \notin Op /\ ListOp.kind = "list"
    /\ \A o \in Op : /\ o.kind \in {"get", "put", "delete"}
                     /\ Verdict(o) \in {Pending, ReadOnly, Failed}
                     /\ Verdict(o) = Pending /\ o.kind = "put" => o.value \in Value
    /\ Verdict(ListOp) = Pending
BY OutcomesDiffer DEF ListOp, Op, Verdict

\* More moments show more, and leave less to have been so all along.
LEMMA MoreMoments ==
    ASSUME NEW few, NEW many, few \subseteq many
    PROVE  /\ \A i : Bore(few, i) => Bore(many, i)
           /\ BoreNone(few) => BoreNone(many)
           /\ \A i : Spelt(few, i) => Spelt(many, i)
           /\ \A i : SpeltAlways(many, i) => SpeltAlways(few, i)
           /\ \A i, n : Noted(few, i, n) => Noted(many, i, n)
           /\ \A i, v : Valued(few, i, v) => Valued(many, i, v)
BY DEF Bore, BoreNone, Spelt, SpeltAlways, Noted, Valued

LEMMA ThisMoment ==
    ASSUME NEW moments, objects \in moments
    PROVE  /\ \A i \in Matches : Bore(moments, i)
           /\ Matches = {} => BoreNone(moments)
           /\ \A i \in Shown(objects) : Spelt(moments, i)
           /\ \A i : SpeltAlways(moments, i) => i \in Shown(objects)
           /\ \A i \in Object : Exists(i) =>
                 Noted(moments, i, objects[i].note) /\ Valued(moments, i, objects[i].value)
BY DEF Bore, BoreNone, Spelt, SpeltAlways, Noted, Valued, Matches, Exists

\* An object that is there has a value and a note.
LEMMA Objects ==
    ASSUME ProjectTypes, NEW i \in Object
    PROVE  /\ Exists(i) => objects[i].value \in Value /\ objects[i].note \in Note
           /\ \A secret \in Secret \cup {None} : Become(i, secret) =>
                 objects' \in Projects /\ objects'[i] = secret
BY DEF ProjectTypes, Projects, Secret, Exists, Become

-----------------------------------------------------------------------------
(* What a step does to the calls. *)

\* What Observe does to one call.
Observes(c) ==
    during'[c] = IF Running(c)' THEN during[c] \cup {objects'} ELSE during[c]

LEMMA ObserveEach ==
    ASSUME Observe, during \in [Call -> SUBSET Projects], objects' \in Projects
    PROVE  during' \in [Call -> SUBSET Projects] /\ \A c \in Call : Observes(c)
BY DEF Observe, Observes, Running

\* Whatever happens to the project, what a call has seen of it remains so.
LEMMA Bystander ==
    ASSUME NEW d \in Call, Story(d), call'[d] = call[d], Observes(d) PROVE Story(d)'
<1>1. during[d] \subseteq during'[d] /\ (Running(d)' => objects' \in during'[d])
  BY DEF Observes
<1>2. CASE Running(d)
  <2>1. Fit(d)'
    BY DEF Story, Fit, Asks
  <2>2. Informed(d)'
    BY <1>1, MoreMoments DEF Story, Informed
  <2>3. call[d].outcome = Pending /\ ~call[d].created
    BY <1>2 DEF Story, Fit, Running
  <2>4. Judged(d)'
    BY <2>3, OutcomesDiffer DEF Judged
  <2> QED BY <2>1, <2>2, <2>4 DEF Story
<1>3. CASE ~Running(d)
  <2>1. during'[d] = during[d]
    BY <1>3 DEF Observes, Running
  <2> QED BY <1>3, <2>1 DEF Story, Fit, Informed, Judged, Running, Asks
<1> QED BY <1>2, <1>3

LEMMA OneCall ==
    ASSUME BitwardenInv, NEW c \in Call, NEW rec \in CallRecord, call' = [call EXCEPT ![c] = rec],
           Observe, ProjectTypes', (call'[c] = rec /\ Observes(c)) => Story(c)'
    PROVE  BitwardenInv' /\ call'[c] = rec /\ \A d \in Call \ {c} : call'[d] = call[d]
<1>1. call' \in [Call -> CallRecord] /\ call'[c] = rec /\ \A d \in Call \ {c} : call'[d] = call[d]
  BY DEF BitwardenInv
<1>2. during' \in [Call -> SUBSET Projects] /\ \A d \in Call : Observes(d)
  BY ObserveEach DEF BitwardenInv, ProjectTypes
<1>3. \A d \in Call \ {c} : Story(d)'
  BY <1>1, <1>2, Bystander DEF BitwardenInv
<1> QED BY <1>1, <1>2, <1>3 DEF BitwardenInv

LEMMA QuietIs ==
    ASSUME BitwardenInv, Quiet
    PROVE  ProjectTypes' /\ Observe /\ UNCHANGED <<writable, objects, outside>>
BY DEF BitwardenInv, ProjectTypes, Quiet

-----------------------------------------------------------------------------
(* The steps of a call. *)

LEMMA BeginKeeps == ASSUME BitwardenInv, NEW c \in Call, Begin(c) PROVE BitwardenInv'
<1>1. PICK o \in Op \cup {ListOp} : call' = [call EXCEPT ![c].op = o, ![c].at = "called"]
  BY DEF Begin, Begins
<1> DEFINE rec == [call[c] EXCEPT !.op = o, !.at = "called"]
<1>2. call[c] \in CallRecord /\ Story(c) /\ call[c].at = "new"
  BY DEF BitwardenInv, Begin, Begins
<1>3. /\ rec \in CallRecord /\ rec.at = "called" /\ rec.op = o
      /\ rec.outcome = Pending /\ ~rec.created
  BY <1>2 DEF CallRecord, Story, Fit
<1>4. call' = [call EXCEPT ![c] = rec]
  BY <1>1
<1> HIDE DEF rec
<1>5. ASSUME call'[c] = rec, Observes(c) PROVE Story(c)'
  BY <1>3, <1>5, OutcomesDiffer DEF Story, Fit, Informed, Judged, Observes, Running
<1> QED BY <1>3, <1>4, <1>5, QuietIs, OneCall DEF Begin

\* A call that ends having found, or having been told, nothing but an error.
LEMMA FailureKeeps ==
    ASSUME BitwardenInv, NEW c \in Call, Running(c), NEW r \in {Ok, ReadOnly, Failed}, Ends(c, r),
           r = Ok => ~Asks(c, "list"), Observe, ProjectTypes'
    PROVE  BitwardenInv'
<1> DEFINE rec == [call[c] EXCEPT !.at = "done", !.outcome = r]
<1>1. call[c] \in CallRecord /\ Story(c)
  BY DEF BitwardenInv
<1>2. /\ rec \in CallRecord /\ rec.at = "done" /\ rec.op = call[c].op
      /\ rec.outcome = r /\ rec.created = call[c].created /\ ~rec.created
  BY <1>1, OutcomesDiffer DEF CallRecord, Story, Fit, Running
<1>3. call' = [call EXCEPT ![c] = rec]
  BY DEF Ends
<1> HIDE DEF rec
<1>4. ASSUME call'[c] = rec PROVE Story(c)'
  BY <1>2, <1>4, OutcomesDiffer DEF Story, Fit, Informed, Judged, Running, Asks
<1> QED BY <1>2, <1>3, <1>4, OneCall

LEMMA TurnAwayKeeps == ASSUME BitwardenInv, NEW c \in Call, TurnAway(c) PROVE BitwardenInv'
<1>1. call[c].op \in Op \cup {ListOp} /\ Running(c) /\ Quiet
  BY DEF BitwardenInv, TurnAway, TurnsAway, Story, Fit, Running
<1>2. PICK r \in {ReadOnly, Failed} : Ends(c, r)
  BY <1>1, Operations DEF TurnAway, TurnsAway
<1> QED BY <1>1, <1>2, QuietIs, OutcomesDiffer, FailureKeeps

LEMMA IsGoneKeeps == ASSUME BitwardenInv, NEW c \in Call, IsGone(c) PROVE BitwardenInv'
BY QuietIs, OutcomesDiffer, FailureKeeps DEF IsGone, Running

\* The listing: the object is found, or is not there at this moment.
LEMMA ResolveKeeps == ASSUME BitwardenInv, NEW c \in Call, Resolve(c) PROVE BitwardenInv'
<1>1. /\ call[c] \in CallRecord /\ Story(c) /\ call[c].at = "called" /\ Running(c)
      /\ objects \in during[c] /\ call[c].op \in Op
      /\ (Asks(c, "put") => call[c].op.value \in Value) /\ ~Asks(c, "list")
  BY Operations DEF BitwardenInv, Resolve, Story, Fit, Informed, Running, Asks
<1>2. /\ ProjectTypes' /\ Observe /\ UNCHANGED <<writable, objects, outside>>
  BY QuietIs DEF Resolve
<1>3. Observes(c) /\ Running(c)' => during'[c] = during[c]
  BY <1>1, <1>2 DEF Observes, BitwardenInv
<1>4. ASSUME NEW i \in Matches, call' = [call EXCEPT ![c].at = "resolved", ![c].id = i]
      PROVE  BitwardenInv'
  <2> DEFINE rec == [call[c] EXCEPT !.at = "resolved", !.id = i]
  <2>1. i \in Object
    BY DEF Matches, Bearers, Named
  <2>2. /\ rec \in CallRecord /\ rec.at = "resolved" /\ rec.op = call[c].op /\ rec.id = i
        /\ rec.outcome = Pending /\ ~rec.created
    BY <1>1, <2>1 DEF CallRecord, Story, Fit
  <2>3. call' = [call EXCEPT ![c] = rec]
    BY <1>4
  <2> HIDE DEF rec
  <2>4. ASSUME call'[c] = rec, Observes(c) PROVE Story(c)'
    <3>1. Running(c)' /\ during'[c] = during[c]
      BY <1>3, <2>2, <2>4 DEF Running
    <3> QED BY <1>1, <1>2, <2>1, <2>2, <2>4, <3>1, ThisMoment, OutcomesDiffer
            DEF Story, Fit, Informed, Judged, Asks
  <2> QED BY <1>2, <2>2, <2>3, <2>4, OneCall
<1>5. ASSUME Matches = {}, Asks(c, "put"), Goes(c, "create") PROVE BitwardenInv'
  <2> DEFINE rec == [call[c] EXCEPT !.at = "create"]
  <2>1. /\ rec \in CallRecord /\ rec.at = "create" /\ rec.op = call[c].op
        /\ rec.outcome = Pending /\ ~rec.created
    BY <1>1 DEF CallRecord, Story, Fit
  <2>2. call' = [call EXCEPT ![c] = rec]
    BY <1>5 DEF Goes
  <2> HIDE DEF rec
  <2>3. ASSUME call'[c] = rec, Observes(c) PROVE Story(c)'
    <3>1. Running(c)' /\ during'[c] = during[c]
      BY <1>3, <2>1, <2>3 DEF Running
    <3> QED BY <1>1, <1>2, <1>5, <2>1, <2>3, <3>1, ThisMoment, OutcomesDiffer
            DEF Story, Fit, Informed, Judged, Asks
  <2> QED BY <1>2, <2>1, <2>2, <2>3, OneCall
<1>6. ASSUME Matches = {}, Ends(c, NotFound) PROVE BitwardenInv'
  <2> DEFINE rec == [call[c] EXCEPT !.at = "done", !.outcome = NotFound]
  <2>1. /\ rec \in CallRecord /\ rec.at = "done" /\ rec.op = call[c].op
        /\ rec.outcome = NotFound /\ ~rec.created
    BY <1>1, OutcomesDiffer DEF CallRecord, Story, Fit
  <2>2. call' = [call EXCEPT ![c] = rec]
    BY <1>6 DEF Ends
  <2> HIDE DEF rec
  <2>3. ASSUME call'[c] = rec, Observes(c) PROVE Story(c)'
    <3>1. ~Running(c)' /\ during'[c] = during[c]
      BY <2>1, <2>3 DEF Running, Observes
    <3> QED BY <1>1, <1>6, <2>1, <2>3, <3>1, ThisMoment, OutcomesDiffer
            DEF Story, Fit, Informed, Judged, Asks
  <2> QED BY <1>2, <2>1, <2>2, <2>3, OneCall
<1> QED BY <1>4, <1>5, <1>6 DEF Resolve

\* A call that is answered from the project as it is at this moment, and ends.
LEMMA EndsNow ==
    ASSUME BitwardenInv, NEW c \in Call, Running(c), NEW rec \in CallRecord,
           call' = [call EXCEPT ![c] = rec], rec.at = "done", Quiet,
           (call'[c] = rec /\ during'[c] = during[c]) => Story(c)'
    PROVE  BitwardenInv'
<1>1. ASSUME call'[c] = rec, Observes(c) PROVE Story(c)'
  <2>1. during'[c] = during[c]
    BY <1>1 DEF Observes, Running
  <2> QED BY <1>1, <2>1
<1> QED BY <1>1, QuietIs, OneCall

\* One that goes on, by what it has seen at this moment.
LEMMA GoesOnNow ==
    ASSUME BitwardenInv, NEW c \in Call, Running(c), NEW rec \in CallRecord,
           call' = [call EXCEPT ![c] = rec], rec.at \notin {"new", "done"}, Quiet,
           (call'[c] = rec /\ during'[c] = during[c] /\ UNCHANGED objects) => Story(c)'
    PROVE  BitwardenInv'
<1>1. ASSUME call'[c] = rec, Observes(c) PROVE Story(c)'
  <2>1. objects \in during[c] /\ UNCHANGED objects
    BY QuietIs DEF BitwardenInv, Story, Informed
  <2>2. during'[c] = during[c]
    BY <1>1, <2>1 DEF Observes, Running, BitwardenInv
  <2> QED BY <1>1, <2>1, <2>2
<1> QED BY <1>1, QuietIs, OneCall

LEMMA GetKeeps == ASSUME BitwardenInv, NEW c \in Call, Get(c) PROVE BitwardenInv'
<1> DEFINE found == objects[call[c].id].value
           rec == [call[c] EXCEPT !.at = "done", !.outcome = Found(found)]
<1>1. /\ call[c] \in CallRecord /\ Story(c) /\ Running(c) /\ Asks(c, "get")
      /\ call[c].id \in Object /\ Exists(call[c].id) /\ objects \in during[c]
      /\ Bore(during[c], call[c].id) /\ ~call[c].created /\ call[c].op \in Op
  BY DEF BitwardenInv, Get, At, Story, Fit, Informed, Running
<1>2. found \in Value /\ Valued(during[c], call[c].id, found)
  BY <1>1, Objects, ThisMoment DEF BitwardenInv
<1>3. call' = [call EXCEPT ![c] = rec]
  BY DEF Get, Ends
<1> HIDE DEF found
<1>4. /\ rec \in CallRecord /\ rec.at = "done" /\ rec.op = call[c].op
      /\ rec.outcome = Found(found) /\ ~rec.created
  BY <1>1, <1>2, OutcomesDiffer DEF CallRecord
<1> HIDE DEF rec
<1>5. ASSUME call'[c] = rec, during'[c] = during[c] PROVE Story(c)'
  <2>1. Fit(c)' /\ Informed(c)'
    BY <1>4, <1>5 DEF Fit, Informed, Running
  <2>2. \A v \in Value : call'[c].outcome = Found(v) => v = found
    BY <1>2, <1>4, <1>5, OutcomesDiffer
  <2>3. Judged(c)'
    BY <1>1, <1>2, <1>4, <1>5, <2>2, OutcomesDiffer DEF Judged, Asks
  <2> QED BY <2>1, <2>3 DEF Story
<1> QED BY <1>1, <1>3, <1>4, <1>5, EndsNow DEF Get

LEMMA ReadNoteKeeps == ASSUME BitwardenInv, NEW c \in Call, ReadNote(c) PROVE BitwardenInv'
<1> DEFINE note == objects[call[c].id].note
           rec == [call[c] EXCEPT !.at = "update", !.note = note]
<1>1. /\ call[c] \in CallRecord /\ Story(c) /\ Running(c) /\ Asks(c, "put")
      /\ call[c].id \in Object /\ Exists(call[c].id) /\ objects \in during[c]
      /\ Bore(during[c], call[c].id)
      /\ ~call[c].created /\ call[c].outcome = Pending
      /\ call[c].op \in Op /\ call[c].op.value \in Value
  BY DEF BitwardenInv, ReadNote, At, Story, Fit, Informed, Running
<1>2. note \in Note /\ Noted(during[c], call[c].id, note)
  BY <1>1, Objects, ThisMoment DEF BitwardenInv
<1>3. call' = [call EXCEPT ![c] = rec]
  BY DEF ReadNote
<1> HIDE DEF note
<1>4. /\ rec \in CallRecord /\ rec.at = "update" /\ rec.op = call[c].op /\ rec.id = call[c].id
      /\ rec.note = note /\ rec.outcome = Pending /\ ~rec.created
  BY <1>1, <1>2 DEF CallRecord
<1> HIDE DEF rec
<1>5. ASSUME call'[c] = rec, during'[c] = during[c], UNCHANGED objects PROVE Story(c)'
  BY <1>1, <1>2, <1>4, <1>5, OutcomesDiffer DEF Story, Fit, Informed, Judged, Asks
<1> QED BY <1>1, <1>3, <1>4, <1>5, GoesOnNow DEF ReadNote

\* The names of the project, read at one moment.
LEMMA ListNamesKeeps == ASSUME BitwardenInv, NEW c \in Call, ListNames(c) PROVE BitwardenInv'
<1>1. /\ call[c] \in CallRecord /\ Story(c) /\ Running(c) /\ Asks(c, "list")
      /\ call[c].at = "called" /\ objects \in during[c] /\ Quiet
      /\ call[c].op \in Op \cup {ListOp} /\ call[c].outcome = Pending /\ ~call[c].created
  BY DEF BitwardenInv, ListNames, At, Story, Fit, Informed, Running
<1>2. PICK others \in SUBSET {i \in Object : Exists(i) /\ i \notin Shown(objects)} :
         LET ids == Shown(objects) \cup others
         IN  call' = [call EXCEPT ![c].ids = ids,
                                  ![c].at = IF ids = {} THEN "done" ELSE "fetch",
                                  ![c].outcome = IF ids = {} THEN Ok ELSE @]
  BY DEF ListNames
<1> DEFINE ids == Shown(objects) \cup others
<1>3. ids \in SUBSET Object /\ Shown(objects) \subseteq ids
  BY DEF Shown, Named
<1>4. \A i \in Object : SpeltAlways(during[c], i) => i \in ids
  BY <1>1, <1>3, ThisMoment
<1>5. CASE ids = {}
  <2> DEFINE rec == [call[c] EXCEPT !.ids = {}, !.at = "done", !.outcome = Ok]
  <2>1. call' = [call EXCEPT ![c].ids = {}, ![c].at = "done", ![c].outcome = Ok]
    BY <1>2, <1>5
  <2>2. call' = [call EXCEPT ![c] = rec]
    BY <2>1
  <2>3. /\ rec \in CallRecord /\ rec.at = "done" /\ rec.op = call[c].op
        /\ rec.outcome = Ok /\ ~rec.created /\ rec.ids = {}
    BY <1>1, OutcomesDiffer DEF CallRecord
  <2> HIDE DEF rec
  <2>4. ASSUME call'[c] = rec, during'[c] = during[c] PROVE Story(c)'
    BY <1>1, <1>4, <1>5, <2>3, <2>4, OutcomesDiffer
       DEF Story, Fit, Informed, Judged, Asks, Running
  <2> QED BY <1>1, <2>2, <2>3, <2>4, EndsNow
<1>6. CASE ids # {}
  <2>1. call' = [call EXCEPT ![c].ids = ids, ![c].at = "fetch", ![c].outcome = call[c].outcome]
    BY <1>2, <1>6
  <2> HIDE DEF ids
  <2> DEFINE rec == [call[c] EXCEPT !.ids = ids, !.at = "fetch", !.outcome = call[c].outcome]
  <2>2. call' = [call EXCEPT ![c] = rec]
    BY <2>1
  <2>3. /\ rec \in CallRecord /\ rec.at = "fetch" /\ rec.op = call[c].op
        /\ rec.outcome = Pending /\ ~rec.created /\ rec.ids = ids
    BY <1>1, <1>3 DEF CallRecord
  <2> HIDE DEF rec
  <2>4. ASSUME call'[c] = rec, during'[c] = during[c], UNCHANGED objects PROVE Story(c)'
    BY <1>1, <1>4, <2>3, <2>4, OutcomesDiffer
       DEF Story, Fit, Informed, Judged, Asks, Running
  <2> QED BY <1>1, <2>2, <2>3, <2>4, GoesOnNow
<1> QED BY <1>5, <1>6

LEMMA GetByIDsKeeps == ASSUME BitwardenInv, NEW c \in Call, GetByIDs(c) PROVE BitwardenInv'
<1>1. /\ call[c] \in CallRecord /\ Story(c) /\ Running(c) /\ Asks(c, "list")
      /\ call[c].at = "fetch" /\ objects \in during[c] /\ Quiet
      /\ call[c].op \in Op \cup {ListOp} /\ ~call[c].created
      /\ \A i \in Object : SpeltAlways(during[c], i) => i \in call[c].ids
  BY DEF BitwardenInv, GetByIDs, At, Story, Fit, Informed, Running
<1>2. ASSUME call' = [call EXCEPT ![c].at = "done", ![c].outcome = Ok, ![c].ids = @ \cap Shown(objects)]
      PROVE  BitwardenInv'
  <2> DEFINE ids == call[c].ids \cap Shown(objects)
             rec == [call[c] EXCEPT !.at = "done", !.outcome = Ok, !.ids = ids]
  <2>1. /\ ids \in SUBSET Object /\ \A i \in ids : Spelt(during[c], i)
        /\ \A i \in Object : SpeltAlways(during[c], i) => i \in ids
    BY <1>1, ThisMoment DEF CallRecord
  <2>2. call' = [call EXCEPT ![c] = rec]
    BY <1>2
  <2> HIDE DEF ids
  <2>3. /\ rec \in CallRecord /\ rec.at = "done" /\ rec.op = call[c].op
        /\ rec.outcome = Ok /\ ~rec.created /\ rec.ids = ids
    BY <1>1, <2>1, OutcomesDiffer DEF CallRecord
  <2> HIDE DEF rec
  <2>4. ASSUME call'[c] = rec, during'[c] = during[c] PROVE Story(c)'
    BY <2>1, <2>3, <2>4, OutcomesDiffer DEF Story, Fit, Informed, Judged, Running
  <2> QED BY <1>1, <2>2, <2>3, <2>4, EndsNow
<1>3. ASSUME Ends(c, Failed) PROVE BitwardenInv'
  BY <1>1, <1>3, QuietIs, OutcomesDiffer, FailureKeeps
<1> QED BY <1>2, <1>3 DEF GetByIDs

-----------------------------------------------------------------------------
(* The steps that write, and those of others. *)

\* What is written is an object with a value and a note, or none.
LEMMA Writes ==
    ASSUME BitwardenInv, NEW c \in Call, Creates(c) \/ Updates(c) \/ Deletes(c),
           UNCHANGED writable, outside' \in 0..MaxOutside
    PROVE  /\ ProjectTypes' /\ Running(c) /\ ~Asks(c, "list")
           /\ Updates(c) => Noted(during[c], call[c].id, objects'[call[c].id].note)
<1>1. /\ call[c] \in CallRecord /\ Story(c) /\ Running(c) /\ call[c].op \in Op /\ ~Asks(c, "list")
      /\ Asks(c, "put") => call[c].op.value \in Value
  BY Operations DEF BitwardenInv, Creates, Updates, Deletes, At, Story, Fit, Running, Asks
<1>2. CASE Creates(c)
  <2>1. PICK i \in Object :
           Become(i, [name |-> KeyName, value |-> call[c].op.value, note |-> NoNote])
    BY <1>2 DEF Creates
  <2>2. [name |-> KeyName, value |-> call[c].op.value, note |-> NoNote] \in Secret
    BY <1>1, <1>2, BitwardenAssumption DEF Creates, At, Secret
  <2>3. objects' \in Projects
    BY <2>1, <2>2, Objects DEF BitwardenInv
  <2>4. ~Updates(c)
    BY <1>2 DEF Creates, Updates, At
  <2> QED BY <1>1, <2>3, <2>4 DEF ProjectTypes, BitwardenInv
<1>3. CASE Updates(c)
  <2> DEFINE secret == [name |-> KeyName, value |-> call[c].op.value, note |-> call[c].note]
  <2>1. secret \in Secret /\ secret.note = call[c].note
    BY <1>1, <1>3, BitwardenAssumption DEF Updates, At, Secret, CallRecord
  <2>2. call[c].id \in Object /\ Noted(during[c], call[c].id, call[c].note)
    BY <1>1, <1>3 DEF Updates, At, Story, Informed
  <2>3. Become(call[c].id, secret)
    BY <1>3 DEF Updates
  <2> HIDE DEF secret
  <2>4. objects' \in Projects /\ objects'[call[c].id] = secret
    BY <2>1, <2>2, <2>3, Objects DEF BitwardenInv
  <2> QED BY <1>1, <2>1, <2>2, <2>4 DEF ProjectTypes, BitwardenInv
<1>4. CASE Deletes(c)
  <2>1. call[c].id \in Object /\ Become(call[c].id, None)
    BY <1>1, <1>4 DEF Deletes, At, Story, Informed
  <2>2. objects' \in Projects
    BY <2>1, Objects DEF BitwardenInv
  <2>3. ~Updates(c)
    BY <1>4 DEF Deletes, Updates, At
  <2> QED BY <1>1, <2>2, <2>3 DEF ProjectTypes, BitwardenInv
<1> QED BY <1>2, <1>3, <1>4

LEMMA CreateKeeps == ASSUME BitwardenInv, NEW c \in Call, Create(c) PROVE BitwardenInv'
<1> DEFINE rec == [call[c] EXCEPT !.at = "done", !.outcome = Ok, !.created = TRUE]
<1>1. /\ call[c] \in CallRecord /\ Story(c) /\ Asks(c, "put") /\ ~Asks(c, "list")
      /\ BoreNone(during[c]) /\ call[c].op \in Op
  BY DEF BitwardenInv, Create, Creates, At, Story, Fit, Informed, Asks
<1>2. /\ rec \in CallRecord /\ rec.at = "done" /\ rec.op = call[c].op
      /\ rec.outcome = Ok /\ rec.created
  BY <1>1, OutcomesDiffer DEF CallRecord
<1>3. call' = [call EXCEPT ![c] = rec]
  BY DEF Create
<1> HIDE DEF rec
<1>4. ProjectTypes' /\ Observe
  BY Writes DEF Create, BitwardenInv, ProjectTypes
<1>5. ASSUME call'[c] = rec, Observes(c) PROVE Story(c)'
  <2>1. during'[c] = during[c]
    BY <1>2, <1>5 DEF Observes, Running
  <2> QED BY <1>1, <1>2, <1>5, <2>1, OutcomesDiffer DEF Story, Fit, Informed, Judged, Running, Asks
<1> QED BY <1>2, <1>3, <1>4, <1>5, OneCall

LEMMA OverwriteKeeps ==
    ASSUME BitwardenInv, NEW c \in Call, Update(c) \/ Delete(c) PROVE BitwardenInv'
<1>1. /\ Ends(c, Ok) /\ Observe
      /\ Updates(c) \/ Deletes(c)
      /\ UNCHANGED writable /\ outside' \in 0..MaxOutside
  BY DEF Update, Delete, BitwardenInv, ProjectTypes
<1> QED BY <1>1, Writes, FailureKeeps

LEMMA FailsKeeps == ASSUME BitwardenInv, NEW c \in Call, Fails(c) PROVE BitwardenInv'
<1>1. /\ Ends(c, Failed) /\ Observe /\ UNCHANGED writable /\ outside' \in 0..MaxOutside
  BY BitwardenAssumption DEF Fails, BitwardenInv, ProjectTypes
<1>2. CASE Calls(c) /\ UNCHANGED objects
  BY <1>1, <1>2, OutcomesDiffer, FailureKeeps DEF Calls, BitwardenInv, ProjectTypes
<1>3. CASE Creates(c) \/ Updates(c) \/ Deletes(c)
  BY <1>1, <1>3, Writes, OutcomesDiffer, FailureKeeps
<1> QED BY <1>2, <1>3 DEF Fails

LEMMA ElsewhereKeeps ==
    ASSUME BitwardenInv, UNCHANGED call, ProjectTypes', Observe PROVE BitwardenInv'
<1>1. during' \in [Call -> SUBSET Projects] /\ \A d \in Call : Observes(d)
  BY ObserveEach DEF BitwardenInv, ProjectTypes
<1>2. \A d \in Call : Story(d)'
  BY <1>1, Bystander DEF BitwardenInv
<1> QED BY <1>1, <1>2 DEF BitwardenInv

LEMMA OutsiderKeeps == ASSUME BitwardenInv, Outsider PROVE BitwardenInv'
<1>1. /\ UNCHANGED <<writable, call>> /\ Observe /\ outside' \in 0..MaxOutside
  BY BitwardenAssumption DEF Outsider, BitwardenInv, ProjectTypes
<1>2. PICK i \in Object :
         \/ ~Exists(i) /\ \E secret \in Secret : Become(i, secret)
         \/ Exists(i) /\ Become(i, None)
         \/ Exists(i) /\ \E n \in Name : Become(i, [objects[i] EXCEPT !.name = n])
         \/ Exists(i) /\ \E n \in Note : Become(i, [objects[i] EXCEPT !.note = n])
  BY DEF Outsider
<1>3. Exists(i) => objects[i] \in Secret
  BY DEF Exists, BitwardenInv, ProjectTypes, Projects
<1>4. objects' \in Projects
  <2>1. \A n \in Name : Exists(i) => [objects[i] EXCEPT !.name = n] \in Secret
    BY <1>3 DEF Secret
  <2>2. \A n \in Note : Exists(i) => [objects[i] EXCEPT !.note = n] \in Secret
    BY <1>3 DEF Secret
  <2> QED BY <1>2, <2>1, <2>2, Objects DEF BitwardenInv
<1> QED BY <1>1, <1>4, ElsewhereKeeps DEF ProjectTypes, BitwardenInv

-----------------------------------------------------------------------------
(* The invariant of the adapter. *)

LEMMA InitEstablishes == Init => BitwardenInv
<1> SUFFICES ASSUME Init PROVE BitwardenInv
  OBVIOUS
<1>1. ProjectTypes
  BY BitwardenAssumption DEF Init, ProjectTypes
<1>2. call = [c \in Call |-> Idle] /\ Idle \in CallRecord
  BY OutcomesDiffer, BitwardenAssumption DEF Init, Idle, CallRecord
<1>3. \A c \in Call : Story(c)
  BY <1>2, OutcomesDiffer DEF Idle, Story, Fit, Informed, Judged, Running
<1> QED BY <1>1, <1>2, <1>3 DEF Init, BitwardenInv

LEMMA NextKeeps == ASSUME BitwardenInv, [Next]_vars PROVE BitwardenInv'
<1>1. ASSUME NEW c \in Call, Step(c) PROVE BitwardenInv'
  BY <1>1, BeginKeeps, TurnAwayKeeps, ResolveKeeps, IsGoneKeeps, ListNamesKeeps, GetByIDsKeeps,
     GetKeeps, CreateKeeps, ReadNoteKeeps, OverwriteKeeps, FailsKeeps DEF Step
<1>2. CASE UNCHANGED vars
  <2>1. \A c \in Call : Story(c)'
    BY <1>2 DEF vars, BitwardenInv, Story, Fit, Informed, Judged, Running, Asks
  <2> QED BY <1>2, <2>1 DEF vars, BitwardenInv, ProjectTypes
<1> QED BY <1>1, <1>2, OutsiderKeeps DEF Next

(* What an operation goes by was so at some moment while it ran, however     *)
(* often the project changes under it (bitwarden.go:54-218).                 *)
THEOREM BitwardenInvariance == Spec => []BitwardenInv
BY InitEstablishes, NextKeeps, PTL DEF Spec

(* Every variable keeps its type; no object is ever written without a value. *)
THEOREM BitwardenTypes == Spec => []TypeOK
<1>1. BitwardenInv => TypeOK
  BY DEF BitwardenInv, ProjectTypes, CallRecord, TypeOK
<1> QED BY <1>1, BitwardenInvariance, PTL

(* A value that Get returns was that of an object which bore the key's name  *)
(* while the Get ran (bitwarden.go:54-59).                                   *)
THEOREM BitwardenFoundIsHeld == Spec => []FoundIsHeld
<1>1. BitwardenInv => FoundIsHeld
  BY DEF BitwardenInv, Story, Judged, Bore, Valued, FoundIsHeld
<1> QED BY <1>1, BitwardenInvariance, PTL

(* NotFound, and an object a Put creates, mean that no object bore the key's *)
(* name at some moment of the operation (bitwarden.go:79-92 and 127-146).    *)
THEOREM BitwardenAbsentWhenTold == Spec => []AbsentWhenTold
<1>1. BitwardenInv => AbsentWhenTold
  BY DEF BitwardenInv, Story, Judged, BoreNone, AbsentWhenTold
<1> QED BY <1>1, BitwardenInvariance, PTL

(* What a List shows under the key had, while it ran, a name that ParseKey   *)
(* reads as the key, and nothing that had such names all along is left out   *)
(* (bitwarden.go:181 and 207).                                               *)
THEOREM BitwardenListedIsHeld == Spec => []ListedIsHeld
<1>1. BitwardenInv => ListedIsHeld
  BY DEF BitwardenInv, Story, Judged, Spelt, SpeltAlways, ListedIsHeld
<1> QED BY <1>1, BitwardenInvariance, PTL

\* A step of a call is the end of no other, and overwrites from "update" with Update alone.
LEMMA StepIsOwn ==
    ASSUME BitwardenInv, NEW c \in Call, Step(c)
    PROVE  /\ \A d \in Call \ {c} : call'[d] = call[d]
           /\ call[c].at = "update" /\ objects' # objects =>
                 Updates(c) /\ UNCHANGED writable /\ outside' \in 0..MaxOutside
<1>1. \A d \in Call \ {c} : call'[d] = call[d]
  BY DEF BitwardenInv, Step, Begin, Begins, TurnAway, TurnsAway, Resolve, IsGone, ListNames,
         GetByIDs, Get, Create, ReadNote, Update, Delete, Fails, Ends, Goes
<1>2. ASSUME call[c].at = "update", objects' # objects
      PROVE  Update(c) \/ (Fails(c) /\ Updates(c))
  BY <1>2 DEF Step, Begin, TurnAway, Resolve, IsGone, ListNames, GetByIDs, Get, Create, Creates,
              ReadNote, Delete, Deletes, Fails, Quiet, At
<1>3. Update(c) \/ Fails(c) => UNCHANGED writable /\ outside' \in 0..MaxOutside
  BY BitwardenAssumption DEF Update, Fails, BitwardenInv, ProjectTypes
<1> QED BY <1>1, <1>2, <1>3 DEF Update

(* The note a Put writes was that of the object at some moment of the Put    *)
(* (bitwarden.go:148).                                                       *)
THEOREM BitwardenNoteCarried == Spec => NoteCarried
<1> DEFINE Carried(c) ==
             (At(c, "put", "update") /\ Ending(c) /\ objects' # objects)
                 => \E p \in during[c] :
                       /\ p[call[c].id] # None
                       /\ p[call[c].id].note = objects'[call[c].id].note
<1>1. ASSUME BitwardenInv, NEW c \in Call, Step(c), NEW d \in Call PROVE Carried(d)
  <2>1. CASE d # c
    BY <1>1, <2>1, StepIsOwn DEF Ending, Running
  <2>2. CASE d = c
    BY <1>1, <2>2, StepIsOwn, Writes DEF At, Noted
  <2> QED BY <2>1, <2>2
<1>2. ASSUME Outsider, NEW d \in Call PROVE Carried(d)
  BY <1>2 DEF Outsider, Ending, Running
<1>3. BitwardenInv /\ [Next]_vars => [\A c \in Call : Carried(c)]_vars
  BY <1>1, <1>2 DEF Next
<1> QED BY <1>3, BitwardenInvariance, PTL DEF Spec, NoteCarried

--------------------------------------------------------------------------------
(* Where other spellings of the key's name do not come from. *)

\* Nobody changes the project but the adapters.
Unmeddled == [][~Outsider]_vars

\* List shows under the key the objects that Get, Put and Delete go by.
OneSpelling == Shown(objects) = Matches

LEMMA OneSpellingKeeps ==
    ASSUME BitwardenInv, OneSpelling, NEW c \in Call, Step(c) PROVE OneSpelling'
<1>1. KeyName \in Spelling
  BY BitwardenAssumption
<1>2. ASSUME NEW i \in Object, NEW s, Become(i, s), s = None \/ s.name = KeyName
      PROVE  OneSpelling'
  <2>1. objects'[i] = s /\ \A j \in Object \ {i} : objects'[j] = objects[j]
    BY <1>2 DEF Become, BitwardenInv, ProjectTypes, Projects
  <2> QED BY <1>1, <1>2, <2>1 DEF OneSpelling, Shown, Matches, Bearers, Named
<1>3. CASE UNCHANGED objects
  BY <1>3 DEF OneSpelling, Shown, Matches, Bearers, Named
<1>4. UNCHANGED objects \/ Creates(c) \/ Updates(c) \/ Deletes(c)
  BY DEF Step, Begin, TurnAway, Resolve, IsGone, ListNames, GetByIDs, Get, Create, ReadNote,
         Update, Delete, Fails, Quiet
<1>5. CASE Creates(c)
  BY <1>2, <1>5 DEF Creates
<1>6. CASE Updates(c) \/ Deletes(c)
  <2>1. call[c].id \in Object
    BY <1>6 DEF Updates, Deletes, At, BitwardenInv, Story, Informed
  <2> QED BY <1>2, <1>6, <2>1 DEF Updates, Deletes
<1> QED BY <1>3, <1>4, <1>5, <1>6

(* List and Get go by different tests of a name (bitwarden.go:194 against    *)
(* 87), and come apart only where people have written a name such as "/a/b": *)
(* in a project that nobody changes but the adapters, and that begins        *)
(* without such names, List never shows a key that Get does not find.        *)
THEOREM BitwardenOneSpelling == Spec /\ Unmeddled /\ OneSpelling => []OneSpelling
<1>1. BitwardenInv /\ OneSpelling /\ [Next]_vars /\ [~Outsider]_vars => OneSpelling'
  <2> SUFFICES ASSUME BitwardenInv, OneSpelling, [Next]_vars, [~Outsider]_vars
               PROVE  OneSpelling'
    OBVIOUS
  <2>1. CASE UNCHANGED vars
    BY <2>1 DEF vars, OneSpelling, Shown, Matches, Bearers, Named
  <2>2. CASE \E c \in Call : Step(c)
    BY <2>2, OneSpellingKeeps
  <2> QED BY <2>1, <2>2 DEF Next
<1> QED BY <1>1, BitwardenInvariance, PTL DEF Spec, Unmeddled

--------------------------------------------------------------------------------
(* Where twins do not come from. *)

\* No Put is called while another runs, by this replica or by any other.
PutsAlone ==
    \A c, d \in Call :
        Asks(c, "put") /\ Running(c) /\ Asks(d, "put") /\ Running(d) => c = d

NoTwins == \A i, j \in Matches : i = j

\* Then an object that was found by its name still has it, if it is there at all, and
\* the key is free until the Put that found it so has created its object.
Solitary ==
    /\ NoTwins
    /\ \A c \in Call :
          /\ call[c].at \in {"resolved", "update"} /\ Exists(call[c].id)
                => objects[call[c].id].name = KeyName
          /\ call[c].at = "create" => Matches = {}

LEMMA InitIsSolitary == Init => Solitary
<1> SUFFICES ASSUME Init PROVE Solitary
  OBVIOUS
<1>1. IsFiniteSet(Matches) /\ Cardinality(Matches) <= 1
  <2>1. Matches \in SUBSET Object /\ Cardinality(Matches) <= 1
    BY DEF Init, Matches, Bearers, Named
  <2> QED BY <2>1, BitwardenAssumption, FS_Subset
<1>2. ASSUME NEW i \in Matches, NEW j \in Matches, i # j
      PROVE  FALSE
  <2>1. IsFiniteSet({i}) /\ Cardinality({i}) = 1
    BY FS_Singleton
  <2>2. Cardinality({i} \cup {j}) = 2
    BY <1>2, <2>1, FS_AddElement
  <2>3. Cardinality({i} \cup {j}) <= Cardinality(Matches)
    BY <1>1, FS_Subset
  <2>4. Cardinality(Matches) \in Nat
    BY <1>1, FS_CardinalityType
  <2> QED BY <1>1, <2>2, <2>3, <2>4
<1>3. \A c \in Call : call[c].at = "new"
  BY DEF Init, Idle
<1> QED BY <1>2, <1>3 DEF Solitary, NoTwins

LEMMA UnwrittenSolitary ==
    ASSUME Solitary, UNCHANGED objects, NEW c \in Call,
           \A d \in Call \ {c} : call'[d] = call[d],
           \/ call'[c].at \in {"new", "called", "fetch", "done"}
           \/ call'[c].at = "resolved" /\ call'[c].id \in Matches
           \/ call'[c].at = "update" /\ call[c].at = "resolved" /\ call'[c].id = call[c].id
           \/ call'[c].at = "create" /\ Matches = {}
    PROVE  Solitary'
<1>1. Matches' = Matches /\ \A i : Exists(i)' = Exists(i)
  BY DEF Matches, Bearers, Named, Exists
<1>2. NoTwins'
  BY <1>1 DEF Solitary, NoTwins
<1>3. ASSUME NEW d \in Call
      PROVE  /\ call'[d].at \in {"resolved", "update"} /\ Exists(call[d].id)'
                   => objects'[call'[d].id].name = KeyName
             /\ call'[d].at = "create" => Matches' = {}
  <2>1. CASE d = c
    BY <1>1, <2>1 DEF Solitary, Exists, Matches, Bearers, Named
  <2>2. CASE d # c
    BY <1>1, <2>2 DEF Solitary, Exists
  <2> QED BY <2>1, <2>2
<1> QED BY <1>2, <1>3 DEF Solitary

LEMMA WrittenSolitary ==
    ASSUME BitwardenInv, Solitary, NEW c \in Call, NEW i \in Object, NEW s, Become(i, s),
           \A d \in Call \ {c} : call'[d] = call[d],
           call'[c].at = "done",
           \/ s = None
           \/ s.name = KeyName /\ Matches \subseteq {i} /\ \A d \in Call \ {c} : call[d].at # "create"
    PROVE  Solitary'
<1>1. objects' = [objects EXCEPT ![i] = s] /\ objects'[i] = s
  BY DEF Become, BitwardenInv, ProjectTypes, Projects
<1>2. \A j \in Object \ {i} : objects'[j] = objects[j]
  BY <1>1 DEF BitwardenInv, ProjectTypes, Projects
<1>3. Matches' \subseteq Matches \cup {i} /\ (s = None => Matches' \subseteq Matches)
  BY <1>1, <1>2 DEF Matches, Bearers, Named
<1>4. NoTwins'
  BY <1>3 DEF Solitary, NoTwins
<1>5. ASSUME NEW d \in Call
      PROVE  /\ call'[d].at \in {"resolved", "update"} /\ Exists(call[d].id)'
                   => objects'[call'[d].id].name = KeyName
             /\ call'[d].at = "create" => Matches' = {}
  <2>1. CASE d = c
    BY <2>1
  <2>2. CASE d # c
    <3>1. call'[d] = call[d]
      BY <2>2
    <3>2. call[d].at = "create" => Matches' = {}
      BY <1>3, <2>2 DEF Solitary
    <3>3. ASSUME call[d].at \in {"resolved", "update"}, objects'[call[d].id] # None
          PROVE  objects'[call[d].id].name = KeyName
      <4>1. call[d].id \in Object
        BY <3>3 DEF BitwardenInv, Story, Informed
      <4>2. CASE call[d].id = i
        BY <1>1, <3>3, <4>2
      <4>3. CASE call[d].id # i
        BY <1>2, <3>3, <4>1, <4>3 DEF Solitary, Exists
      <4> QED BY <4>2, <4>3
    <3> QED BY <3>1, <3>2, <3>3 DEF Exists
  <2> QED BY <2>1, <2>2
<1> QED BY <1>4, <1>5 DEF Solitary

\* The project is written by a Put that finds the key free or overwrites its one object,
\* and by a Delete that removes it.
LEMMA WritingStep ==
    ASSUME BitwardenInv, Solitary, PutsAlone, NEW c \in Call,
           Creates(c) \/ Updates(c) \/ Deletes(c),
           \A d \in Call \ {c} : call'[d] = call[d], call'[c].at = "done"
    PROVE  Solitary' /\ (Deletes(c) => Matches' = {})
<1>1. Asks(c, "put") => \A d \in Call \ {c} : call[d].at # "create"
  BY DEF PutsAlone, Running, BitwardenInv, Story, Fit, Creates, Updates, Deletes, At
<1>2. CASE Creates(c)
  <2>1. PICK i \in Object :
            Become(i, [name |-> KeyName, value |-> call[c].op.value, note |-> NoNote])
    BY <1>2 DEF Creates
  <2>2. Matches = {} /\ Asks(c, "put") /\ ~Deletes(c)
    BY <1>2 DEF Creates, Deletes, At, Solitary
  <2>3. Solitary'
    BY <1>1, <2>1, <2>2, WrittenSolitary
  <2> QED BY <2>2, <2>3
<1>3. ASSUME Updates(c) \/ Deletes(c)
      PROVE  call[c].id \in Object /\ call[c].id \in Matches /\ Matches = {call[c].id}
  <2>1. call[c].at \in {"resolved", "update"} /\ Exists(call[c].id)
    BY <1>3 DEF Updates, Deletes, At
  <2>2. call[c].id \in Object
    BY <2>1 DEF BitwardenInv, Story, Informed
  <2>3. call[c].id \in Matches
    BY <2>1, <2>2 DEF Solitary, Matches, Bearers, Named, Exists
  <2> QED BY <2>2, <2>3 DEF Solitary, NoTwins
<1>4. CASE Updates(c)
  <2>1. Become(call[c].id, [name |-> KeyName, value |-> call[c].op.value, note |-> call[c].note])
    BY <1>4 DEF Updates
  <2>2. Asks(c, "put") /\ ~Deletes(c)
    BY <1>4 DEF Updates, Deletes, At
  <2>3. Solitary'
    BY <1>1, <1>3, <1>4, <2>1, <2>2, WrittenSolitary
  <2> QED BY <2>2, <2>3
<1>5. CASE Deletes(c)
  <2>1. Become(call[c].id, None)
    BY <1>5 DEF Deletes
  <2>2. Solitary'
    BY <1>3, <1>5, <2>1, WrittenSolitary
  <2>3. objects' = [objects EXCEPT ![call[c].id] = None] /\ objects'[call[c].id] = None
    BY <1>3, <1>5, <2>1 DEF Become, BitwardenInv, ProjectTypes, Projects
  <2>4. \A j \in Object : j # call[c].id => objects'[j] = objects[j]
    BY <2>3 DEF BitwardenInv, ProjectTypes, Projects
  <2>5. Matches' = {}
    BY <1>3, <1>5, <2>3, <2>4 DEF Matches, Bearers, Named
  <2> QED BY <2>2, <2>5
<1> QED BY <1>2, <1>4, <1>5

\* A Delete that reports success removed the object at its last step.
Removes ==
    \A c \in Call :
        (Asks(c, "delete") /\ Ending(c) /\ call'[c].outcome = Ok) => Bearers(objects') = {}

LEMMA SolitaryKeeps ==
    ASSUME BitwardenInv, Solitary, PutsAlone, NEW c \in Call, Step(c)
    PROVE  Solitary' /\ Removes
<1>1. \A d \in Call \ {c} : call'[d] = call[d]
  BY StepIsOwn
<1>2. call[c] \in CallRecord /\ call \in [Call -> CallRecord]
  BY DEF BitwardenInv
<1>3. ASSUME NEW d \in Call, d # c
      PROVE  ~Ending(d)
  BY <1>1, <1>3 DEF Ending, Running
<1>4. ASSUME Creates(c) \/ Updates(c) \/ Deletes(c), call'[c].at = "done"
      PROVE  Solitary' /\ (Deletes(c) => Bearers(objects') = {})
  BY <1>1, <1>4, WritingStep DEF Matches
<1>5. ASSUME UNCHANGED objects,
             \/ call'[c].at \in {"new", "called", "fetch", "done"}
             \/ call'[c].at = "resolved" /\ call'[c].id \in Matches
             \/ call'[c].at = "update" /\ call[c].at = "resolved" /\ call'[c].id = call[c].id
             \/ call'[c].at = "create" /\ Matches = {}
      PROVE  Solitary'
  BY <1>1, <1>5, UnwrittenSolitary
<1>6. ASSUME ~Asks(c, "delete") \/ ~Ending(c) \/ call'[c].outcome # Ok
      PROVE  Removes
  BY <1>3, <1>6 DEF Removes
<1>7. CASE Begin(c)
  <2>1. PICK o \in Op \cup {ListOp} : call' = [call EXCEPT ![c].op = o, ![c].at = "called"]
    BY <1>7 DEF Begin, Begins
  <2>2. call'[c].at = "called" /\ UNCHANGED objects
    BY <1>2, <1>7, <2>1 DEF Begin, Quiet
  <2> QED BY <1>5, <1>6, <2>2 DEF Ending
<1>8. CASE TurnAway(c)
  <2>1. PICK r : r = Verdict(call[c].op) /\ Ends(c, r) /\ r # Pending /\ UNCHANGED objects
    BY <1>8 DEF TurnAway, TurnsAway, Quiet
  <2>2. call[c].op \in Op \cup {ListOp}
    BY <1>8 DEF BitwardenInv, Story, Fit, TurnAway, TurnsAway
  <2>3. r # Ok /\ call'[c].at = "done" /\ call'[c].outcome = r
    BY <1>2, <2>1, <2>2, Operations, OutcomesDiffer DEF Ends
  <2> QED BY <1>5, <1>6, <2>1, <2>3
<1>9. CASE Resolve(c)
  <2>1. /\ UNCHANGED objects
        /\ \/ call'[c].at = "resolved" /\ call'[c].id \in Matches
           \/ call'[c].at = "create" /\ Matches = {}
           \/ call'[c].at = "done" /\ call'[c].outcome = NotFound
    <3>1. UNCHANGED objects
      BY <1>9 DEF Resolve, Quiet
    <3>2. ASSUME NEW i \in Matches, call' = [call EXCEPT ![c].at = "resolved", ![c].id = i]
          PROVE  call'[c].at = "resolved" /\ call'[c].id \in Matches
      BY <1>2, <3>2 DEF CallRecord
    <3>3. Goes(c, "create") => call'[c].at = "create"
      BY <1>2 DEF Goes, CallRecord
    <3>4. Ends(c, NotFound) => call'[c].at = "done" /\ call'[c].outcome = NotFound
      BY <1>2 DEF Ends, CallRecord
    <3> QED BY <1>9, <3>1, <3>2, <3>3, <3>4 DEF Resolve
  <2>2. call'[c].at # "done" \/ call'[c].outcome # Ok
    BY <2>1, OutcomesDiffer
  <2> QED BY <1>5, <1>6, <2>1, <2>2 DEF Ending
<1>10. CASE IsGone(c)
  <2>1. call'[c].at = "done" /\ call'[c].outcome = Failed /\ UNCHANGED objects
    BY <1>2, <1>10 DEF IsGone, Ends, Quiet
  <2> QED BY <1>5, <1>6, <2>1, OutcomesDiffer
<1>11. CASE ListNames(c) \/ GetByIDs(c)
  <2>1. UNCHANGED objects /\ ~Asks(c, "delete")
    BY <1>11 DEF ListNames, GetByIDs, Quiet, At, Asks
  <2>2. ASSUME NEW ids,
               call' = [call EXCEPT ![c].ids = ids,
                                    ![c].at = IF ids = {} THEN "done" ELSE "fetch",
                                    ![c].outcome = IF ids = {} THEN Ok ELSE @]
        PROVE  call'[c].at \in {"fetch", "done"}
    BY <1>2, <2>2 DEF CallRecord
  <2>3. ListNames(c) => call'[c].at \in {"fetch", "done"}
    BY <2>2 DEF ListNames
  <2>4. GetByIDs(c) => call'[c].at = "done"
    <3>1. call' = [call EXCEPT ![c].at = "done", ![c].outcome = Ok, ![c].ids = @ \cap Shown(objects)]
            => call'[c].at = "done"
      BY <1>2 DEF CallRecord
    <3>2. Ends(c, Failed) => call'[c].at = "done"
      BY <1>2 DEF Ends, CallRecord
    <3> QED BY <3>1, <3>2 DEF GetByIDs
  <2> QED BY <1>5, <1>6, <1>11, <2>1, <2>3, <2>4
<1>12. CASE Get(c)
  <2>1. call'[c].at = "done" /\ UNCHANGED objects /\ ~Asks(c, "delete")
    BY <1>2, <1>12 DEF Get, Ends, Quiet, At, Asks
  <2> QED BY <1>5, <1>6, <2>1
<1>13. CASE ReadNote(c)
  <2>1. /\ call'[c].at = "update" /\ call[c].at = "resolved" /\ call'[c].id = call[c].id
        /\ UNCHANGED objects
    BY <1>2, <1>13 DEF ReadNote, Quiet, At
  <2> QED BY <1>5, <1>6, <2>1 DEF Ending
<1>14. CASE Create(c) \/ Update(c)
  <2>1. (Creates(c) \/ Updates(c)) /\ ~Asks(c, "delete")
    BY <1>14 DEF Create, Creates, Update, Updates, At, Asks
  <2>2. Create(c) => call'[c].at = "done"
    BY <1>2 DEF Create, CallRecord
  <2>3. Update(c) => call'[c].at = "done"
    BY <1>2 DEF Update, Ends, CallRecord
  <2> QED BY <1>4, <1>6, <1>14, <2>1, <2>2, <2>3
<1>15. CASE Delete(c)
  <2>1. call'[c].at = "done" /\ Deletes(c)
    BY <1>2, <1>15 DEF Delete, Ends
  <2>2. Solitary' /\ Bearers(objects') = {}
    BY <1>4, <2>1
  <2> QED BY <2>2 DEF Removes
<1>16. CASE Fails(c)
  <2>1. call'[c].at = "done" /\ call'[c].outcome = Failed
    BY <1>2, <1>16 DEF Fails, Ends
  <2>2. UNCHANGED objects \/ Creates(c) \/ Updates(c) \/ Deletes(c)
    BY <1>16 DEF Fails
  <2> QED BY <1>4, <1>5, <1>6, <2>1, <2>2, OutcomesDiffer
<1> QED BY <1>7, <1>8, <1>9, <1>10, <1>11, <1>12, <1>13, <1>14, <1>15, <1>16 DEF Step

(* Two objects of one name come from Puts that overlap and from people, and   *)
(* from nothing else: not from Deletes, Gets or Lists at the same time, nor  *)
(* from calls that fail halfway (bitwarden.go:120-180).  Where there are     *)
(* none, a Delete that reports success has removed the secret, which it need *)
(* not have done otherwise ("DeleteSecret removes a secret",                 *)
(* vaultlet.proto:35).                                                       *)
THEOREM BitwardenNoTwins ==
    Spec /\ []PutsAlone /\ Unmeddled => []NoTwins /\ DeleteRemoves
<1>1. Init => Solitary
  BY InitIsSolitary
<1>2. BitwardenInv /\ Solitary /\ PutsAlone /\ [Next]_vars /\ [~Outsider]_vars
        => Solitary' /\ [Removes]_vars
  <2> SUFFICES ASSUME BitwardenInv, Solitary, PutsAlone, [Next]_vars, [~Outsider]_vars
               PROVE  Solitary' /\ [Removes]_vars
    OBVIOUS
  <2>1. CASE UNCHANGED vars
    BY <2>1 DEF vars, Solitary, NoTwins, Matches, Bearers, Named, Exists
  <2>2. CASE \E c \in Call : Step(c)
    BY <2>2, SolitaryKeeps
  <2> QED BY <2>1, <2>2 DEF Next
<1>3. Solitary => NoTwins
  BY DEF Solitary
<1> QED BY <1>1, <1>2, <1>3, BitwardenInvariance, PTL
        DEF Spec, Unmeddled, DeleteRemoves, Removes
================================================================================
