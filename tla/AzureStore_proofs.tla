--------------------------- MODULE AzureStore_proofs ---------------------------
(***************************************************************************)
(* Proofs about AzureStore, for any number of calls, values and purge      *)
(* attempts, and any number of changes made by others.                     *)
(***************************************************************************)
EXTENDS AzureStore, TLAPS

-----------------------------------------------------------------------------
(* The inductive invariant. *)

CallRecord ==
    [op : Op \cup {NoOp}, at : {"new", "called", "purge", "waiting", "done"},
     outcome : Outcome, attempt : 0..MaxAttempts]

VaultTypes ==
    /\ writable \in BOOLEAN /\ purgeOnDelete \in BOOLEAN
    /\ \/ name = "free" /\ held = None
       \/ name \in {"live", "deleting", "deleted"} /\ held \in Value
    /\ outside \in 0..MaxOutside

\* Only a Delete that has taken effect purges, and it waits only between attempts.
Fit(c) ==
    /\ call[c].at = "new" => call[c].op = NoOp /\ call[c].outcome = Pending
    /\ call[c].at # "new" => call[c].op \in Op
    /\ call[c].at = "called" => call[c].outcome = Pending
    /\ call[c].at \in {"purge", "waiting"} => Asks(c, "delete") /\ call[c].outcome = Ok
    /\ call[c].at = "waiting" => call[c].attempt < MaxAttempts

AzureInv ==
    /\ VaultTypes
    /\ call \in [Call -> CallRecord]
    /\ \A c \in Call : Fit(c)

-----------------------------------------------------------------------------
(* Operations and outcomes. *)

LEMMA OutcomesDiffer ==
    /\ Pending # Ok /\ Pending # NotFound /\ Pending # ReadOnly /\ Pending # Failed
    /\ Ok # NotFound /\ Ok # ReadOnly /\ Ok # Failed
    /\ {Pending, Ok, NotFound, ReadOnly, Failed} \subseteq Outcome
    /\ \A v \in Value : Found(v) \in Outcome /\ Found(v) \notin {Pending, Ok, NotFound, ReadOnly, Failed}
BY DEF Pending, Ok, NotFound, ReadOnly, Failed, Ended, Found, Outcome

LEMMA Verdicts ==
    ASSUME NEW o \in Op
    PROVE  /\ Verdict(o) \in {Pending, ReadOnly, Failed}
           /\ Verdict(o) = Pending /\ o.kind = "put" => writable /\ o.value \in Value
           /\ Verdict(o) = Pending /\ o.kind = "delete" => writable
           /\ Verdict(o) = ReadOnly => ~writable /\ o.kind # "get"
<1>1. Pending # ReadOnly /\ Pending # Failed /\ ReadOnly # Failed
  BY DEF Pending, ReadOnly, Failed, Ended
<1> QED BY <1>1 DEF Verdict, Op

\* Where a call is whose guard holds.
LEMMA Guards ==
    ASSUME AzureInv, NEW c \in Call
    PROVE  /\ \A kind \in {"get", "put", "delete"} : Enters(c, kind) =>
                 /\ Running(c) /\ call[c].at = "called" /\ call[c].op \in Op /\ Asks(c, kind)
                 /\ call[c].outcome = Pending
                 /\ kind # "get" => writable
                 /\ kind = "put" => call[c].op.value \in Value
           /\ \A stage \in {"purge", "waiting"} : At(c, "delete", stage) =>
                 /\ Running(c) /\ call[c].op \in Op /\ Asks(c, "delete") /\ call[c].outcome = Ok
<1>1. Fit(c)
  BY DEF AzureInv
<1>2. ASSUME NEW kind \in {"get", "put", "delete"}, Enters(c, kind)
      PROVE  /\ Running(c) /\ call[c].at = "called" /\ call[c].op \in Op /\ Asks(c, kind)
             /\ call[c].outcome = Pending
             /\ kind # "get" => writable
             /\ kind = "put" => call[c].op.value \in Value
  <2>1. /\ call[c].at = "called" /\ call[c].op \in Op /\ Asks(c, kind)
        /\ call[c].outcome = Pending /\ Verdict(call[c].op) = Pending
    BY <1>1, <1>2 DEF Fit, Enters, At
  <2> QED BY <2>1, Verdicts DEF Asks, Running
<1>3. ASSUME NEW stage \in {"purge", "waiting"}, At(c, "delete", stage)
      PROVE  Running(c) /\ call[c].op \in Op /\ Asks(c, "delete") /\ call[c].outcome = Ok
  BY <1>1, <1>3 DEF Fit, At, Running
<1> QED BY <1>2, <1>3

-----------------------------------------------------------------------------
(* What the contract sees of the adapter. *)

View(rec) ==
    [op |-> rec.op, outcome |-> rec.outcome,
     at |-> IF rec.at \notin {"new", "done"} THEN "running" ELSE rec.at]

SeenRecord == [op : Op \cup {NoOp}, outcome : Outcome, at : {"new", "running", "done"}]

Seen == [c \in Call |-> View(call[c])]

Unseen == Seen' = Seen

Kept == [Contract!Next]_(Contract!vars)

\* The contract's notions are those of the adapter.
LEMMA ContractNotions ==
    /\ Contract!C!Op = Op /\ Contract!C!Outcome = Outcome /\ Contract!C!NoOp = NoOp
    /\ Contract!C!Pending = Pending /\ Contract!C!Ok = Ok /\ Contract!C!NotFound = NotFound
    /\ Contract!C!ReadOnly = ReadOnly /\ Contract!C!Failed = Failed
    /\ \A v \in Value : Contract!C!Found(v) = Found(v)
    /\ \A c \in Call :
          /\ Contract!C!Running(c) <=> Running(c)
          /\ \A kind \in {"get", "put", "delete"} : Contract!C!Asks(c, kind) <=> Asks(c, kind)
BY DEF Contract!C!Op, Op, Contract!C!Outcome, Outcome, Contract!C!NoOp, NoOp,
       Contract!C!Pending, Pending, Contract!C!Ok, Ok, Contract!C!NotFound, NotFound,
       Contract!C!ReadOnly, ReadOnly, Contract!C!Failed, Failed, Contract!C!Ended, Ended,
       Contract!C!Found, Found, Contract!C!Running, Running, Contract!C!Asks, Asks

\* The steps of the contract, in terms of the adapter.
LEMMA ContractBegins ==
    ASSUME NEW c \in Call, call[c].at = "new", NEW o \in Op,
           Seen' = [Seen EXCEPT ![c].op = o, ![c].at = "running"], UNCHANGED <<Secret, writable>>
    PROVE  Kept
<1>1. Contract!Begin(c)
  BY ContractNotions DEF Contract!Begin, Seen, View, Running
<1> QED BY <1>1 DEF Kept, Contract!Next

LEMMA ContractMeets ==
    ASSUME NEW c \in Call, Running(c), NEW r \in Outcome, UNCHANGED writable,
           \/ Asks(c, "get") /\ UNCHANGED Secret
              /\ r = (IF Secret \in Value THEN Found(Secret) ELSE NotFound)
           \/ Asks(c, "put") /\ writable /\ call[c].op.value \in Value /\ call[c].outcome = Pending
              /\ r = Ok /\ Secret' = call[c].op.value
           \/ Asks(c, "delete") /\ writable /\ call[c].outcome = Pending
              /\ r = (IF Secret = None THEN NotFound ELSE Ok) /\ Secret' = None,
           \/ Seen' = [Seen EXCEPT ![c].outcome = r]
           \/ Contract!C!Ends(c, r)
           \/ Contract!C!Ends(c, Failed)
    PROVE  Kept
<1>1. Contract!GetMeets(c, r) \/ Contract!PutMeets(c, r) \/ Contract!DeleteMeets(c, r)
  BY ContractNotions
     DEF Contract!GetMeets, Contract!PutMeets, Contract!DeleteMeets, Asks
<1>2. Contract!C!Running(c) /\ r \in Contract!C!Outcome /\ Contract!C!Failed = Failed
  BY ContractNotions
<1>3. Contract!Act(c)
  BY <1>1, <1>2 DEF Contract!Act, Seen, View, Running
<1> QED BY <1>3 DEF Kept, Contract!Next

LEMMA ContractReturns ==
    ASSUME NEW c \in Call, Running(c), UNCHANGED <<Secret, writable>>,
           NEW r \in Outcome, Contract!C!Ends(c, r),
           \/ r = Failed
           \/ call[c].outcome # Pending /\ r = call[c].outcome
           \/ ~writable /\ call[c].op.kind # "get" /\ r = ReadOnly
    PROVE  Kept
<1>1. /\ Contract!C!Running(c) /\ Contract!C!Failed = Failed
      /\ Contract!C!ReadOnly = ReadOnly /\ Contract!C!Pending = Pending
  BY ContractNotions
<1>2. Contract!Return(c)
  BY <1>1 DEF Contract!Return, Contract!C!Ends
<1> QED BY <1>2 DEF Kept, Contract!Next

LEMMA ContractStutters == ASSUME Unseen, UNCHANGED <<Secret, writable>> PROVE Kept
BY DEF Kept, Contract!vars, Unseen, Seen, View, Running

LEMMA ContractElsewhere ==
    ASSUME Unseen, UNCHANGED writable, Secret' \in Value \cup {None} PROVE Kept
<1>1. Contract!Elsewhere
  BY DEF Contract!Elsewhere, Unseen, Seen, View, Running
<1> QED BY <1>1 DEF Kept, Contract!Next

-----------------------------------------------------------------------------
(* What a step does to one call, for the invariant and for the contract. *)

Others(c) == \A d \in Call \ {c} : call'[d] = call[d]

LEMMA OneCall ==
    ASSUME AzureInv, NEW c \in Call, NEW rec \in CallRecord, call' = [call EXCEPT ![c] = rec],
           VaultTypes', (call'[c] = rec) => Fit(c)'
    PROVE  /\ AzureInv' /\ call'[c] = rec /\ Others(c)
           /\ Seen' = [Seen EXCEPT ![c] = View(rec)]
<1>1. call' \in [Call -> CallRecord] /\ call'[c] = rec /\ Others(c)
  BY DEF AzureInv, Others
<1>2. \A d \in Call \ {c} : Fit(d)'
  BY <1>1 DEF AzureInv, Fit, Asks, Others
<1>3. Seen' = [Seen EXCEPT ![c] = View(rec)]
  <2>1. Seen' = [d \in Call |-> View(call'[d])]
    BY DEF Seen, View
  <2> QED BY <1>1, <2>1 DEF Seen, Others
<1> QED BY <1>1, <1>2, <1>3 DEF AzureInv

LEMMA CallEnds ==
    ASSUME AzureInv, NEW c \in Call, NEW r \in Outcome, Ends(c, r), VaultTypes', Running(c)
    PROVE  /\ AzureInv' /\ Contract!C!Ends(c, r) /\ Others(c)
           /\ call'[c].outcome = r /\ call'[c].op = call[c].op
<1> DEFINE rec == [call[c] EXCEPT !.at = "done", !.outcome = r]
           ended == [View(call[c]) EXCEPT !.at = "done", !.outcome = r]
<1>1. call[c] \in CallRecord /\ call[c].op \in Op
  BY DEF AzureInv, Fit, Running
<1>2. rec \in CallRecord /\ rec.at = "done" /\ rec.op = call[c].op /\ rec.outcome = r
  BY <1>1 DEF CallRecord
<1>3. View(rec) = ended
  <2>1. View(call[c]) \in SeenRecord /\ View(call[c]).op = call[c].op
    BY <1>1 DEF CallRecord, View, SeenRecord
  <2>2. /\ ended \in SeenRecord /\ ended.op = call[c].op /\ ended.at = "done"
        /\ ended.outcome = r
    BY <2>1 DEF SeenRecord
  <2> HIDE DEF rec
  <2>3. /\ View(rec) \in SeenRecord /\ View(rec).op = call[c].op
        /\ View(rec).at = "done" /\ View(rec).outcome = r
    BY <1>1, <1>2 DEF CallRecord, View, SeenRecord
  <2> HIDE DEF ended
  <2> QED BY <2>2, <2>3 DEF SeenRecord
<1>4. call' = [call EXCEPT ![c] = rec]
  BY DEF Ends
<1> HIDE DEF rec
<1>5. (call'[c] = rec) => Fit(c)'
  BY <1>1, <1>2 DEF Fit
<1>6. /\ AzureInv' /\ call'[c] = rec /\ Others(c)
      /\ Seen' = [Seen EXCEPT ![c] = View(rec)] /\ Seen[c] = View(call[c])
  BY <1>2, <1>4, <1>5, OneCall DEF Seen
<1>7. Seen' = [Seen EXCEPT ![c].at = "done", ![c].outcome = r]
  BY <1>3, <1>6
<1> QED BY <1>2, <1>6, <1>7 DEF Contract!C!Ends, Seen, View, Running

\* A call that goes on may have taken effect.
LEMMA CallGoesOn ==
    ASSUME AzureInv, NEW c \in Call, NEW rec \in CallRecord, call' = [call EXCEPT ![c] = rec],
           Running(c), rec.op = call[c].op, rec.at \notin {"new", "done"},
           VaultTypes', (call'[c] = rec) => Fit(c)'
    PROVE  /\ AzureInv' /\ Others(c) /\ call'[c].at = rec.at
           /\ Seen' = [Seen EXCEPT ![c].outcome = rec.outcome]
           /\ rec.outcome = call[c].outcome => Unseen
<1> DEFINE on == [View(call[c]) EXCEPT !.outcome = rec.outcome]
<1>1. View(rec) = on /\ (rec.outcome = call[c].outcome => View(rec) = View(call[c]))
  <2>1. /\ View(call[c]) \in SeenRecord /\ View(call[c]).op = call[c].op
        /\ View(call[c]).at = "running" /\ View(call[c]).outcome = call[c].outcome
    BY DEF AzureInv, CallRecord, View, SeenRecord, Running
  <2>2. /\ on \in SeenRecord /\ on.op = call[c].op /\ on.at = "running"
        /\ on.outcome = rec.outcome
    BY <2>1 DEF SeenRecord, CallRecord
  <2>3. /\ View(rec) \in SeenRecord /\ View(rec).op = call[c].op
        /\ View(rec).at = "running" /\ View(rec).outcome = rec.outcome
    BY DEF AzureInv, CallRecord, View, SeenRecord
  <2> HIDE DEF on
  <2> QED BY <2>1, <2>2, <2>3 DEF SeenRecord
<1>2. /\ AzureInv' /\ call'[c] = rec /\ Others(c)
      /\ Seen' = [Seen EXCEPT ![c] = View(rec)] /\ Seen[c] = View(call[c])
  BY OneCall DEF Seen
<1> QED BY <1>1, <1>2 DEF Unseen, Seen

LEMMA QuietIs == AzureInv /\ Quiet => VaultTypes' /\ UNCHANGED <<Secret, writable>>
BY DEF AzureInv, VaultTypes, Quiet, configVars, Secret

LEMMA SecretIs ==
    ASSUME VaultTypes
    PROVE  /\ Secret \in Value \cup {None} /\ None \notin Value
           /\ name = "live" => Secret = held /\ Secret \in Value /\ Secret # None
           /\ name # "live" => Secret = None
BY CallAssumption DEF VaultTypes, Secret

-----------------------------------------------------------------------------
(* The steps: each keeps the invariant, is one of the contract or none, and  *)
(* returns no success to a purging Delete that leaves a soft-deleted secret. *)

FreesName ==
    \A c \in Call :
        (purgeOnDelete /\ Asks(c, "delete") /\ Ending(c) /\ call'[c].outcome = Ok)
            => name' \in {"free", "live"}

Sound == AzureInv' /\ Kept /\ FreesName

LEMMA FreesNameIf ==
    ASSUME NEW c \in Call, Others(c),
           \/ call'[c].at # "done" \/ call'[c].outcome # Ok
           \/ ~Asks(c, "delete") \/ ~purgeOnDelete \/ name' \in {"free", "live"}
    PROVE  FreesName
BY DEF FreesName, Others, Ending, Running

LEMMA BeginSound == ASSUME AzureInv, NEW c \in Call, Begin(c) PROVE Sound
<1>1. PICK o \in Op : call' = [call EXCEPT ![c].op = o, ![c].at = "called"]
  BY DEF Begin, Begins
<1> DEFINE rec == [call[c] EXCEPT !.op = o, !.at = "called"]
           begun == [View(call[c]) EXCEPT !.op = o, !.at = "running"]
<1>2. call[c] \in CallRecord /\ Fit(c) /\ call[c].at = "new"
  BY DEF AzureInv, Begin, Begins
<1>3. /\ rec \in CallRecord /\ rec.at = "called" /\ rec.op = o
      /\ rec.outcome = call[c].outcome /\ rec.outcome = Pending
  BY <1>2 DEF CallRecord, Fit
<1>4. call' = [call EXCEPT ![c] = rec]
  BY <1>1
<1> HIDE DEF rec
<1>5. View(rec) = begun
  <2>1. View(call[c]) \in SeenRecord /\ View(call[c]).outcome = call[c].outcome
    BY <1>2 DEF CallRecord, View, SeenRecord
  <2>2. /\ begun \in SeenRecord /\ begun.op = o /\ begun.at = "running"
        /\ begun.outcome = call[c].outcome
    BY <2>1 DEF SeenRecord
  <2>3. /\ View(rec) \in SeenRecord /\ View(rec).op = o
        /\ View(rec).at = "running" /\ View(rec).outcome = call[c].outcome
    BY <1>3 DEF CallRecord, View, SeenRecord
  <2> HIDE DEF begun
  <2> QED BY <2>2, <2>3 DEF SeenRecord
<1>6. (call'[c] = rec) => Fit(c)'
  BY <1>3 DEF Fit
<1>7. VaultTypes' /\ UNCHANGED <<Secret, writable>>
  BY QuietIs DEF Begin
<1>8. /\ AzureInv' /\ call'[c] = rec /\ Others(c)
      /\ Seen' = [Seen EXCEPT ![c] = View(rec)] /\ Seen[c] = View(call[c])
  BY <1>3, <1>4, <1>6, <1>7, OneCall DEF Seen
<1>9. Kept
  <2>1. Seen' = [Seen EXCEPT ![c].op = o, ![c].at = "running"]
    BY <1>5, <1>8
  <2> QED BY <1>2, <1>7, <2>1, ContractBegins
<1> QED BY <1>3, <1>8, <1>9, FreesNameIf DEF Sound

\* A call that returns what it has been told, or an error.
LEMMA ReturnSound ==
    ASSUME AzureInv, NEW c \in Call, Running(c), NEW r \in Outcome, Ends(c, r),
           VaultTypes', UNCHANGED <<Secret, writable>>,
           \/ r = Failed
           \/ call[c].outcome # Pending /\ r = call[c].outcome
           \/ ~writable /\ call[c].op.kind # "get" /\ r = ReadOnly,
           r = Ok => name' \in {"free", "live"}
    PROVE  Sound
<1>1. AzureInv' /\ Contract!C!Ends(c, r) /\ Others(c) /\ call'[c].outcome = r
  BY CallEnds
<1>2. Kept
  BY <1>1, ContractReturns
<1> QED BY <1>1, <1>2, FreesNameIf DEF Sound

LEMMA TurnAwaySound == ASSUME AzureInv, NEW c \in Call, TurnAway(c) PROVE Sound
<1>1. call[c].op \in Op /\ Running(c) /\ Quiet
  BY DEF AzureInv, TurnAway, TurnsAway, Fit, Running
<1>2. PICK r \in {ReadOnly, Failed} : r = Verdict(call[c].op) /\ Ends(c, r)
  BY <1>1, Verdicts DEF TurnAway, TurnsAway
<1>3. r \in Outcome /\ r # Ok /\ (r = ReadOnly => ~writable /\ call[c].op.kind # "get")
  BY <1>1, <1>2, Verdicts, OutcomesDiffer
<1> QED BY <1>1, <1>2, <1>3, QuietIs, ReturnSound

\* A call that meets the name as it is and returns.
LEMMA GetSound == ASSUME AzureInv, NEW c \in Call, GetSecret(c) PROVE Sound
<1>1. Running(c) /\ Asks(c, "get") /\ Quiet /\ VaultTypes
  BY Guards DEF GetSecret, AzureInv
<1>2. PICK r \in Outcome :
         Ends(c, r) /\ r # Ok /\ r = (IF Secret \in Value THEN Found(Secret) ELSE NotFound)
  <2>1. CASE name = "live" /\ Ends(c, Found(held))
    BY <1>1, <2>1, SecretIs, OutcomesDiffer
  <2>2. CASE name # "live" /\ Ends(c, NotFound)
    BY <1>1, <2>2, SecretIs, OutcomesDiffer
  <2> QED BY <2>1, <2>2 DEF GetSecret
<1>3. VaultTypes' /\ UNCHANGED <<Secret, writable>>
  BY <1>1, QuietIs
<1>4. AzureInv' /\ Contract!C!Ends(c, r) /\ Others(c) /\ call'[c].outcome = r
  BY <1>1, <1>2, <1>3, CallEnds
<1>5. Kept
  BY <1>1, <1>2, <1>3, <1>4, ContractMeets
<1> QED BY <1>2, <1>4, <1>5, FreesNameIf DEF Sound

\* What a Put that is taken does to the vault.
LEMMA Setting ==
    ASSUME AzureInv, NEW c \in Call, Sets(c), UNCHANGED configVars, outside' \in 0..MaxOutside
    PROVE  /\ Running(c) /\ Asks(c, "put") /\ ~Asks(c, "delete") /\ writable /\ UNCHANGED writable
           /\ call[c].op.value \in Value /\ call[c].outcome = Pending
           /\ VaultTypes' /\ Secret' = call[c].op.value
BY Guards DEF Sets, Vault, AzureInv, VaultTypes, Secret, configVars, Asks

LEMMA SetSound == ASSUME AzureInv, NEW c \in Call, SetSecret(c) PROVE Sound
<1>1. CASE Sets(c) /\ Ends(c, Ok) /\ UNCHANGED <<configVars, outside>>
  <2>1. outside' \in 0..MaxOutside
    BY <1>1 DEF AzureInv, VaultTypes
  <2>2. AzureInv' /\ Contract!C!Ends(c, Ok) /\ Others(c)
    BY <1>1, <2>1, Setting, OutcomesDiffer, CallEnds
  <2>3. Kept
    BY <1>1, <2>1, <2>2, Setting, OutcomesDiffer, ContractMeets
  <2> QED BY <1>1, <2>1, <2>2, <2>3, Setting, FreesNameIf DEF Sound
<1>2. CASE Enters(c, "put") /\ name \in {"deleting", "deleted"} /\ Ends(c, Failed) /\ Quiet
  BY <1>2, Guards, QuietIs, OutcomesDiffer, ReturnSound
<1> QED BY <1>1, <1>2 DEF SetSecret

\* What the soft delete does to the vault.
LEMMA Deleting ==
    ASSUME AzureInv, NEW c \in Call, Deletes(c), UNCHANGED configVars, outside' \in 0..MaxOutside
    PROVE  /\ Running(c) /\ Asks(c, "delete") /\ call[c].op \in Op /\ writable /\ UNCHANGED writable
           /\ call[c].outcome = Pending
           /\ VaultTypes' /\ Secret # None /\ Secret' = None
BY Guards, SecretIs DEF Deletes, Vault, AzureInv, VaultTypes, Secret, configVars

LEMMA DeleteSound == ASSUME AzureInv, NEW c \in Call, DeleteSecret(c) PROVE Sound
<1>1. CASE Deleted(c)
  <2>1. Deletes(c) /\ UNCHANGED configVars /\ outside' \in 0..MaxOutside
    BY <1>1 DEF Deleted, AzureInv, VaultTypes
  <2>2. CASE purgeOnDelete
    <3> DEFINE rec == [call[c] EXCEPT !.at = "purge", !.outcome = Ok, !.attempt = 1]
    <3>1. call[c] \in CallRecord /\ 1 \in 0..MaxAttempts
      BY AzureAssumption DEF AzureInv
    <3>2. /\ rec \in CallRecord /\ rec.at = "purge" /\ rec.op = call[c].op /\ rec.outcome = Ok
      BY <3>1, OutcomesDiffer DEF CallRecord
    <3>3. call' = [call EXCEPT ![c] = rec]
      BY <1>1, <2>2 DEF Deleted
    <3> HIDE DEF rec
    <3>4. call'[c] = rec => Fit(c)'
      BY <2>1, <3>2, Deleting DEF Fit, Asks
    <3>5. AzureInv' /\ Others(c) /\ call'[c].at = "purge" /\ Seen' = [Seen EXCEPT ![c].outcome = Ok]
      BY <2>1, <3>2, <3>3, <3>4, Deleting, CallGoesOn
    <3>6. Kept
      BY <2>1, <3>5, Deleting, OutcomesDiffer, ContractMeets
    <3> QED BY <3>5, <3>6, FreesNameIf DEF Sound
  <2>3. CASE ~purgeOnDelete
    <3>1. AzureInv' /\ Contract!C!Ends(c, Ok) /\ Others(c)
      BY <1>1, <2>1, <2>3, Deleting, OutcomesDiffer, CallEnds DEF Deleted
    <3>2. Kept
      BY <2>1, <3>1, Deleting, OutcomesDiffer, ContractMeets
    <3> QED BY <2>3, <3>1, <3>2, FreesNameIf DEF Sound
  <2> QED BY <2>2, <2>3
<1>2. CASE Enters(c, "delete") /\ name # "live" /\ Ends(c, NotFound) /\ Quiet
  <2>1. /\ Running(c) /\ Asks(c, "delete") /\ writable /\ call[c].outcome = Pending
        /\ Secret = None /\ VaultTypes' /\ UNCHANGED <<Secret, writable>>
    BY <1>2, Guards, QuietIs DEF Secret
  <2>2. AzureInv' /\ Contract!C!Ends(c, NotFound) /\ Others(c) /\ call'[c].outcome = NotFound
    BY <1>2, <2>1, OutcomesDiffer, CallEnds
  <2>3. Kept
    BY <2>1, <2>2, OutcomesDiffer, ContractMeets
  <2> QED BY <2>2, <2>3, OutcomesDiffer, FreesNameIf DEF Sound
<1> QED BY <1>1, <1>2 DEF DeleteSecret

\* Purging frees the name and is not seen, for the secret is deleted already.
LEMMA Purging ==
    ASSUME AzureInv, NEW c \in Call, Purges(c), UNCHANGED configVars, outside' \in 0..MaxOutside
    PROVE  /\ Running(c) /\ call[c].outcome = Ok /\ name' = "free"
           /\ VaultTypes' /\ UNCHANGED <<Secret, writable>>
BY Guards DEF Purges, Vault, AzureInv, VaultTypes, Secret, configVars

LEMMA PurgeSound ==
    ASSUME AzureInv, NEW c \in Call, Purged(c) \/ PurgesNothing(c) \/ PurgeConflicts(c)
    PROVE  Sound
<1>1. CASE Purged(c)
  <2>1. Purges(c) /\ Ends(c, Ok) /\ UNCHANGED configVars /\ outside' \in 0..MaxOutside
    BY <1>1 DEF Purged, AzureInv, VaultTypes
  <2> QED BY <2>1, Purging, OutcomesDiffer, ReturnSound
<1>2. CASE PurgesNothing(c)
  <2>1. /\ Running(c) /\ call[c].outcome = Ok /\ Ends(c, Ok) /\ name' \in {"free", "live"}
        /\ VaultTypes' /\ UNCHANGED <<Secret, writable>>
    BY <1>2, Guards, QuietIs DEF PurgesNothing, Quiet
  <2> QED BY <2>1, OutcomesDiffer, ReturnSound
<1>3. CASE PurgeConflicts(c)
  <2>1. /\ Running(c) /\ Asks(c, "delete") /\ call[c].op \in Op /\ call[c].outcome = Ok
        /\ VaultTypes' /\ UNCHANGED <<Secret, writable>> /\ call[c] \in CallRecord
    BY <1>3, Guards, QuietIs DEF PurgeConflicts, AzureInv
  <2>2. CASE call[c].attempt < MaxAttempts /\ Goes(c, "waiting")
    <3> DEFINE rec == [call[c] EXCEPT !.at = "waiting"]
    <3>1. /\ rec \in CallRecord /\ rec.at = "waiting" /\ rec.op = call[c].op
          /\ rec.outcome = call[c].outcome /\ rec.attempt = call[c].attempt
      BY <2>1 DEF CallRecord
    <3>2. call' = [call EXCEPT ![c] = rec]
      BY <2>2 DEF Goes
    <3> HIDE DEF rec
    <3>3. call'[c] = rec => Fit(c)'
      BY <2>1, <2>2, <3>1 DEF Fit, Asks
    <3>4. AzureInv' /\ Others(c) /\ call'[c].at = "waiting" /\ Unseen
      BY <2>1, <3>1, <3>2, <3>3, CallGoesOn
    <3>5. Kept
      BY <2>1, <3>4, ContractStutters
    <3> QED BY <3>4, <3>5, FreesNameIf DEF Sound
  <2>3. CASE Ends(c, Failed)
    BY <2>1, <2>3, OutcomesDiffer, ReturnSound
  <2> QED BY <1>3, <2>2, <2>3 DEF PurgeConflicts
<1> QED BY <1>1, <1>2, <1>3

LEMMA RetrySound == ASSUME AzureInv, NEW c \in Call, Retry(c) \/ GivesUp(c) PROVE Sound
<1>1. /\ Running(c) /\ Asks(c, "delete") /\ call[c].op \in Op /\ call[c].outcome = Ok
      /\ VaultTypes' /\ UNCHANGED <<Secret, writable>> /\ call[c] \in CallRecord
      /\ call[c].at = "waiting" /\ call[c].attempt < MaxAttempts
  BY Guards, QuietIs DEF Retry, GivesUp, AzureInv, Fit, At
<1>2. CASE Retry(c)
  <2> DEFINE n == call[c].attempt + 1
             rec == [call[c] EXCEPT !.at = "purge", !.attempt = n]
  <2>1. n \in 0..MaxAttempts
    BY <1>1, AzureAssumption DEF CallRecord
  <2>2. call' = [call EXCEPT ![c] = rec]
    BY <1>2 DEF Retry
  <2> HIDE DEF n
  <2>3. /\ rec \in CallRecord /\ rec.at = "purge" /\ rec.op = call[c].op
        /\ rec.outcome = call[c].outcome
    BY <1>1, <2>1 DEF CallRecord
  <2> HIDE DEF rec
  <2>4. call'[c] = rec => Fit(c)'
    BY <1>1, <2>3 DEF Fit, Asks
  <2>5. AzureInv' /\ Others(c) /\ call'[c].at = "purge" /\ Unseen
    BY <1>1, <2>2, <2>3, <2>4, CallGoesOn
  <2>6. Kept
    BY <1>1, <2>5, ContractStutters
  <2> QED BY <2>5, <2>6, FreesNameIf DEF Sound
<1>3. CASE GivesUp(c)
  BY <1>1, <1>3, OutcomesDiffer, ReturnSound DEF GivesUp
<1> QED BY <1>2, <1>3

LEMMA FailsSound == ASSUME AzureInv, NEW c \in Call, Fails(c) PROVE Sound
<1>1. Ends(c, Failed) /\ UNCHANGED configVars /\ UNCHANGED writable /\ outside' \in 0..MaxOutside
  BY AzureAssumption DEF Fails, AzureInv, VaultTypes, configVars
<1>2. CASE Calls(c) /\ call[c].at # "waiting" /\ UNCHANGED <<name, held>>
  <2>1. Running(c) /\ VaultTypes' /\ UNCHANGED <<Secret, writable>>
    BY <1>1, <1>2 DEF Calls, AzureInv, VaultTypes, Secret, configVars
  <2> QED BY <1>1, <2>1, OutcomesDiffer, ReturnSound
<1>3. CASE Sets(c)
  <2>1. AzureInv' /\ Contract!C!Ends(c, Failed) /\ Others(c)
    BY <1>1, <1>3, Setting, OutcomesDiffer, CallEnds
  <2>2. Kept
    BY <1>1, <1>3, <2>1, Setting, OutcomesDiffer, ContractMeets
  <2> QED BY <1>1, <1>3, <2>1, <2>2, Setting, FreesNameIf DEF Sound
<1>4. CASE Deletes(c)
  <2>1. AzureInv' /\ Contract!C!Ends(c, Failed) /\ Others(c) /\ call'[c].outcome = Failed
    BY <1>1, <1>4, Deleting, OutcomesDiffer, CallEnds
  <2>2. Kept
    BY <1>1, <1>4, <2>1, Deleting, OutcomesDiffer, ContractMeets
  <2> QED BY <2>1, <2>2, OutcomesDiffer, FreesNameIf DEF Sound
<1>5. CASE Purges(c)
  BY <1>1, <1>5, Purging, OutcomesDiffer, ReturnSound
<1> QED BY <1>2, <1>3, <1>4, <1>5 DEF Fails

\* The vault and other users of it end no call.
LEMMA ElsewhereSound ==
    ASSUME AzureInv, UNCHANGED call, UNCHANGED configVars, VaultTypes' PROVE Sound
<1>1. AzureInv'
  BY DEF AzureInv, Fit, Asks
<1>2. Unseen
  BY DEF Unseen, Seen, View
<1>3. Kept
  BY <1>2, SecretIs, ContractElsewhere, CallAssumption DEF configVars, VaultTypes, Secret
<1>4. FreesName
  BY DEF FreesName, Ending, Running
<1> QED BY <1>1, <1>3, <1>4 DEF Sound

LEMMA SettlesSound == ASSUME AzureInv, Settles PROVE Sound
BY ElsewhereSound DEF Settles, configVars, AzureInv, VaultTypes

LEMMA OutsiderSound == ASSUME AzureInv, Outsider PROVE Sound
<1>1. UNCHANGED call /\ UNCHANGED configVars /\ outside' \in 0..MaxOutside
  BY AzureAssumption DEF Outsider, AzureInv, VaultTypes
<1>2. \/ name' = "free" /\ held' = None
      \/ name' \in {"live", "deleting"} /\ held' \in Value
  BY DEF Outsider, Vault, AzureInv, VaultTypes
<1>3. VaultTypes'
  BY <1>1, <1>2 DEF AzureInv, VaultTypes, configVars
<1> QED BY <1>1, <1>3, ElsewhereSound

LEMMA InitEstablishes == Init => AzureInv /\ Contract!Init
<1> SUFFICES ASSUME Init PROVE AzureInv /\ Contract!Init
  OBVIOUS
<1>1. VaultTypes
  BY AzureAssumption DEF Init, VaultTypes
<1>2. call = [c \in Call |-> Idle] /\ Idle \in CallRecord
  BY OutcomesDiffer, AzureAssumption DEF Init, Idle, CallRecord
<1>3. \A c \in Call : Fit(c)
  BY <1>2 DEF Idle, Fit
<1>4. [c \in Call |-> [op |-> call[c].op, outcome |-> call[c].outcome,
                       at |-> IF Running(c) THEN "running" ELSE call[c].at]]
        = [c \in Call |-> [op |-> NoOp, at |-> "new", outcome |-> Pending]]
  BY <1>2 DEF Idle, Running
<1>5. Secret \in Value \cup {None} /\ writable \in BOOLEAN
  BY <1>1, SecretIs DEF VaultTypes
<1>6. Contract!Init
  BY <1>4, <1>5, ContractNotions DEF Contract!Init
<1> QED BY <1>1, <1>2, <1>3, <1>6 DEF AzureInv

LEMMA NextSound ==
    ASSUME AzureInv, [Next]_vars
    PROVE  AzureInv' /\ [Contract!Next]_(Contract!vars) /\ FreesName
<1>1. ASSUME NEW c \in Call, Begin(c) \/ Progress(c) \/ Fails(c) PROVE Sound
  BY <1>1, BeginSound, TurnAwaySound, GetSound, SetSound, DeleteSound, PurgeSound, RetrySound,
     FailsSound DEF Progress
<1>2. CASE UNCHANGED vars
  <2>1. VaultTypes' /\ UNCHANGED call /\ UNCHANGED configVars
    BY <1>2 DEF vars, configVars, AzureInv, VaultTypes
  <2> QED BY <2>1, ElsewhereSound DEF Sound, Kept
<1> QED BY <1>1, <1>2, SettlesSound, OutsiderSound DEF Next, Sound, Kept

(* Every variable keeps its type, and no Delete tries to purge more often    *)
(* than purgeAttempts (azure.go:196).                                        *)
THEOREM AzureTypes == Spec => []TypeOK
<1>1. AzureInv => TypeOK
  BY DEF AzureInv, VaultTypes, CallRecord, TypeOK
<1> QED BY <1>1, InitEstablishes, NextSound, PTL DEF Spec

(* The adapter keeps the contract of the port: the soft delete is where a    *)
(* Delete takes effect, and neither the purge after it, nor a name that is   *)
(* not free yet, changes an answer but to an error (azure.go:91-213).        *)
THEOREM AzureKeepsContract == Spec => KeepsContract
BY InitEstablishes, NextSound, PTL DEF Spec, KeepsContract, Contract!Spec

(* With purge_on_delete a Delete that reports success leaves no soft-deleted *)
(* secret of that name at its return, whoever purged, recovered or deleted   *)
(* it in the meantime (azure.go:9-11).                                       *)
THEOREM AzureNameFree == Spec => NameFree
<1>1. AzureInv /\ [Next]_vars =>
        [\A c \in Call :
            (purgeOnDelete /\ Asks(c, "delete") /\ Ending(c) /\ call'[c].outcome = Ok)
                => name' \in {"free", "live"}]_vars
  BY NextSound DEF FreesName
<1> QED BY <1>1, InitEstablishes, NextSound, PTL DEF Spec, NameFree

--------------------------------------------------------------------------------

(* How much a call still has to do: the steps it can take at most.           *)
StepsLeft(c) ==
    CASE call[c].at = "called"  -> 2 * MaxAttempts
      [] call[c].at = "purge"   -> 2 * (MaxAttempts - call[c].attempt) + 1
      [] call[c].at = "waiting" -> 2 * (MaxAttempts - call[c].attempt)
      [] OTHER                  -> 0

(* What the call a step is of has done since.                                *)
GetsOn(c) ==
    /\ \A d \in Call \ {c} : call'[d] = call[d]
    /\ StepsLeft(c)' < StepsLeft(c)

LEMMA StepsAreCounted ==
    ASSUME AzureInv, NEW c \in Call
    PROVE  /\ StepsLeft(c) \in Nat
           /\ StepsLeft(c) = 0 <=> ~Running(c)
<1>1. /\ call[c].at \in {"new", "called", "purge", "waiting", "done"}
      /\ call[c].attempt \in 0..MaxAttempts /\ MaxAttempts \in Nat \ {0}
      /\ call[c].at = "waiting" => call[c].attempt < MaxAttempts
  BY AzureAssumption DEF AzureInv, CallRecord, Fit
<1> QED BY <1>1 DEF StepsLeft, Running

LEMMA EndingGetsOn ==
    ASSUME AzureInv, NEW c \in Call, Running(c), NEW r, Ends(c, r)
    PROVE  GetsOn(c)
<1>1. call'[c].at = "done" /\ \A d \in Call \ {c} : call'[d] = call[d]
  BY DEF Ends, AzureInv, CallRecord
<1>2. StepsLeft(c)' = 0
  BY <1>1 DEF StepsLeft
<1>3. StepsLeft(c) > 0
  BY StepsAreCounted, AzureAssumption
<1> QED BY <1>1, <1>2, <1>3 DEF GetsOn

LEMMA DeletedGetsOn ==
    ASSUME AzureInv, NEW c \in Call, Deleted(c)
    PROVE  GetsOn(c)
<1>1. call[c].at = "called" /\ Running(c)
  BY Guards DEF Deleted, Deletes, Enters, At
<1>2. CASE purgeOnDelete
  <2>1. /\ call'[c].at = "purge" /\ call'[c].attempt = 1
        /\ \A d \in Call \ {c} : call'[d] = call[d]
    BY <1>2 DEF Deleted, AzureInv, CallRecord
  <2>2. StepsLeft(c)' = 2 * (MaxAttempts - 1) + 1 /\ StepsLeft(c) = 2 * MaxAttempts
    BY <1>1, <2>1 DEF StepsLeft
  <2> QED BY <2>1, <2>2, AzureAssumption DEF GetsOn
<1>3. CASE ~purgeOnDelete
  BY <1>1, <1>3, EndingGetsOn DEF Deleted
<1> QED BY <1>2, <1>3

LEMMA WaitingGetsOn ==
    ASSUME AzureInv, NEW c \in Call, call[c].at = "purge", Goes(c, "waiting")
    PROVE  GetsOn(c)
<1>1. /\ call'[c].at = "waiting" /\ call'[c].attempt = call[c].attempt
      /\ \A d \in Call \ {c} : call'[d] = call[d]
  BY DEF Goes, AzureInv, CallRecord
<1>2. call[c].attempt \in 0..MaxAttempts
  BY DEF AzureInv, CallRecord
<1> QED BY <1>1, <1>2, AzureAssumption DEF GetsOn, StepsLeft

LEMMA RetryGetsOn ==
    ASSUME AzureInv, NEW c \in Call, Retry(c)
    PROVE  GetsOn(c)
<1>1. /\ call[c].at = "waiting"
      /\ call'[c].at = "purge" /\ call'[c].attempt = call[c].attempt + 1
      /\ \A d \in Call \ {c} : call'[d] = call[d]
  BY DEF Retry, At, AzureInv, CallRecord
<1>2. call[c].attempt \in 0..MaxAttempts
  BY DEF AzureInv, CallRecord
<1> QED BY <1>1, <1>2, AzureAssumption DEF GetsOn, StepsLeft

LEMMA ProgressGetsOn ==
    ASSUME AzureInv, NEW c \in Call, Progress(c) \/ Fails(c)
    PROVE  GetsOn(c)
<1>1. CASE TurnAway(c)
  <2>1. Running(c)
    BY <1>1 DEF TurnAway, TurnsAway, Running
  <2> QED BY <1>1, <2>1, EndingGetsOn DEF TurnAway, TurnsAway
<1>2. CASE GetSecret(c)
  <2>1. Running(c)
    BY <1>2, Guards DEF GetSecret
  <2> QED BY <1>2, <2>1, EndingGetsOn DEF GetSecret
<1>3. CASE SetSecret(c)
  <2>1. Running(c)
    BY <1>3, Guards DEF SetSecret, Sets
  <2> QED BY <1>3, <2>1, EndingGetsOn DEF SetSecret
<1>4. CASE DeleteSecret(c)
  <2>1. CASE Enters(c, "delete") /\ Ends(c, NotFound)
    BY <2>1, Guards, EndingGetsOn
  <2> QED BY <1>4, <2>1, DeletedGetsOn DEF DeleteSecret
<1>5. CASE PurgesNothing(c) \/ Purged(c) \/ PurgeConflicts(c)
  <2>1. call[c].at = "purge" /\ Running(c)
    BY <1>5 DEF PurgesNothing, Purged, Purges, PurgeConflicts, At, Running
  <2>2. \/ Ends(c, Ok) \/ Ends(c, Failed)
        \/ Goes(c, "waiting")
    BY <1>5 DEF PurgesNothing, Purged, PurgeConflicts
  <2> QED BY <2>1, <2>2, EndingGetsOn, WaitingGetsOn
<1>6. CASE GivesUp(c)
  <2>1. Running(c)
    BY <1>6 DEF GivesUp, At, Running
  <2> QED BY <1>6, <2>1, EndingGetsOn DEF GivesUp
<1>7. CASE Fails(c)
  <2>1. Running(c)
    BY <1>7, Guards DEF Fails, Calls, Sets, Deletes, Purges, At, Running
  <2> QED BY <1>7, <2>1, EndingGetsOn DEF Fails
<1> QED BY <1>1, <1>2, <1>3, <1>4, <1>5, <1>6, <1>7, RetryGetsOn DEF Progress

(* No step lengthens a running call, and each of its own shortens it.        *)
Bounded ==
    \A c \in Call : Running(c) =>
        /\ StepsLeft(c)' <= StepsLeft(c)
        /\ call'[c] # call[c] => StepsLeft(c)' < StepsLeft(c)

(* What there is to Terminates besides fairness: from the moment it is called *)
(* a call makes no more than 2 * purgeAttempts steps, whatever the vault      *)
(* answers, however long it takes to settle and whatever others do meanwhile  *)
(* (azure.go:196-212).                                                        *)
THEOREM AzureBounded ==
    Spec => /\ [](\A c \in Call : StepsLeft(c) \in Nat
                                 /\ (StepsLeft(c) = 0 <=> ~Running(c)))
            /\ [][Bounded]_vars
<1>1. AzureInv => \A c \in Call : StepsLeft(c) \in Nat
                                 /\ (StepsLeft(c) = 0 <=> ~Running(c))
  BY StepsAreCounted
<1>2. AzureInv /\ [Next]_vars => [Bounded]_vars
  <2> SUFFICES ASSUME AzureInv, Next, NEW c \in Call, Running(c)
               PROVE  /\ StepsLeft(c)' <= StepsLeft(c)
                      /\ call'[c] # call[c] => StepsLeft(c)' < StepsLeft(c)
    BY DEF Bounded
  <2>1. StepsLeft(c) \in Int
    BY StepsAreCounted, AzureAssumption
  <2>2. ASSUME call'[c] = call[c]
        PROVE  StepsLeft(c)' <= StepsLeft(c)
    BY <2>1, <2>2 DEF StepsLeft
  <2>3. ASSUME NEW d \in Call, Progress(d) \/ Fails(d)
        PROVE  call'[c] = call[c] \/ StepsLeft(c)' < StepsLeft(c)
    BY <2>3, ProgressGetsOn DEF GetsOn
  <2>4. ASSUME NEW d \in Call, Begin(d)
        PROVE  call'[c] = call[c]
    <3>1. d # c
      BY <2>4 DEF Begin, Begins, Running
    <3> QED BY <2>4, <3>1 DEF Begin, Begins, AzureInv
  <2>5. ASSUME Settles \/ Outsider
        PROVE  call'[c] = call[c]
    BY <2>5 DEF Settles, Outsider
  <2>6. StepsLeft(c)' < StepsLeft(c) => StepsLeft(c)' <= StepsLeft(c)
    <3>1. AzureInv'
      BY NextSound
    <3>2. call'[c].attempt \in Int
      BY <3>1, AzureAssumption DEF AzureInv, CallRecord
    <3>3. StepsLeft(c)' \in Int
      BY <3>2, AzureAssumption DEF StepsLeft
    <3> QED BY <2>1, <3>3
  <2> QED BY <2>2, <2>3, <2>4, <2>5, <2>6 DEF Next
<1> QED BY <1>1, <1>2, InitEstablishes, NextSound, PTL DEF Spec
================================================================================
