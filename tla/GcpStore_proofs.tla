---------------------------- MODULE GcpStore_proofs ----------------------------
(***************************************************************************)
(* Proofs about GcpStore, for any number of calls and values and any       *)
(* number of changes made by others.                                       *)
(***************************************************************************)
EXTENDS GcpStore, TLAPS

-----------------------------------------------------------------------------
(* The inductive invariant. *)

CallRecord ==
    [op : Op \cup {NoOp},
     at : {"new", "called", "accessed", "create", "again", "add", "done"},
     outcome : Outcome, created : Nat, version : [of : Nat, number : Nat], excused : BOOLEAN]

StoreTypes ==
    /\ writable \in BOOLEAN
    /\ secret \in Container \cup {None}
    /\ Latest => secret.value \in Value
    /\ births \in Nat /\ outside \in 0..MaxOutside

\* What a call is doing, and what has come of it so far.
Fit(c) ==
    /\ call[c].at = "new" => call[c].op = NoOp /\ call[c].outcome = Pending
    /\ call[c].at # "new" => call[c].op \in Op
    /\ call[c].at = "called" => call[c].outcome = Pending
    /\ call[c].at = "accessed" => Asks(c, "get") /\ call[c].outcome \in {Found(v) : v \in Value}
    /\ call[c].at \in {"create", "again", "add"} =>
          Asks(c, "put") /\ Verdict(call[c].op) = Pending /\ call[c].outcome = Pending

\* As long as the secret is not removed, what a call has learned of it stays true.
Informed(c) ==
    ~call[c].excused =>
        /\ call[c].at = "again" => secret # None
        /\ call[c].at = "add" => secret # None /\ call[c].created = secret.created
        /\ call[c].at = "accessed" => secret # None /\ call[c].version.of = secret.created

\* RacingPutsSucceed and OneRevision of one call.
Judged(c) ==
    /\ (call[c].at = "done" /\ ~call[c].excused /\ Asks(c, "put")
           /\ Verdict(call[c].op) = Pending) => call[c].outcome = Ok
    /\ (Answered(c) /\ ~call[c].excused) => call[c].created = call[c].version.of

Story(c) == Fit(c) /\ Informed(c) /\ Judged(c)

GcpInv ==
    /\ StoreTypes
    /\ call \in [Call -> CallRecord]
    /\ \A c \in Call : Story(c)

-----------------------------------------------------------------------------
(* Operations, outcomes and containers. *)

LEMMA OutcomesDiffer ==
    /\ Pending # Ok /\ Pending # NotFound /\ Pending # ReadOnly /\ Pending # Failed
    /\ Ok # NotFound /\ Ok # ReadOnly /\ Ok # Failed
    /\ {Pending, Ok, NotFound, ReadOnly, Failed} \subseteq Outcome
    /\ \A v \in Value : Found(v) \in Outcome /\ Found(v) \notin {Pending, Ok, NotFound, ReadOnly, Failed}
BY DEF Pending, Ok, NotFound, ReadOnly, Failed, Ended, Found, Outcome

LEMMA Verdicts ==
    ASSUME NEW o \in Op
    PROVE  /\ Verdict(o) \in {Pending, ReadOnly, Failed}
           /\ Verdict(o) = Pending /\ o.kind = "put" => writable /\ o.value \in Value
           /\ Verdict(o) = Pending /\ o.kind = "delete" => writable
           /\ Verdict(o) = ReadOnly => ~writable /\ o.kind # "get"
<1>1. Pending # ReadOnly /\ Pending # Failed /\ ReadOnly # Failed
  BY DEF Pending, ReadOnly, Failed, Ended
<1> QED BY <1>1 DEF Verdict, Op

LEMMA NoOpIsNoOp == NoOp \notin Op /\ NoOp.kind \notin {"get", "put", "delete"}
BY DEF NoOp, Op

\* A version that is added or a container that is made is one, and not None.
LEMMA Containers ==
    ASSUME StoreTypes
    PROVE  /\ Made \in Container /\ Made # None
           /\ \A v \in Value :
                 /\ secret # None =>
                       LET s == [secret EXCEPT !.number = @ + 1, !.value = v, !.enabled = TRUE]
                       IN  /\ s \in Container /\ s # None /\ s.created = secret.created
                           /\ s.value = v /\ s.number > 0 /\ s.enabled
                           /\ s.number = secret.number + 1
                 /\ LET s == [Made EXCEPT !.number = 1, !.value = v, !.enabled = TRUE]
                    IN  s \in Container /\ s # None /\ s.value = v /\ s.number > 0 /\ s.enabled
           /\ secret # None =>
                 LET s == [secret EXCEPT !.enabled = ~@]
                 IN  /\ s \in Container /\ s # None /\ s.created = secret.created
                     /\ s.value = secret.value /\ s.number = secret.number
<1>1. None \notin Container /\ births \in Nat /\ secret \in Container \cup {None}
  BY ContainerAssumption DEF StoreTypes
<1>2. Made \in Container
  BY <1>1 DEF Container, Made
<1>3. ASSUME NEW v \in Value, secret # None
      PROVE  LET s == [secret EXCEPT !.number = @ + 1, !.value = v, !.enabled = TRUE]
             IN  /\ s \in Container /\ s.created = secret.created
                 /\ s.value = v /\ s.number > 0 /\ s.enabled /\ s.number = secret.number + 1
  <2> DEFINE n == secret.number + 1
  <2>1. secret \in Container /\ n \in Nat /\ n > 0
    BY <1>1, <1>3 DEF Container
  <2> HIDE DEF n
  <2> DEFINE s == [secret EXCEPT !.number = n, !.value = v, !.enabled = TRUE]
  <2>2. s \in Container
    BY <2>1 DEF Container
  <2>3. s.created = secret.created /\ s.number = n /\ s.value = v /\ s.enabled
    BY <2>1 DEF Container
  <2> QED BY <2>1, <2>2, <2>3 DEF n
<1>4. ASSUME NEW v \in Value
      PROVE  LET s == [Made EXCEPT !.number = 1, !.value = v, !.enabled = TRUE]
             IN  s \in Container /\ s.value = v /\ s.number > 0 /\ s.enabled
  <2> DEFINE n == births + 1
             s == [Made EXCEPT !.number = 1, !.value = v, !.enabled = TRUE]
  <2>1. Made = [created |-> n, number |-> 0, value |-> None, enabled |-> FALSE] /\ n \in Nat
    BY <1>1 DEF Made
  <2> HIDE DEF n
  <2>2. s \in Container
    BY <2>1 DEF Container
  <2>3. s.value = v /\ s.number = 1 /\ s.enabled
    BY <2>1
  <2> QED BY <2>2, <2>3
<1>5. ASSUME secret # None
      PROVE  LET s == [secret EXCEPT !.enabled = ~@]
             IN  /\ s \in Container /\ s.created = secret.created
                 /\ s.value = secret.value /\ s.number = secret.number
  BY <1>1, <1>5 DEF Container
<1> QED BY <1>1, <1>2, <1>3, <1>4, <1>5

-----------------------------------------------------------------------------
(* What a step does to the other calls. *)

\* The secret is the same one, though it may have a newer version.
SameSecret == secret # None => secret' # None /\ secret'.created = secret.created

LEMMA Bystander ==
    ASSUME NEW d \in Call, Story(d), SameSecret, call'[d] = call[d], writable' = writable
    PROVE  Story(d)'
BY DEF Story, Fit, Informed, Judged, Answered, SameSecret, Asks, Verdict

\* The secret is removed under a call.
LEMMA Bereft ==
    ASSUME NEW d \in Call, Story(d), call[d] \in CallRecord, writable' = writable,
           call'[d] = [call[d] EXCEPT !.excused = @ \/ call[d].at \notin {"new", "done"}]
    PROVE  /\ Story(d)' /\ call'[d] \in CallRecord
           /\ call'[d].op = call[d].op /\ call'[d].at = call[d].at
           /\ call'[d].outcome = call[d].outcome
<1>1. /\ call'[d].op = call[d].op /\ call'[d].at = call[d].at
      /\ call'[d].outcome = call[d].outcome /\ call'[d].created = call[d].created
      /\ call'[d].version = call[d].version
      /\ call'[d].excused = (call[d].excused \/ call[d].at \notin {"new", "done"})
      /\ call'[d] \in CallRecord
  BY DEF CallRecord
<1>2. Fit(d)' /\ Informed(d)'
  BY <1>1 DEF Story, Fit, Informed, Asks, Verdict
<1>3. Judged(d)'
  BY <1>1 DEF Story, Judged, Answered, Asks, Verdict
<1> QED BY <1>1, <1>2, <1>3 DEF Story

\* A step that changes one call and removes no secret.
LEMMA OneCall ==
    ASSUME GcpInv, NEW c \in Call, NEW rec \in CallRecord, call' = [call EXCEPT ![c] = rec],
           writable' = writable, SameSecret, StoreTypes', Story(c)'
    PROVE  GcpInv'
<1>1. /\ call' \in [Call -> CallRecord]
      /\ \A d \in Call \ {c} : call'[d] = call[d]
  BY DEF GcpInv
<1>2. \A d \in Call \ {c} : Story(d)'
  BY <1>1, Bystander DEF GcpInv
<1> QED BY <1>1, <1>2 DEF GcpInv

\* One that removes it, and is the end of a call.
LEMMA OneRemoval ==
    ASSUME GcpInv, NEW c \in Call, NEW rec \in CallRecord, rec.at = "done",
           call' = Removed([call EXCEPT ![c] = rec]),
           writable' = writable, StoreTypes',
           (call'[c] = rec) => Story(c)'
    PROVE  GcpInv' /\ call'[c] = rec
<1> DEFINE f(d) == [[call EXCEPT ![c] = rec][d]
                       EXCEPT !.excused = @ \/ [call EXCEPT ![c] = rec][d].at \notin {"new", "done"}]
<1>1. call' = [d \in Call |-> f(d)]
  BY DEF Removed
<1>2. f(c) = rec
  BY DEF GcpInv, CallRecord
<1>3. ASSUME NEW d \in Call, d # c
      PROVE  f(d) = [call[d] EXCEPT !.excused = @ \/ call[d].at \notin {"new", "done"}]
  BY <1>3 DEF GcpInv
<1> HIDE DEF f
<1>4. call'[c] = rec /\ DOMAIN call' = Call /\ call' = [d \in Call |-> call'[d]]
  BY <1>1, <1>2
<1>5. ASSUME NEW d \in Call, d # c PROVE Story(d)' /\ call'[d] \in CallRecord
  BY <1>1, <1>3, <1>5, Bereft DEF GcpInv
<1>6. call' \in [Call -> CallRecord]
  BY <1>4, <1>5
<1> QED BY <1>4, <1>5, <1>6 DEF GcpInv

-----------------------------------------------------------------------------
(* The steps of a call. *)

\* A step of a call that leaves the secret alone.
LEMMA QuietCall ==
    ASSUME GcpInv, NEW c \in Call, NEW rec \in CallRecord, call' = [call EXCEPT ![c] = rec],
           UNCHANGED <<writable, secret, births>>, outside' \in 0..MaxOutside,
           (call'[c] = rec) => Story(c)'
    PROVE  GcpInv' /\ call'[c] = rec
<1>1. SameSecret /\ StoreTypes' /\ call'[c] = rec
  BY DEF SameSecret, GcpInv, StoreTypes, Latest
<1> QED BY <1>1, OneCall

LEMMA Enters1 ==
    ASSUME GcpInv, NEW c \in Call, NEW kind \in {"get", "put", "delete"}, Enters(c, kind)
    PROVE  /\ call[c].at = "called" /\ call[c].op \in Op /\ call[c].op.kind = kind
           /\ Verdict(call[c].op) = Pending /\ call[c].outcome = Pending
BY DEF Enters, At, Asks, GcpInv, Story, Fit

LEMMA BeginKeeps == ASSUME GcpInv, NEW c \in Call, Begin(c) PROVE GcpInv'
<1>1. PICK o \in Op : call' = [call EXCEPT ![c].op = o, ![c].at = "called"]
  BY DEF Begin, Begins
<1> DEFINE rec == [call[c] EXCEPT !.op = o, !.at = "called"]
<1>2. call[c] \in CallRecord /\ Story(c) /\ call[c].at = "new"
  BY DEF GcpInv, Begin, Begins
<1>3. /\ rec \in CallRecord /\ rec.at = "called" /\ rec.op = o
      /\ rec.outcome = Pending
  BY <1>2 DEF CallRecord, Story, Fit
<1>4. call' = [call EXCEPT ![c] = rec]
  BY <1>1
<1> HIDE DEF rec
<1>5. call'[c] = rec => Story(c)'
  BY <1>3 DEF Story, Fit, Informed, Judged, Answered
<1>6. UNCHANGED <<writable, secret, births>> /\ outside' \in 0..MaxOutside
  BY DEF Begin, Quiet, GcpInv, StoreTypes
<1> QED BY <1>3, <1>4, <1>5, <1>6, QuietCall

LEMMA TurnAwayKeeps == ASSUME GcpInv, NEW c \in Call, TurnAway(c) PROVE GcpInv'
<1> DEFINE verdict == Verdict(call[c].op)
<1> DEFINE rec == [call[c] EXCEPT !.at = "done", !.outcome = verdict]
<1>1. call[c] \in CallRecord /\ Story(c) /\ call[c].at = "called" /\ call[c].op \in Op
  BY DEF GcpInv, TurnAway, TurnsAway, Story, Fit
<1>2. verdict \in {ReadOnly, Failed} /\ verdict # Pending
  BY <1>1, Verdicts DEF TurnAway, TurnsAway
<1> HIDE DEF verdict
<1>3. /\ rec \in CallRecord /\ rec.at = "done" /\ rec.op = call[c].op
      /\ rec.outcome = verdict
  BY <1>1, <1>2, OutcomesDiffer DEF CallRecord
<1>4. call' = [call EXCEPT ![c] = rec]
  BY DEF TurnAway, TurnsAway, Ends, verdict
<1> HIDE DEF rec
<1>5. UNCHANGED <<writable, secret, births>> /\ outside' \in 0..MaxOutside
  BY DEF TurnAway, Quiet, GcpInv, StoreTypes
<1>6. call'[c] = rec => Story(c)'
  <2> SUFFICES ASSUME call'[c] = rec PROVE Story(c)'
    OBVIOUS
  <2>1. Verdict(call[c].op)' = verdict
    BY <1>3, <1>5 DEF Verdict, verdict
  <2> QED BY <1>1, <1>2, <1>3, <2>1, OutcomesDiffer DEF Story, Fit, Informed, Judged, Answered
<1> QED BY <1>3, <1>4, <1>5, <1>6, QuietCall

\* A call that learns nothing ends well unless it is a Put that nothing excuses.
LEMMA EndKeeps ==
    ASSUME GcpInv, NEW c \in Call, NEW r \in {NotFound, Failed}, Ends(c, r), Quiet,
           call[c].op \in Op, Asks(c, "put") => call[c].excused
    PROVE  GcpInv'
<1> DEFINE rec == [call[c] EXCEPT !.at = "done", !.outcome = r]
<1>1. call[c] \in CallRecord
  BY DEF GcpInv
<1>2. /\ rec \in CallRecord /\ rec.at = "done" /\ rec.op = call[c].op
      /\ rec.outcome = r /\ rec.excused = call[c].excused
  BY <1>1, OutcomesDiffer DEF CallRecord
<1>3. call' = [call EXCEPT ![c] = rec]
  BY DEF Ends
<1> HIDE DEF rec
<1>4. UNCHANGED <<writable, secret, births>> /\ outside' \in 0..MaxOutside
  BY DEF Quiet, GcpInv, StoreTypes
<1>5. call'[c] = rec => Story(c)'
  BY <1>2, OutcomesDiffer DEF Story, Fit, Informed, Judged, Answered, Asks
<1> QED BY <1>2, <1>3, <1>4, <1>5, QuietCall

LEMMA AccessKeeps == ASSUME GcpInv, NEW c \in Call, AccessSecretVersion(c) PROVE GcpInv'
<1>1. /\ call[c] \in CallRecord /\ Story(c) /\ StoreTypes
      /\ call[c].at = "called" /\ call[c].op \in Op /\ Asks(c, "get") /\ ~Asks(c, "put")
  BY Enters1 DEF GcpInv, AccessSecretVersion, Asks
<1>2. CASE ~Latest /\ Misses(c)
  BY <1>1, <1>2, EndKeeps DEF Misses
<1>3. CASE Latest /\ ~secret.enabled /\ Ends(c, Failed) /\ Quiet
  BY <1>1, <1>3, EndKeeps
<1>4. CASE /\ Latest /\ secret.enabled
           /\ call' = [call EXCEPT ![c].at = "accessed", ![c].outcome = Found(secret.value),
                                   ![c].version = Version]
           /\ Quiet
  <2> DEFINE rec == [call[c] EXCEPT !.at = "accessed", !.outcome = Found(secret.value),
                                    !.version = Version]
  <2>1. secret \in Container /\ secret # None /\ secret.value \in Value
    BY <1>1, <1>4 DEF StoreTypes, Latest
  <2>2. Version \in [of : Nat, number : Nat] /\ Version.of = secret.created
    BY <2>1 DEF Version, Container
  <2>3. Found(secret.value) \in {Found(v) : v \in Value} /\ Found(secret.value) \in Outcome
    BY <2>1, OutcomesDiffer
  <2>4. /\ rec \in CallRecord /\ rec.at = "accessed" /\ rec.op = call[c].op
        /\ rec.outcome = Found(secret.value) /\ rec.version = Version
    BY <1>1, <2>2, <2>3 DEF CallRecord
  <2>5. call' = [call EXCEPT ![c] = rec]
    BY <1>4
  <2> HIDE DEF rec
  <2>6. UNCHANGED <<writable, secret, births>> /\ outside' \in 0..MaxOutside
    BY <1>1, <1>4 DEF Quiet, StoreTypes
  <2>7. call'[c] = rec => Story(c)'
    BY <1>1, <2>1, <2>2, <2>3, <2>4, <2>6
       DEF Story, Fit, Informed, Judged, Answered, Asks
  <2> QED BY <2>4, <2>5, <2>6, <2>7, QuietCall
<1> QED BY <1>2, <1>3, <1>4 DEF AccessSecretVersion

LEMMA CreateTimeKeeps == ASSUME GcpInv, NEW c \in Call, GetCreateTime(c) PROVE GcpInv'
<1>1. /\ call[c] \in CallRecord /\ Story(c) /\ StoreTypes
      /\ call[c].at = "accessed" /\ call[c].op \in Op /\ Asks(c, "get") /\ ~Asks(c, "put")
  BY DEF GcpInv, GetCreateTime, Asks, At, Story, Fit
<1>2. CASE secret = None /\ Misses(c)
  BY <1>1, <1>2, EndKeeps DEF Misses
<1>3. CASE /\ secret # None
           /\ call' = [call EXCEPT ![c].at = "done", ![c].created = secret.created]
           /\ Quiet
  <2> DEFINE rec == [call[c] EXCEPT !.at = "done", !.created = secret.created]
  <2>1. secret.created \in Nat
    BY <1>1, <1>3 DEF StoreTypes, Container
  <2>2. /\ rec \in CallRecord /\ rec.at = "done" /\ rec.op = call[c].op
        /\ rec.created = secret.created /\ rec.version = call[c].version
        /\ rec.excused = call[c].excused
    BY <1>1, <2>1 DEF CallRecord
  <2>3. call' = [call EXCEPT ![c] = rec]
    BY <1>3
  <2> HIDE DEF rec
  <2>4. UNCHANGED <<writable, secret, births>> /\ outside' \in 0..MaxOutside
    BY <1>1, <1>3 DEF Quiet, StoreTypes
  <2>5. call'[c] = rec => Story(c)'
    BY <1>1, <2>2 DEF Story, Fit, Informed, Judged, Answered, Asks
  <2> QED BY <2>2, <2>3, <2>4, <2>5, QuietCall
<1> QED BY <1>2, <1>3 DEF GetCreateTime

\* A Put that is past its first question.
Putting(c) == Asks(c, "put") /\ Verdict(call[c].op) = Pending /\ call[c].outcome = Pending

LEMMA HasSecretKeeps ==
    ASSUME GcpInv, NEW c \in Call, HasSecret(c), Putting(c), call[c].op \in Op PROVE GcpInv'
<1> DEFINE rec == [call[c] EXCEPT !.at = "add", !.created = secret.created]
<1>1. call[c] \in CallRecord /\ StoreTypes /\ secret # None
  BY DEF GcpInv, HasSecret
<1>2. secret.created \in Nat
  BY <1>1 DEF StoreTypes, Container
<1>3. /\ rec \in CallRecord /\ rec.at = "add" /\ rec.op = call[c].op
      /\ rec.created = secret.created /\ rec.outcome = call[c].outcome
  BY <1>1, <1>2 DEF CallRecord
<1>4. call' = [call EXCEPT ![c] = rec]
  BY DEF HasSecret
<1> HIDE DEF rec
<1>5. UNCHANGED <<writable, secret, births>> /\ outside' \in 0..MaxOutside
  BY <1>1 DEF HasSecret, Quiet, StoreTypes
<1>6. call'[c] = rec => Story(c)'
  BY <1>1, <1>3, <1>5 DEF Putting, Story, Fit, Informed, Judged, Answered, Asks, Verdict
<1> QED BY <1>3, <1>4, <1>5, <1>6, QuietCall

LEMMA GoesKeeps ==
    ASSUME GcpInv, NEW c \in Call, NEW stage \in {"create", "again"}, Goes(c, stage), Quiet,
           Putting(c), call[c].op \in Op, stage = "again" => secret # None
    PROVE  GcpInv'
<1> DEFINE rec == [call[c] EXCEPT !.at = stage]
<1>1. call[c] \in CallRecord /\ StoreTypes
  BY DEF GcpInv
<1>2. /\ rec \in CallRecord /\ rec.at = stage /\ rec.op = call[c].op
      /\ rec.outcome = call[c].outcome
  BY <1>1 DEF CallRecord
<1>3. call' = [call EXCEPT ![c] = rec]
  BY DEF Goes
<1> HIDE DEF rec
<1>4. UNCHANGED <<writable, secret, births>> /\ outside' \in 0..MaxOutside
  BY <1>1 DEF Quiet, StoreTypes
<1>5. call'[c] = rec => Story(c)'
  BY <1>1, <1>2, <1>4 DEF Putting, Story, Fit, Informed, Judged, Answered, Asks, Verdict
<1> QED BY <1>2, <1>3, <1>4, <1>5, QuietCall

LEMMA GetSecretKeeps == ASSUME GcpInv, NEW c \in Call, GetSecret(c) PROVE GcpInv'
<1>1. Putting(c) /\ call[c].op \in Op
  BY Enters1 DEF GetSecret, Putting, Asks
<1> QED BY <1>1, HasSecretKeeps, GoesKeeps DEF GetSecret

LEMMA CreateKeeps == ASSUME GcpInv, NEW c \in Call, CreateSecret(c) PROVE GcpInv'
<1> DEFINE n == births + 1
<1> DEFINE rec == [call[c] EXCEPT !.at = "add", !.created = n]
<1>1. /\ call[c] \in CallRecord /\ StoreTypes /\ Story(c) /\ Putting(c) /\ call[c].op \in Op
      /\ n \in Nat /\ Made.created = n
  BY DEF GcpInv, CreateSecret, Creates, At, Story, Fit, Putting, StoreTypes, Made
<1>2. CASE /\ Creates(c)
           /\ call' = [call EXCEPT ![c].at = "add", ![c].created = births + 1]
           /\ UNCHANGED <<writable, outside>>
  <2>1. births' = n /\ secret = None /\ secret' = Made
    BY <1>2 DEF Creates
  <2>2. call' = [call EXCEPT ![c].at = "add", ![c].created = n]
    BY <1>2
  <2> HIDE DEF n
  <2>3. /\ rec \in CallRecord /\ rec.at = "add" /\ rec.op = call[c].op
        /\ rec.created = n /\ rec.outcome = call[c].outcome
    BY <1>1 DEF CallRecord
  <2>4. call' = [call EXCEPT ![c] = rec]
    BY <2>2
  <2> HIDE DEF rec
  <2>5. call'[c] = rec
    BY <2>4 DEF GcpInv
  <2>6. Made \in Container /\ Made # None /\ Made.number = 0
    BY <1>1, Containers DEF Made
  <2>7. StoreTypes'
    BY <1>1, <1>2, <2>1, <2>6 DEF StoreTypes, Latest
  <2>8. SameSecret
    BY <2>1 DEF SameSecret
  <2>9. Story(c)'
    BY <1>1, <1>2, <2>1, <2>3, <2>5, <2>6
       DEF Putting, Story, Fit, Informed, Judged, Answered, Asks, Verdict
  <2> QED BY <1>2, <2>3, <2>4, <2>7, <2>8, <2>9, OneCall
<1>3. CASE At(c, "put", "create") /\ secret # None /\ Goes(c, "again") /\ Quiet
  BY <1>1, <1>3, GoesKeeps
<1> QED BY <1>2, <1>3 DEF CreateSecret

LEMMA GetAgainKeeps == ASSUME GcpInv, NEW c \in Call, GetSecretAgain(c) PROVE GcpInv'
<1>1. /\ Putting(c) /\ call[c].op \in Op /\ call[c].at = "again"
      /\ ~call[c].excused => secret # None
  BY DEF GcpInv, GetSecretAgain, At, Story, Fit, Informed, Putting
<1>2. CASE HasSecret(c)
  BY <1>1, <1>2, HasSecretKeeps
<1>3. CASE secret = None /\ Misses(c)
  <2>1. call[c].excused
    BY <1>1, <1>3 DEF GcpInv, CallRecord
  <2> QED BY <1>1, <1>3, <2>1, EndKeeps DEF Misses
<1> QED BY <1>2, <1>3 DEF GetSecretAgain

\* The value a call adds is one, and the secret stays the same.
LEMMA Adding ==
    ASSUME GcpInv, NEW c \in Call, Adds(c), outside' \in 0..MaxOutside,
           UNCHANGED <<writable, births>>
    PROVE  /\ StoreTypes' /\ SameSecret /\ secret' # None /\ secret.created \in Nat
           /\ secret'.number = secret.number + 1 /\ secret.number + 1 \in Nat
<1>1. /\ StoreTypes /\ secret # None /\ call[c].op.value \in Value
  BY Verdicts DEF GcpInv, Adds, At, Story, Fit, Asks
<1> DEFINE s == [secret EXCEPT !.number = @ + 1, !.value = call[c].op.value, !.enabled = TRUE]
<1>2. /\ s \in Container /\ s # None /\ s.created = secret.created
      /\ s.value \in Value /\ s.number = secret.number + 1
  BY <1>1, Containers
<1>3. secret' = s
  BY DEF Adds
<1>4. secret.created \in Nat /\ secret.number \in Nat
  BY <1>1 DEF StoreTypes, Container
<1> HIDE DEF s
<1> QED BY <1>1, <1>2, <1>3, <1>4 DEF StoreTypes, SameSecret, Latest

LEMMA AddKeeps == ASSUME GcpInv, NEW c \in Call, AddSecretVersion(c) PROVE GcpInv'
<1>1. /\ Putting(c) /\ call[c].op \in Op /\ call[c].at = "add" /\ Story(c)
      /\ ~call[c].excused => secret # None /\ call[c].created = secret.created
      /\ call[c] \in CallRecord /\ StoreTypes
  BY DEF GcpInv, AddSecretVersion, Adds, At, Story, Fit, Informed, Putting
<1>2. CASE At(c, "put", "add") /\ secret = None /\ Misses(c)
  <2>1. call[c].excused
    BY <1>1, <1>2 DEF GcpInv, CallRecord
  <2> QED BY <1>1, <1>2, <2>1, EndKeeps DEF Misses
<1>3. CASE /\ Adds(c)
           /\ call' = [call EXCEPT ![c].at = "done", ![c].outcome = Ok,
                        ![c].version = [of |-> secret.created, number |-> secret.number + 1]]
           /\ UNCHANGED <<writable, births, outside>>
  <2> DEFINE version == [of |-> secret.created, number |-> secret.number + 1]
             rec == [call[c] EXCEPT !.at = "done", !.outcome = Ok, !.version = version]
  <2>1. /\ StoreTypes' /\ SameSecret /\ secret' # None /\ secret.created \in Nat
        /\ secret.number + 1 \in Nat
    BY <1>1, <1>3, Adding DEF StoreTypes
  <2>2. version \in [of : Nat, number : Nat] /\ version.of = secret.created
    BY <2>1
  <2>3. call' = [call EXCEPT ![c] = rec]
    BY <1>3
  <2> HIDE DEF version
  <2>4. /\ rec \in CallRecord /\ rec.at = "done" /\ rec.op = call[c].op
        /\ rec.created = call[c].created /\ rec.outcome = Ok /\ rec.version = version
        /\ rec.excused = call[c].excused
    BY <1>1, <2>2, OutcomesDiffer DEF CallRecord
  <2> HIDE DEF rec
  <2>5. call'[c] = rec
    BY <2>3 DEF GcpInv
  <2>6. Story(c)'
    BY <1>1, <2>2, <2>4, <2>5, OutcomesDiffer DEF Story, Fit, Informed, Judged, Answered, Asks
  <2> QED BY <1>3, <2>1, <2>3, <2>4, <2>6, OneCall
<1> QED BY <1>2, <1>3 DEF AddSecretVersion

LEMMA DeleteKeeps == ASSUME GcpInv, NEW c \in Call, DeleteSecret(c) PROVE GcpInv'
<1>1. /\ call[c].op \in Op /\ Asks(c, "delete") /\ ~Asks(c, "put")
      /\ call[c] \in CallRecord /\ StoreTypes
  BY Enters1 DEF GcpInv, DeleteSecret, DeletesSecret, Asks
<1>2. CASE Enters(c, "delete") /\ secret = None /\ Misses(c)
  BY <1>1, <1>2, EndKeeps DEF Misses
<1>3. CASE /\ DeletesSecret(c)
           /\ call' = Removed([call EXCEPT ![c].at = "done", ![c].outcome = Ok])
           /\ UNCHANGED <<writable, births, outside>>
  <2> DEFINE rec == [call[c] EXCEPT !.at = "done", !.outcome = Ok]
  <2>1. /\ rec \in CallRecord /\ rec.at = "done" /\ rec.op = call[c].op /\ rec.outcome = Ok
    BY <1>1, OutcomesDiffer DEF CallRecord
  <2>2. [call EXCEPT ![c].at = "done", ![c].outcome = Ok] = [call EXCEPT ![c] = rec]
    OBVIOUS
  <2>3. call' = Removed([call EXCEPT ![c] = rec])
    BY <1>3, <2>2
  <2> HIDE DEF rec
  <2>4. StoreTypes'
    BY <1>1, <1>3 DEF StoreTypes, DeletesSecret, Latest
  <2>5. call'[c] = rec => Story(c)'
    BY <1>1, <2>1 DEF Story, Fit, Informed, Judged, Answered, Asks
  <2> QED BY <1>3, <2>1, <2>3, <2>4, <2>5, OneRemoval
<1> QED BY <1>2, <1>3 DEF DeleteSecret

\* A call that fails is excused, whatever has become of the secret.
LEMMA Failing ==
    ASSUME GcpInv, NEW c \in Call, Running(c)
    PROVE  \E rec \in CallRecord :
              /\ rec.at = "done"
              /\ Failure(c) = [call EXCEPT ![c] = rec]
              /\ (call'[c] = rec) => Story(c)'
<1> DEFINE rec == [call[c] EXCEPT !.at = "done", !.outcome = Failed, !.excused = TRUE]
<1>1. call[c] \in CallRecord /\ call[c].op \in Op
  BY DEF GcpInv, Story, Fit, Running
<1>2. /\ rec \in CallRecord /\ rec.at = "done" /\ rec.op = call[c].op /\ rec.excused
  BY <1>1, OutcomesDiffer DEF CallRecord
<1>3. Failure(c) = [call EXCEPT ![c] = rec]
  BY DEF Failure
<1> HIDE DEF rec
<1>4. call'[c] = rec => Story(c)'
  BY <1>1, <1>2 DEF Story, Fit, Informed, Judged, Answered
<1> QED BY <1>2, <1>3, <1>4

LEMMA FailsKeeps == ASSUME GcpInv, NEW c \in Call, Fails(c) PROVE GcpInv'
<1>1. Running(c)
  BY DEF Fails, Calls, Creates, Adds, DeletesSecret, Enters, At, Running
<1>2. PICK rec \in CallRecord :
         /\ rec.at = "done"
         /\ Failure(c) = [call EXCEPT ![c] = rec]
         /\ (call'[c] = rec) => Story(c)'
  BY <1>1, Failing
<1>3. /\ outside' \in 0..MaxOutside /\ StoreTypes /\ call \in [Call -> CallRecord]
      /\ UNCHANGED writable
  BY BlankAssumption DEF Fails, GcpInv, StoreTypes
<1>4. CASE Calls(c) /\ call' = Failure(c) /\ UNCHANGED <<writable, secret, births>>
  BY <1>2, <1>3, <1>4, QuietCall
<1>5. CASE Creates(c) /\ call' = Failure(c)
  <2>0. Made \in Container /\ Made # None /\ Made.number = 0
    BY <1>3, Containers DEF Made
  <2>1. StoreTypes' /\ SameSecret
    BY <1>3, <1>5, <2>0 DEF StoreTypes, Creates, SameSecret, Latest
  <2>2. call'[c] = rec
    BY <1>2, <1>3, <1>5
  <2> QED BY <1>2, <1>3, <1>5, <2>1, <2>2, OneCall
<1>6. CASE Adds(c) /\ call' = Failure(c) /\ UNCHANGED <<writable, births>>
  <2>1. call'[c] = rec
    BY <1>2, <1>3, <1>6
  <2> QED BY <1>2, <1>3, <1>6, <2>1, Adding, OneCall
<1>7. CASE DeletesSecret(c) /\ call' = Removed(Failure(c)) /\ UNCHANGED <<writable, births>>
  <2>1. StoreTypes'
    BY <1>3, <1>7 DEF StoreTypes, DeletesSecret, Latest
  <2> QED BY <1>2, <1>3, <1>7, <2>1, OneRemoval
<1> QED BY <1>4, <1>5, <1>6, <1>7 DEF Fails

LEMMA OutsiderKeeps == ASSUME GcpInv, Outsider PROVE GcpInv'
<1>0. outside < MaxOutside /\ outside' = outside + 1 /\ UNCHANGED writable
  BY DEF Outsider
<1>1. /\ outside' \in 0..MaxOutside /\ StoreTypes /\ call \in [Call -> CallRecord]
      /\ UNCHANGED writable
  BY <1>0, BlankAssumption DEF GcpInv, StoreTypes
<1>2. ASSUME UNCHANGED call, SameSecret, StoreTypes' PROVE GcpInv'
  BY <1>1, <1>2, Bystander DEF GcpInv
<1>3. ASSUME secret = None, NEW v \in Value, births' = births + 1, UNCHANGED call,
             secret' = [Made EXCEPT !.number = 1, !.value = v, !.enabled = TRUE]
      PROVE  GcpInv'
  <2> DEFINE s == [Made EXCEPT !.number = 1, !.value = v, !.enabled = TRUE]
  <2>1. s \in Container /\ s # None /\ s.value = v
    BY <1>1, <1>3, Containers
  <2>2. secret' = s
    BY <1>3
  <2> HIDE DEF s
  <2>3. StoreTypes'
    BY <1>1, <1>3, <2>1, <2>2 DEF StoreTypes, Latest
  <2> QED BY <1>2, <1>3, <2>3 DEF SameSecret
<1>4. ASSUME secret # None, NEW v \in Value, UNCHANGED <<births, call>>,
             secret' = [secret EXCEPT !.number = @ + 1, !.value = v, !.enabled = TRUE]
      PROVE  GcpInv'
  <2> DEFINE s == [secret EXCEPT !.number = @ + 1, !.value = v, !.enabled = TRUE]
  <2>1. s \in Container /\ s # None /\ s.created = secret.created /\ s.value = v
    BY <1>1, <1>4, Containers
  <2>2. secret' = s
    BY <1>4
  <2> HIDE DEF s
  <2>3. StoreTypes' /\ SameSecret
    BY <1>1, <1>4, <2>1, <2>2 DEF StoreTypes, Latest, SameSecret
  <2> QED BY <1>2, <1>4, <2>3
<1>5. ASSUME Latest, secret' = [secret EXCEPT !.enabled = ~@], UNCHANGED <<births, call>>
      PROVE  GcpInv'
  <2> DEFINE s == [secret EXCEPT !.enabled = ~@]
  <2>1. /\ s \in Container /\ s # None /\ s.created = secret.created
        /\ s.value = secret.value
    BY <1>1, <1>5, Containers DEF Latest
  <2>2. secret' = s
    BY <1>5
  <2> HIDE DEF s
  <2>3. StoreTypes' /\ SameSecret
    BY <1>1, <1>5, <2>1, <2>2 DEF StoreTypes, Latest, SameSecret
  <2> QED BY <1>2, <1>5, <2>3
<1>6. ASSUME secret' = None, call' = Removed(call), UNCHANGED births PROVE GcpInv'
  <2>1. StoreTypes'
    BY <1>1, <1>6 DEF StoreTypes, Latest
  <2> DEFINE f(d) == [call[d] EXCEPT !.excused = @ \/ call[d].at \notin {"new", "done"}]
  <2>2. call' = [d \in Call |-> f(d)]
    BY <1>6 DEF Removed
  <2>3. ASSUME NEW d \in Call PROVE Story(d)' /\ call'[d] \in CallRecord
    BY <1>1, <2>2, Bereft DEF GcpInv
  <2> HIDE DEF f
  <2>4. call' \in [Call -> CallRecord]
    BY <2>2, <2>3
  <2> QED BY <2>1, <2>3, <2>4 DEF GcpInv
<1> QED BY <1>3, <1>4, <1>5, <1>6 DEF Outsider

-----------------------------------------------------------------------------
(* The invariant of the adapter. *)

LEMMA InitEstablishes == Init => GcpInv
<1> SUFFICES ASSUME Init PROVE GcpInv
  OBVIOUS
<1>1. StoreTypes
  <2>1. writable \in BOOLEAN /\ outside \in 0..MaxOutside
    BY BlankAssumption DEF Init
  <2>2. CASE secret = None /\ births = 0
    BY <2>1, <2>2 DEF StoreTypes, Latest
  <2>3. ASSUME NEW v \in Value, births = 1,
               secret = [created |-> 1, number |-> 1, value |-> v, enabled |-> TRUE]
        PROVE  StoreTypes
    BY <2>1, <2>3 DEF StoreTypes, Latest, Container
  <2> QED BY <2>2, <2>3 DEF Init
<1>2. call = [c \in Call |-> Idle] /\ Idle \in CallRecord
  BY OutcomesDiffer DEF Init, Idle, CallRecord
<1>3. \A c \in Call : Story(c)
  BY <1>2 DEF Idle, Story, Fit, Informed, Judged, Answered
<1> QED BY <1>1, <1>2, <1>3 DEF GcpInv

LEMMA NextKeeps == ASSUME GcpInv, [Next]_vars PROVE GcpInv'
<1>1. ASSUME NEW c \in Call, Step(c) PROVE GcpInv'
  BY <1>1, BeginKeeps, TurnAwayKeeps, AccessKeeps, CreateTimeKeeps, GetSecretKeeps, CreateKeeps,
     GetAgainKeeps, AddKeeps, DeleteKeeps, FailsKeeps DEF Step
<1>2. CASE UNCHANGED vars
  BY <1>2 DEF vars, GcpInv, StoreTypes, Latest, Story, Fit, Informed, Judged, Answered, Asks, Verdict
<1> QED BY <1>1, <1>2, OutsiderKeeps DEF Next

(* What a call has learned of the secret stays true until the secret is      *)
(* removed, however many replicas of the server run gcp.go:133-272 at a time. *)
THEOREM GcpInvariance == Spec => []GcpInv
BY InitEstablishes, NextKeeps, PTL DEF Spec

(* The variables keep their types: no version is ever without a value.       *)
THEOREM GcpTypes == Spec => []TypeOK
<1>1. GcpInv => TypeOK
  BY DEF GcpInv, StoreTypes, CallRecord, TypeOK
<1> QED BY <1>1, GcpInvariance, PTL

(* Concurrent Puts of a new key all succeed, unless the API fails or the     *)
(* secret is removed while they run (gcp.go:189).                            *)
THEOREM GcpRacingPutsSucceed == Spec => []RacingPutsSucceed
<1>1. GcpInv => RacingPutsSucceed
  BY DEF GcpInv, Story, Judged, RacingPutsSucceed
<1> QED BY <1>1, GcpInvariance, PTL

(* The create time and the version of an answer are those of one secret, as  *)
(* long as the secret is not removed between the API calls they come from    *)
(* (gcp.go:151, 176 and 192).                                                *)
THEOREM GcpOneRevision == Spec => []OneRevision
<1>1. GcpInv => OneRevision
  BY DEF GcpInv, Story, Judged, OneRevision
<1> QED BY <1>1, GcpInvariance, PTL

-----------------------------------------------------------------------------
(* The refinement: what the contract sees of the adapter. *)

View(rec) ==
    [op |-> rec.op, outcome |-> rec.outcome,
     at |-> IF rec.at \notin {"new", "done"} THEN "running" ELSE rec.at]

SeenRecord == [op : Op \cup {NoOp}, outcome : Outcome, at : {"new", "running", "done"}]

Seen == [c \in Call |-> View(call[c])]

\* The step changes what is seen of c alone.
Only(c) == DOMAIN call' = Call /\ \A d \in Call \ {c} : View(call'[d]) = View(call[d])

Unseen == Seen' = Seen

\* The contract's notions are those of the adapter.
LEMMA ContractNotions ==
    /\ Contract!C!Op = Op /\ Contract!C!Outcome = Outcome /\ Contract!C!NoOp = NoOp
    /\ Contract!C!Pending = Pending /\ Contract!C!Ok = Ok /\ Contract!C!NotFound = NotFound
    /\ Contract!C!ReadOnly = ReadOnly /\ Contract!C!Failed = Failed
    /\ \A v \in Value : Contract!C!Found(v) = Found(v)
    /\ \A c \in Call :
          /\ Contract!C!Running(c) <=> Running(c)
          /\ \A kind \in {"get", "put", "delete"} : Contract!C!Asks(c, kind) <=> Asks(c, kind)
BY DEF Contract!C!Op, Op, Contract!C!Outcome, Outcome, Contract!C!NoOp, NoOp,
       Contract!C!Pending, Pending, Contract!C!Ok, Ok, Contract!C!NotFound, NotFound,
       Contract!C!ReadOnly, ReadOnly, Contract!C!Failed, Failed, Contract!C!Ended, Ended,
       Contract!C!Found, Found, Contract!C!Running, Running, Contract!C!Asks, Asks

LEMMA Views ==
    ASSUME NEW c \in Call, Only(c)
    PROVE  /\ Seen' = [Seen EXCEPT ![c] = View(call'[c])]
           /\ View(call'[c]) = View(call[c]) => Unseen
BY DEF Seen, Only, Unseen

LEMMA SeenIs ==
    Seen = [c \in Call |-> [op |-> call[c].op, outcome |-> call[c].outcome,
                            at |-> IF Running(c) THEN "running" ELSE call[c].at]]
BY DEF Seen, View, Running

LEMMA ViewEnds ==
    ASSUME GcpInv, NEW c \in Call, NEW r \in Outcome, Only(c), call'[c].op = call[c].op, call'[c].at = "done",
           call'[c].outcome = r
    PROVE  Contract!C!Ends(c, r)
<1> DEFINE ended == [View(call[c]) EXCEPT !.at = "done", !.outcome = r]
<1>1. View(call'[c]) = ended
  <2>1. View(call[c]) \in SeenRecord /\ View(call[c]).op = call[c].op
    BY DEF GcpInv, CallRecord, View, SeenRecord
  <2>2. /\ ended \in SeenRecord /\ ended.op = call[c].op /\ ended.at = "done"
        /\ ended.outcome = r
    BY <2>1 DEF SeenRecord
  <2>3. /\ View(call'[c]) \in SeenRecord /\ View(call'[c]).op = call[c].op
        /\ View(call'[c]).at = "done" /\ View(call'[c]).outcome = r
    BY DEF GcpInv, CallRecord, View, SeenRecord
  <2> HIDE DEF ended
  <2> QED BY <2>2, <2>3 DEF SeenRecord
<1>2. Seen' = [Seen EXCEPT ![c] = View(call'[c])] /\ Seen[c] = View(call[c])
  BY Views DEF Seen
<1>3. Seen' = [Seen EXCEPT ![c].at = "done", ![c].outcome = r]
  BY <1>1, <1>2
<1> QED BY <1>3 DEF Contract!C!Ends, Seen, View, Running

LEMMA ViewGoesOn ==
    ASSUME GcpInv, NEW c \in Call, NEW r \in Outcome, Only(c), call'[c].op = call[c].op,
           Running(c), Running(c)', call'[c].outcome = r
    PROVE  Seen' = [Seen EXCEPT ![c].outcome = r]
<1> DEFINE on == [View(call[c]) EXCEPT !.outcome = r]
<1>1. View(call'[c]) = on
  <2>1. /\ View(call[c]) \in SeenRecord /\ View(call[c]).op = call[c].op
        /\ View(call[c]).at = "running"
    BY DEF GcpInv, CallRecord, View, SeenRecord, Running
  <2>2. on \in SeenRecord /\ on.op = call[c].op /\ on.at = "running" /\ on.outcome = r
    BY <2>1 DEF SeenRecord
  <2>3. /\ View(call'[c]) \in SeenRecord /\ View(call'[c]).op = call[c].op
        /\ View(call'[c]).at = "running" /\ View(call'[c]).outcome = r
    BY DEF GcpInv, CallRecord, View, SeenRecord, Running
  <2> HIDE DEF on
  <2> QED BY <2>2, <2>3 DEF SeenRecord
<1>2. Seen' = [Seen EXCEPT ![c] = View(call'[c])] /\ Seen[c] = View(call[c])
  BY Views DEF Seen
<1> QED BY <1>1, <1>2

LEMMA ViewBegins ==
    ASSUME GcpInv, NEW c \in Call, NEW o \in Op, Only(c), call'[c].op = o,
           Running(c)', call'[c].outcome = call[c].outcome
    PROVE  Seen' = [Seen EXCEPT ![c].op = o, ![c].at = "running"]
<1> DEFINE begun == [View(call[c]) EXCEPT !.op = o, !.at = "running"]
<1>1. View(call'[c]) = begun
  <2>1. View(call[c]) \in SeenRecord /\ View(call[c]).outcome = call[c].outcome
    BY DEF GcpInv, CallRecord, View, SeenRecord
  <2>2. /\ begun \in SeenRecord /\ begun.op = o /\ begun.at = "running"
        /\ begun.outcome = call[c].outcome
    BY <2>1 DEF SeenRecord
  <2>3. /\ View(call'[c]) \in SeenRecord /\ View(call'[c]).op = o
        /\ View(call'[c]).at = "running" /\ View(call'[c]).outcome = call[c].outcome
    BY DEF GcpInv, CallRecord, View, SeenRecord, Running
  <2> HIDE DEF begun
  <2> QED BY <2>2, <2>3 DEF SeenRecord
<1>2. Seen' = [Seen EXCEPT ![c] = View(call'[c])] /\ Seen[c] = View(call[c])
  BY Views DEF Seen
<1> QED BY <1>1, <1>2

\* What the step does to the record of c, and that it does nothing else.
LEMMA Fields ==
    ASSUME GcpInv, NEW c \in Call
    PROVE  /\ \A o \in Op : call' = [call EXCEPT ![c].op = o, ![c].at = "called"] =>
                 /\ Only(c) /\ call'[c].op = o /\ call'[c].at = "called"
                 /\ call'[c].outcome = call[c].outcome
           /\ \A r \in Outcome : Ends(c, r) =>
                 /\ Only(c) /\ call'[c].op = call[c].op /\ call'[c].at = "done"
                 /\ call'[c].outcome = r
           /\ \A stage : Goes(c, stage) =>
                 /\ Only(c) /\ call'[c].op = call[c].op /\ call'[c].at = stage
                 /\ call'[c].outcome = call[c].outcome
           /\ call' = Failure(c) =>
                 /\ Only(c) /\ call'[c].op = call[c].op /\ call'[c].at = "done"
                 /\ call'[c].outcome = Failed
BY DEF GcpInv, CallRecord, Only, Ends, Goes, Failure

\* Removing the secret under a call shows only in what excuses it.
LEMMA RemovedUnseen ==
    ASSUME GcpInv, NEW calls \in [Call -> CallRecord], call' = Removed(calls)
    PROVE  /\ DOMAIN call' = Call
           /\ \A d \in Call : /\ call'[d].op = calls[d].op /\ call'[d].at = calls[d].at
                              /\ call'[d].outcome = calls[d].outcome
                              /\ View(call'[d]) = View(calls[d])
<1> DEFINE f(d) == [calls[d] EXCEPT !.excused = @ \/ calls[d].at \notin {"new", "done"}]
<1>1. call' = [d \in Call |-> f(d)]
  BY DEF Removed
<1>2. ASSUME NEW d \in Call
      PROVE  f(d).op = calls[d].op /\ f(d).at = calls[d].at /\ f(d).outcome = calls[d].outcome
  BY DEF CallRecord
<1> HIDE DEF f
<1> QED BY <1>1, <1>2 DEF View

\* The steps of the contract, in terms of the adapter.
LEMMA ContractBegins ==
    ASSUME NEW c \in Call, call[c].at = "new", NEW o \in Op,
           Seen' = [Seen EXCEPT ![c].op = o, ![c].at = "running"], UNCHANGED <<Held, writable>>
    PROVE  Contract!Begin(c)
BY ContractNotions DEF Contract!Begin, Seen, View, Running

LEMMA ContractMeets ==
    ASSUME NEW c \in Call, Running(c), NEW r \in Outcome, UNCHANGED writable,
           \/ Asks(c, "get") /\ UNCHANGED Held
              /\ r = (IF Held \in Value THEN Found(Held) ELSE NotFound)
           \/ Asks(c, "put") /\ writable /\ call[c].op.value \in Value /\ call[c].outcome = Pending
              /\ \/ r = Ok /\ Held' = call[c].op.value
                 \/ r = NotFound /\ Held = None /\ UNCHANGED Held
           \/ Asks(c, "delete") /\ writable /\ call[c].outcome = Pending
              /\ r = (IF Held = None THEN NotFound ELSE Ok) /\ Held' = None,
           \/ Seen' = [Seen EXCEPT ![c].outcome = r]
           \/ Contract!C!Ends(c, r)
           \/ Contract!C!Ends(c, Failed)
    PROVE  Contract!Act(c)
<1>1. Contract!GetMeets(c, r) \/ Contract!PutMeets(c, r) \/ Contract!DeleteMeets(c, r)
  BY ContractNotions
     DEF Contract!GetMeets, Contract!PutMeets, Contract!DeleteMeets, Asks
<1>2. Contract!C!Running(c) /\ r \in Contract!C!Outcome /\ Contract!C!Failed = Failed
  BY ContractNotions
<1> QED BY <1>1, <1>2 DEF Contract!Act, Seen, View, Running

LEMMA ContractPrepares ==
    ASSUME NEW c \in Call, Running(c), Asks(c, "put"), writable, call[c].op.value \in Value,
           call[c].outcome = Pending, Held = None, Held' = Blank, UNCHANGED writable,
           Unseen \/ Contract!C!Ends(c, Failed)
    PROVE  Contract!Prepare(c)
BY ContractNotions DEF Contract!Prepare, Unseen, Seen, View, Running

LEMMA ContractReturns ==
    ASSUME NEW c \in Call, Running(c), UNCHANGED <<Held, writable>>,
           NEW r \in Outcome, Contract!C!Ends(c, r),
           \/ r = Failed
           \/ call[c].outcome # Pending /\ r = call[c].outcome
           \/ ~writable /\ call[c].op.kind # "get" /\ r = ReadOnly
    PROVE  Contract!Return(c)
<1>1. /\ Contract!C!Running(c) /\ Contract!C!Failed = Failed
      /\ Contract!C!ReadOnly = ReadOnly /\ Contract!C!Pending = Pending
  BY ContractNotions
<1> QED BY <1>1 DEF Contract!Return, Contract!C!Ends

LEMMA ContractStutters == ASSUME Unseen, UNCHANGED <<Held, writable>> PROVE UNCHANGED Contract!vars
BY DEF Contract!vars, Unseen, Seen, View, Running

LEMMA ContractElsewhere ==
    ASSUME Unseen, UNCHANGED writable, Held' \in Value \cup {None, Blank} PROVE Contract!Elsewhere
BY DEF Contract!Elsewhere, Unseen, Seen, View, Running

-----------------------------------------------------------------------------
(* Every step of the adapter is a step of the contract, or none. *)

Kept == [Contract!Next]_(Contract!vars)

LEMMA HeldIs ==
    ASSUME StoreTypes
    PROVE  /\ Held \in Value \cup {None, Blank} /\ None \notin Value /\ Blank \notin Value
           /\ Blank # None
           /\ Held = None <=> secret = None
           /\ Latest /\ secret.enabled => Held = secret.value /\ Held \in Value
           /\ ~(Latest /\ secret.enabled) => Held \notin Value
BY CallAssumption, BlankAssumption DEF StoreTypes, Held, Latest

LEMMA QuietHeld == Quiet => UNCHANGED <<Held, writable>>
BY DEF Quiet, Held, Latest

LEMMA EndsIs ==
    ASSUME GcpInv, NEW c \in Call, NEW r \in Outcome, Ends(c, r)
    PROVE  Contract!C!Ends(c, r)
BY Fields, ViewEnds

LEMMA FailureIs ==
    ASSUME GcpInv, NEW c \in Call, call' = Failure(c)
    PROVE  Contract!C!Ends(c, Failed)
BY Fields, ViewEnds, OutcomesDiffer

LEMMA MapsBegin == ASSUME GcpInv, NEW c \in Call, Begin(c) PROVE Kept
<1>1. PICK o \in Op : call' = [call EXCEPT ![c].op = o, ![c].at = "called"]
  BY DEF Begin, Begins
<1>2. Seen' = [Seen EXCEPT ![c].op = o, ![c].at = "running"]
  <2>1. /\ Only(c) /\ call'[c].op = o /\ call'[c].at = "called"
        /\ call'[c].outcome = call[c].outcome
    BY <1>1, Fields
  <2>2. Running(c)'
    BY <2>1 DEF Running
  <2> QED BY <2>1, <2>2, ViewBegins
<1>3. Contract!Begin(c)
  BY <1>2, QuietHeld, ContractBegins DEF Begin, Begins
<1> QED BY <1>3 DEF Kept, Contract!Next

LEMMA MapsTurnAway == ASSUME GcpInv, NEW c \in Call, TurnAway(c) PROVE Kept
<1>1. call[c].op \in Op /\ call[c].at = "called" /\ Running(c)
  BY DEF GcpInv, TurnAway, TurnsAway, Story, Fit, Running
<1>2. PICK r \in {ReadOnly, Failed} : r = Verdict(call[c].op) /\ Ends(c, r)
  BY <1>1, Verdicts DEF TurnAway, TurnsAway
<1>3. Contract!C!Ends(c, r)
  BY <1>2, OutcomesDiffer, EndsIs
<1>4. r = ReadOnly => ~writable /\ call[c].op.kind # "get"
  BY <1>1, <1>2, Verdicts
<1>5. Contract!Return(c)
  BY <1>1, <1>2, <1>3, <1>4, QuietHeld, ContractReturns, OutcomesDiffer DEF TurnAway
<1> QED BY <1>5 DEF Kept, Contract!Next

LEMMA MapsAccess == ASSUME GcpInv, NEW c \in Call, AccessSecretVersion(c) PROVE Kept
<1>1. Asks(c, "get") /\ Running(c) /\ Quiet /\ StoreTypes
  BY Enters1 DEF GcpInv, AccessSecretVersion, Misses, Running, Asks
<1>2. CASE ~Latest /\ Misses(c)
  <2>1. Contract!C!Ends(c, NotFound) /\ Held \notin Value
    BY <1>1, <1>2, EndsIs, OutcomesDiffer, HeldIs DEF Misses
  <2>2. Contract!Act(c)
    BY <1>1, <2>1, QuietHeld, OutcomesDiffer, ContractMeets
  <2> QED BY <2>2 DEF Kept, Contract!Next
<1>3. CASE Latest /\ ~secret.enabled /\ Ends(c, Failed) /\ Quiet
  <2>1. Contract!C!Ends(c, Failed)
    BY <1>3, EndsIs, OutcomesDiffer
  <2>2. Contract!Return(c)
    BY <1>1, <2>1, QuietHeld, ContractReturns, OutcomesDiffer
  <2> QED BY <2>2 DEF Kept, Contract!Next
<1>4. CASE /\ Latest /\ secret.enabled
           /\ call' = [call EXCEPT ![c].at = "accessed", ![c].outcome = Found(secret.value),
                                   ![c].version = Version]
           /\ Quiet
  <2> DEFINE r == Found(secret.value)
  <2>1. Held = secret.value /\ Held \in Value /\ r \in Outcome
    BY <1>1, <1>4, HeldIs, OutcomesDiffer
  <2>2. /\ Only(c) /\ call'[c].op = call[c].op /\ call'[c].at = "accessed"
        /\ call'[c].outcome = r
    BY <1>4 DEF GcpInv, CallRecord, Only
  <2> HIDE DEF r
  <2>3. Seen' = [Seen EXCEPT ![c].outcome = r]
    BY <1>1, <2>1, <2>2, ViewGoesOn DEF Running
  <2>4. Contract!Act(c)
    BY <1>1, <2>1, <2>3, QuietHeld, ContractMeets DEF r
  <2> QED BY <2>4 DEF Kept, Contract!Next
<1> QED BY <1>2, <1>3, <1>4 DEF AccessSecretVersion

LEMMA MapsCreateTime == ASSUME GcpInv, NEW c \in Call, GetCreateTime(c) PROVE Kept
<1>1. /\ Asks(c, "get") /\ Running(c) /\ Quiet /\ StoreTypes
      /\ call[c].outcome \in {Found(v) : v \in Value} /\ call[c].outcome \in Outcome
      /\ call[c].outcome # Pending
  BY OutcomesDiffer DEF GcpInv, GetCreateTime, At, Misses, Running, Story, Fit
<1>2. CASE secret = None /\ Misses(c)
  <2>1. Contract!C!Ends(c, NotFound) /\ Held \notin Value
    BY <1>1, <1>2, EndsIs, OutcomesDiffer, HeldIs DEF Misses
  <2>2. Contract!Act(c)
    BY <1>1, <2>1, QuietHeld, OutcomesDiffer, ContractMeets
  <2> QED BY <2>2 DEF Kept, Contract!Next
<1>3. CASE /\ secret # None
           /\ call' = [call EXCEPT ![c].at = "done", ![c].created = secret.created]
           /\ Quiet
  <2>0. PICK r \in Outcome : r = call[c].outcome
    BY <1>1
  <2>1. /\ Only(c) /\ call'[c].op = call[c].op /\ call'[c].at = "done"
        /\ call'[c].outcome = r
    BY <1>3, <2>0 DEF GcpInv, CallRecord, Only
  <2>2. Contract!C!Ends(c, r)
    BY <2>1, ViewEnds
  <2>3. Contract!Return(c)
    BY <1>1, <2>0, <2>2, QuietHeld, ContractReturns
  <2> QED BY <2>3 DEF Kept, Contract!Next
<1> QED BY <1>2, <1>3 DEF GetCreateTime

\* What the contract asks of a Put or Delete that takes effect.
Acting(c) ==
    /\ Running(c) /\ writable /\ call[c].outcome = Pending
    /\ Asks(c, "put") => call[c].op.value \in Value

LEMMA PuttingActs ==
    ASSUME GcpInv, NEW c \in Call, Asks(c, "put"),
           Enters(c, "put") \/ call[c].at \in {"create", "again", "add"}
    PROVE  Acting(c)
<1>1. /\ call[c].op \in Op /\ Verdict(call[c].op) = Pending /\ call[c].outcome = Pending
      /\ Running(c)
  BY Enters1 DEF GcpInv, Story, Fit, Running
<1> QED BY <1>1, Verdicts DEF Acting, Asks

LEMMA DeletingActs ==
    ASSUME GcpInv, NEW c \in Call, Enters(c, "delete")
    PROVE  Acting(c) /\ Asks(c, "delete")
BY Enters1, Verdicts DEF Acting, Asks, Running

\* A Put that only goes on is not seen to do anything.
LEMMA MapsHasSecret == ASSUME GcpInv, NEW c \in Call, Running(c), HasSecret(c) PROVE Kept
<1>1. /\ Only(c) /\ call'[c].op = call[c].op /\ call'[c].at = "add"
      /\ call'[c].outcome = call[c].outcome
  BY DEF GcpInv, CallRecord, Only, HasSecret
<1>2. Unseen
  BY <1>1, Views DEF View, Running
<1> QED BY <1>2, QuietHeld, ContractStutters DEF HasSecret, Kept

LEMMA MapsGoes ==
    ASSUME GcpInv, NEW c \in Call, Running(c), NEW stage \in {"create", "again"}, Goes(c, stage), Quiet
    PROVE  Kept
<1>1. Unseen
  BY Fields, Views DEF View, Running
<1> QED BY <1>1, QuietHeld, ContractStutters DEF Kept

\* The API answers NotFound to a Put, which finds the key gone.
LEMMA MapsPutMisses ==
    ASSUME GcpInv, NEW c \in Call, Asks(c, "put"), Acting(c), secret = None, Misses(c) PROVE Kept
<1>1. Contract!C!Ends(c, NotFound) /\ Held = None /\ UNCHANGED <<Held, writable>>
  BY EndsIs, OutcomesDiffer, QuietHeld DEF Misses, Held
<1>2. Contract!Act(c)
  BY <1>1, ContractMeets, OutcomesDiffer DEF Acting
<1> QED BY <1>2 DEF Kept, Contract!Next

LEMMA MapsGetSecret == ASSUME GcpInv, NEW c \in Call, GetSecret(c) PROVE Kept
<1>1. Running(c)
  BY DEF GetSecret, Enters, At, Running
<1> QED BY <1>1, MapsHasSecret, MapsGoes DEF GetSecret

LEMMA MapsGetAgain == ASSUME GcpInv, NEW c \in Call, GetSecretAgain(c) PROVE Kept
<1>1. Asks(c, "put") /\ Acting(c)
  BY PuttingActs DEF GetSecretAgain, At
<1> QED BY <1>1, MapsHasSecret, MapsPutMisses DEF GetSecretAgain, Acting

\* A container is made, which is there and cannot be read.
LEMMA CreatesHeld ==
    ASSUME GcpInv, NEW c \in Call, Creates(c)
    PROVE  /\ Asks(c, "put") /\ Acting(c) /\ Held = None /\ Held' = Blank
<1>1. Made # None /\ Made.number = 0
  BY Containers DEF Made, GcpInv
<1> QED BY <1>1, PuttingActs DEF Creates, At, Held, Latest

LEMMA MapsCreate == ASSUME GcpInv, NEW c \in Call, CreateSecret(c) PROVE Kept
<1>1. CASE /\ Creates(c)
           /\ call' = [call EXCEPT ![c].at = "add", ![c].created = births + 1]
           /\ UNCHANGED <<writable, outside>>
  <2>1. /\ Only(c) /\ call'[c].op = call[c].op /\ call'[c].at = "add"
        /\ call'[c].outcome = call[c].outcome
    BY <1>1 DEF GcpInv, CallRecord, Only
  <2>2. Unseen
    BY <1>1, <2>1, Views, CreatesHeld DEF View, Acting, Running
  <2>3. Contract!Prepare(c)
    BY <1>1, <2>2, CreatesHeld, ContractPrepares DEF Acting
  <2> QED BY <2>3 DEF Kept, Contract!Next
<1>2. CASE At(c, "put", "create") /\ secret # None /\ Goes(c, "again") /\ Quiet
  BY <1>2, MapsGoes DEF At, Running
<1> QED BY <1>1, <1>2 DEF CreateSecret

\* A version is added, and its value is the key's.
LEMMA AddsHeld ==
    ASSUME GcpInv, NEW c \in Call, Adds(c)
    PROVE  Asks(c, "put") /\ Acting(c) /\ Held' = call[c].op.value
<1>1. Asks(c, "put") /\ Acting(c)
  BY PuttingActs DEF Adds, At
<1> DEFINE s == [secret EXCEPT !.number = @ + 1, !.value = call[c].op.value, !.enabled = TRUE]
<1>2. s # None /\ s.number > 0 /\ s.value = call[c].op.value /\ s.enabled
  BY <1>1, Containers DEF GcpInv, Adds, Acting
<1>3. secret' = s
  BY DEF Adds
<1> HIDE DEF s
<1> QED BY <1>1, <1>2, <1>3 DEF Held, Latest

LEMMA MapsAdd == ASSUME GcpInv, NEW c \in Call, AddSecretVersion(c) PROVE Kept
<1>1. Asks(c, "put") /\ Acting(c)
  BY PuttingActs DEF AddSecretVersion, Adds, At
<1>2. CASE At(c, "put", "add") /\ secret = None /\ Misses(c)
  BY <1>1, <1>2, MapsPutMisses
<1>3. CASE /\ Adds(c)
           /\ call' = [call EXCEPT ![c].at = "done", ![c].outcome = Ok,
                        ![c].version = [of |-> secret.created, number |-> secret.number + 1]]
           /\ UNCHANGED <<writable, births, outside>>
  <2>1. /\ Only(c) /\ call'[c].op = call[c].op /\ call'[c].at = "done" /\ call'[c].outcome = Ok
    BY <1>3 DEF GcpInv, CallRecord, Only
  <2>2. Contract!C!Ends(c, Ok)
    BY <2>1, ViewEnds, OutcomesDiffer
  <2>3. Contract!Act(c)
    BY <1>1, <1>3, <2>2, AddsHeld, ContractMeets, OutcomesDiffer DEF Acting
  <2> QED BY <2>3 DEF Kept, Contract!Next
<1> QED BY <1>2, <1>3 DEF AddSecretVersion

LEMMA MapsDelete == ASSUME GcpInv, NEW c \in Call, DeleteSecret(c) PROVE Kept
<1>1. Acting(c) /\ Asks(c, "delete")
  BY DeletingActs DEF DeleteSecret, DeletesSecret
<1>2. CASE Enters(c, "delete") /\ secret = None /\ Misses(c)
  <2>1. Contract!C!Ends(c, NotFound) /\ Held = None /\ UNCHANGED <<Held, writable>>
    BY <1>2, EndsIs, OutcomesDiffer, QuietHeld DEF Misses, Held
  <2>2. Contract!Act(c)
    BY <1>1, <2>1, ContractMeets, OutcomesDiffer DEF Acting
  <2> QED BY <2>2 DEF Kept, Contract!Next
<1>3. CASE /\ DeletesSecret(c)
           /\ call' = Removed([call EXCEPT ![c].at = "done", ![c].outcome = Ok])
           /\ UNCHANGED <<writable, births, outside>>
  <2> DEFINE calls == [call EXCEPT ![c].at = "done", ![c].outcome = Ok]
  <2>1. /\ calls \in [Call -> CallRecord] /\ calls[c].op = call[c].op
        /\ calls[c].at = "done" /\ calls[c].outcome = Ok
        /\ \A d \in Call \ {c} : calls[d] = call[d]
    <3> DEFINE done == [call[c] EXCEPT !.at = "done", !.outcome = Ok]
    <3>1. call \in [Call -> CallRecord] /\ call[c] \in CallRecord
      BY DEF GcpInv
    <3>2. done \in CallRecord /\ done.op = call[c].op /\ done.at = "done" /\ done.outcome = Ok
      BY <3>1, OutcomesDiffer DEF CallRecord
    <3>3. calls = [call EXCEPT ![c] = done]
      BY <3>1
    <3> HIDE DEF done, calls
    <3> QED BY <3>1, <3>2, <3>3
  <2>2. call' = Removed(calls)
    BY <1>3
  <2> HIDE DEF calls
  <2>3. /\ Only(c) /\ call'[c].op = call[c].op /\ call'[c].at = "done" /\ call'[c].outcome = Ok
    BY <2>1, <2>2, RemovedUnseen DEF Only
  <2>4. Contract!C!Ends(c, Ok)
    BY <2>3, ViewEnds, OutcomesDiffer
  <2>5. Held # None /\ Held' = None
    BY <1>3, HeldIs DEF DeletesSecret, Held, GcpInv
  <2>6. Contract!Act(c)
    BY <1>1, <1>3, <2>4, <2>5, ContractMeets, OutcomesDiffer DEF Acting
  <2> QED BY <2>6 DEF Kept, Contract!Next
<1> QED BY <1>2, <1>3 DEF DeleteSecret

LEMMA MapsFails == ASSUME GcpInv, NEW c \in Call, Fails(c) PROVE Kept
<1>1. UNCHANGED writable
  BY DEF Fails
<1>2. CASE Calls(c) /\ call' = Failure(c) /\ UNCHANGED <<writable, secret, births>>
  <2>1. Contract!Return(c)
    BY <1>2, FailureIs, ContractReturns, OutcomesDiffer DEF Calls, Held, Latest
  <2> QED BY <2>1 DEF Kept, Contract!Next
<1>3. CASE Creates(c) /\ call' = Failure(c)
  <2>1. Contract!Prepare(c)
    BY <1>1, <1>3, FailureIs, CreatesHeld, ContractPrepares DEF Acting
  <2> QED BY <2>1 DEF Kept, Contract!Next
<1>4. CASE Adds(c) /\ call' = Failure(c) /\ UNCHANGED <<writable, births>>
  <2>1. Contract!Act(c)
    BY <1>1, <1>4, FailureIs, AddsHeld, ContractMeets, OutcomesDiffer DEF Acting
  <2> QED BY <2>1 DEF Kept, Contract!Next
<1>5. CASE DeletesSecret(c) /\ call' = Removed(Failure(c)) /\ UNCHANGED <<writable, births>>
  <2> DEFINE calls == Failure(c)
         rec == [call[c] EXCEPT !.at = "done", !.outcome = Failed, !.excused = TRUE]
  <2>1. call \in [Call -> CallRecord] /\ calls = [call EXCEPT ![c] = rec]
    BY DEF GcpInv, Failure
  <2>2. rec \in CallRecord /\ rec.op = call[c].op /\ rec.at = "done" /\ rec.outcome = Failed
    BY <2>1, OutcomesDiffer DEF CallRecord
  <2>3. call' = Removed(calls)
    BY <1>5
  <2> HIDE DEF calls, rec
  <2>4. /\ calls \in [Call -> CallRecord] /\ calls[c].op = call[c].op
        /\ calls[c].at = "done" /\ calls[c].outcome = Failed
        /\ \A d \in Call \ {c} : calls[d] = call[d]
    BY <2>1, <2>2
  <2>5. /\ Only(c) /\ call'[c].op = call[c].op /\ call'[c].at = "done" /\ call'[c].outcome = Failed
    BY <2>4, <2>3, RemovedUnseen DEF Only
  <2>6. Contract!C!Ends(c, Failed)
    BY <2>5, ViewEnds, OutcomesDiffer
  <2>7. Held # None /\ Held' = None
    BY <1>5, HeldIs DEF DeletesSecret, Held, GcpInv
  <2>8. Acting(c) /\ Asks(c, "delete")
    BY <1>5, DeletingActs DEF DeletesSecret
  <2>9. Contract!Act(c)
    BY <1>1, <2>6, <2>7, <2>8, ContractMeets, OutcomesDiffer DEF Acting
  <2> QED BY <2>9 DEF Kept, Contract!Next
<1> QED BY <1>2, <1>3, <1>4, <1>5 DEF Fails

LEMMA MapsOutsider == ASSUME GcpInv, Outsider PROVE Kept
<1>1. UNCHANGED writable /\ StoreTypes'
  BY OutsiderKeeps DEF Outsider, GcpInv
<1>2. Held' \in Value \cup {None, Blank}
  BY <1>1, BlankAssumption DEF StoreTypes, Held, Latest
<1>3. ASSUME UNCHANGED call PROVE Unseen
  BY <1>3 DEF Unseen, Seen, View
<1>4. ASSUME call' = Removed(call) PROVE Unseen
  <2>1. \A d \in Call : View(call'[d]) = View(call[d])
    BY <1>4, RemovedUnseen DEF GcpInv
  <2>2. Seen' = [d \in Call |-> View(call'[d])]
    BY DEF Seen, View
  <2> QED BY <2>1, <2>2 DEF Unseen, Seen
<1>5. UNCHANGED call \/ call' = Removed(call)
  BY DEF Outsider
<1>6. Unseen
  BY <1>3, <1>4, <1>5
<1> QED BY <1>1, <1>2, <1>6, ContractElsewhere DEF Kept, Contract!Next

(* The adapter keeps the contract of the port: each of its Gets, Puts and    *)
(* Deletes takes effect and answers as if at one moment, whatever other calls *)
(* and other users of the secret do in between (gcp.go:133-272).             *)
THEOREM GcpKeepsContract == Spec => KeepsContract
<1>1. Init => Contract!Init
  <2> SUFFICES ASSUME Init PROVE Contract!Init
    OBVIOUS
  <2>1. Held \in Value \cup {None, Blank} /\ writable \in BOOLEAN
    BY InitEstablishes, HeldIs DEF GcpInv, Init
  <2>2. [c \in Call |-> [op |-> call[c].op, outcome |-> call[c].outcome,
                         at |-> IF Running(c) THEN "running" ELSE call[c].at]]
          = [c \in Call |-> [op |-> NoOp, at |-> "new", outcome |-> Pending]]
    BY DEF Init, Idle, Running
  <2> QED BY <2>1, <2>2, ContractNotions DEF Contract!Init
<1>2. ASSUME GcpInv, NEW c \in Call, Step(c) PROVE Kept
  BY <1>2, MapsBegin, MapsTurnAway, MapsAccess, MapsCreateTime, MapsGetSecret, MapsCreate,
     MapsGetAgain, MapsAdd, MapsDelete, MapsFails DEF Step
<1>3. ASSUME UNCHANGED vars PROVE Kept
  <2>1. Unseen /\ UNCHANGED <<Held, writable>>
    BY <1>3 DEF vars, Unseen, Seen, Held, Latest
  <2> QED BY <2>1, ContractStutters DEF Kept
<1>4. GcpInv /\ [Next]_vars => [Contract!Next]_(Contract!vars)
  BY <1>2, <1>3, MapsOutsider DEF Next, Kept
<1> QED BY <1>1, <1>4, GcpInvariance, PTL DEF Spec, KeepsContract, Contract!Spec
================================================================================
