-------------------------- MODULE WatchStream_proofs --------------------------
(***************************************************************************)
(* Proofs about WatchStream, for any number of secrets and changes, any    *)
(* policy, any depth of namespaces and any window of the stream.           *)
(***************************************************************************)
EXTENDS WatchStream, Poller_proofs, SequenceTheorems

-----------------------------------------------------------------------------
(* The inductive invariant. *)

Status == {"none", "OK", "InvalidArgument", "PermissionDenied", "Internal"}
Stage  == {"call", "subscribing", "ranging", "sending", "returned"}

Types ==
    /\ policy \in PolicyChoices
    /\ request \in NsChoices \cup {Malformed}
    /\ handler \in [at : Stage, status : Status]
    /\ sending \in Event \cup {NoEvent}
    /\ filter \in {"off", "receiving", "parked", "done"}
    /\ passing \in Event \cup {NoEvent}
    /\ wire \in Seq(Event)
    /\ hungUp \in {"nobody", "client", "transport"}
    /\ client \in {"reading", "exit 0", "exit 1"}
    /\ view \in [Key -> Revision \cup {NoRev}]
    /\ synced \in BOOLEAN

\* The handler is in a call of Poll's: it waits for it, or ranges over its events.
Watching == handler.at \in {"subscribing", "ranging", "sending"}

\* Which of the three goroutines is where, and holds an event there.
Stations ==
    /\ handler.at \in {"call", "subscribing"} => filter = "off"
    /\ filter = "off" => ~(handler.at \in {"ranging", "sending"}) /\ wire = <<>> /\ ~synced
                         /\ view = [k \in Key |-> NoRev]
    /\ handler.at = "sending" <=> sending # NoEvent
    /\ filter = "parked" <=> passing # NoEvent
    /\ handler.at = "returned" <=> handler.status # "none"
    /\ handler.at = "call" => pc = "idle"
    /\ Watching \/ filter # "off" => pc # "idle"
    /\ filter # "off" => pc \notin {"snapshot", "rejected"}
    /\ pc # "idle" => request # Malformed /\ Admitted

\* What has been audited before the handler returns.
Recorded ==
    /\ handler.at \in {"call", "subscribing"} => audits = <<>>
    /\ handler.at \in {"ranging", "sending"} =>
          audits = <<[action |-> "watch", decision |-> "allow", outcome |-> "success"]>>

\* Nobody ends before ctx does, and ctx ends while the handler is at work only if
\* somebody outside has ended the call.
Endings ==
    /\ pc = "closed" \/ filter = "done" => ctxDone
    /\ hungUp # "nobody" => ctxDone
    /\ ctxDone /\ handler.at # "returned" => hungUp # "nobody"

\* The events that may still get to the client.
Deliverable ==
    IF handler.at = "returned" THEN wire
    ELSE IF filter = "done" THEN wire \o Maybe(sending)
    ELSE InFlight

\* Each of the events es about one of the keys fits what a copy holds when it gets to it.
InTurn(copy, keys, es) ==
    \A n \in 1..Len(es) :
        es[n] # InSync /\ KeyOf(es[n].meta.item) \in keys =>
            LET k == KeyOf(es[n].meta.item)
            IN  \E held \in Revision \cup {NoRev} :
                    Leads(copy[k], es, n - 1, k, held) /\ Suits(es[n], held)

Announces(es) == \E n \in 1..Len(es) : es[n] = InSync

\* IN_SYNC comes once, and before anything but ADDED.
SyncInTurn(told, es) ==
    \A n \in 1..Len(es) :
        IF es[n] = InSync
        THEN ~told /\ \A m \in 1..n-1 : es[m] # InSync
        ELSE es[n].type = "added" \/ told \/ \E m \in 1..n-1 : es[m] = InSync

Order ==
    client = "reading" =>
        /\ InTurn(view, Visible, Deliverable)
        /\ SyncInTurn(synced, Deliverable)
        /\ pc \in Early => ~synced /\ ~Announces(Deliverable)
        /\ Watching /\ filter # "done" /\ pc \notin Early \cup {"closed"} =>
              synced \/ Announces(InFlight)

StreamInv ==
    /\ PollInv /\ Types /\ Stations /\ Recorded /\ Accounted /\ Endings /\ CleanEnd
    /\ Authorized /\ Pipeline /\ Order

-----------------------------------------------------------------------------
(* Sequences of events, and what they make of a copy. *)

LEMMA LeadsSame ==
    ASSUME NEW v, NEW w, NEW k, NEW n \in Nat, NEW es, NEW fs,
           \A i \in 1..n : fs[i] = es[i], Leads(v, es, n, k, w)
    PROVE  Leads(v, fs, n, k, w)
<1>1. CASE w = v /\ \A m \in 1..n : ~Concerns(es[m], k)
  BY <1>1 DEF Leads
<1>2. CASE \E m \in 1..n : /\ Concerns(es[m], k)
                           /\ w = Told(es[m])
                           /\ \A later \in m+1..n : ~Concerns(es[later], k)
  BY <1>2 DEF Leads
<1> QED BY <1>1, <1>2 DEF Leads

\* What one more event leaves under key k, where w was held before.
After(e, k, w) == IF Concerns(e, k) THEN Told(e) ELSE w

LEMMA LeadsOn ==
    ASSUME NEW v, NEW w, NEW k, NEW n \in Nat, NEW es, Leads(v, es, n, k, w)
    PROVE  Leads(v, es, n + 1, k, After(es[n + 1], k, w))
<1>1. CASE Concerns(es[n + 1], k)
  BY <1>1 DEF Leads, After
<1>2. CASE ~Concerns(es[n + 1], k)
  <2>1. \A m \in 1..n+1 : m \in 1..n \/ m = n + 1
    OBVIOUS
  <2>2. CASE w = v /\ \A m \in 1..n : ~Concerns(es[m], k)
    BY <1>2, <2>1, <2>2 DEF Leads, After
  <2>3. ASSUME NEW m \in 1..n, Concerns(es[m], k), w = Told(es[m]),
               \A later \in m+1..n : ~Concerns(es[later], k)
        PROVE  Leads(v, es, n + 1, k, w)
    BY <1>2, <2>3 DEF Leads
  <2> QED BY <1>2, <2>2, <2>3 DEF Leads, After
<1> QED BY <1>1, <1>2

LEMMA LeadsBack ==
    ASSUME NEW v, NEW w, NEW k, NEW n \in Nat, NEW es, Leads(v, es, n + 1, k, w),
           ~Concerns(es[n + 1], k)
    PROVE  Leads(v, es, n, k, w)
<1>1. \A m \in 1..n+1 : m \in 1..n \/ m = n + 1
  OBVIOUS
<1>2. CASE w = v /\ \A m \in 1..n+1 : ~Concerns(es[m], k)
  BY <1>2 DEF Leads
<1>3. ASSUME NEW m \in 1..n+1, Concerns(es[m], k), w = Told(es[m]),
             \A later \in m+1..n+1 : ~Concerns(es[later], k)
      PROVE  Leads(v, es, n, k, w)
  BY <1>1, <1>3 DEF Leads
<1> QED BY <1>2, <1>3 DEF Leads

\* Applying the first event first.
LEMMA LeadsTail ==
    ASSUME NEW v, NEW w, NEW k, NEW n \in Nat, NEW es, NEW fs,
           \A i \in 1..n : fs[i] = es[i + 1],
           Leads(v, es, n + 1, k, w)
    PROVE  Leads(After(es[1], k, v), fs, n, k, w)
<1>1. \A m \in 1..n+1 : m = 1 \/ (m - 1 \in 1..n /\ fs[m - 1] = es[m])
  OBVIOUS
<1>2. \A m \in 1..n : m + 1 \in 1..n+1
  OBVIOUS
<1>3. CASE w = v /\ \A m \in 1..n+1 : ~Concerns(es[m], k)
  BY <1>2, <1>3 DEF Leads, After
<1>4. ASSUME NEW m \in 1..n+1, Concerns(es[m], k), w = Told(es[m]),
             \A later \in m+1..n+1 : ~Concerns(es[later], k)
      PROVE  Leads(After(es[1], k, v), fs, n, k, w)
  <2>1. \A later \in 1..n : later >= m => ~Concerns(fs[later], k)
    BY <1>4
  <2>2. CASE m = 1
    BY <1>4, <2>1, <2>2 DEF Leads, After
  <2>3. CASE m # 1
    BY <1>1, <1>4, <2>1, <2>3 DEF Leads
  <2> QED BY <2>2, <2>3
<1> QED BY <1>3, <1>4 DEF Leads

\* fs is es, or what is left of it when events at its end are dropped.
Prefix(fs, es) == Len(fs) <= Len(es) /\ \A i \in 1..Len(fs) : fs[i] = es[i]

LEMMA InTurnPrefix ==
    ASSUME NEW copy, NEW keys, NEW es \in Seq(Event), NEW fs \in Seq(Event), Prefix(fs, es),
           InTurn(copy, keys, es)
    PROVE  InTurn(copy, keys, fs)
<1> SUFFICES ASSUME NEW n \in 1..Len(fs), fs[n] # InSync,
                    NEW k, k = KeyOf(fs[n].meta.item), k \in keys
             PROVE  \E held \in Revision \cup {NoRev} :
                       Leads(copy[k], fs, n - 1, k, held) /\ Suits(fs[n], held)
  BY DEF InTurn
<1>1. n \in 1..Len(es) /\ fs[n] = es[n] /\ n - 1 \in Nat
  BY DEF Prefix
<1>2. PICK held \in Revision \cup {NoRev} :
         Leads(copy[k], es, n - 1, k, held) /\ Suits(es[n], held)
  BY <1>1 DEF InTurn
<1>3. \A i \in 1..n-1 : fs[i] = es[i]
  BY SMTT(20) DEF Prefix
<1>4. Leads(copy[k], fs, n - 1, k, held)
  BY <1>1, <1>2, <1>3, LeadsSame
<1> QED BY <1>1, <1>2, <1>4

LEMMA SyncPrefix ==
    ASSUME NEW told, NEW es \in Seq(Event), NEW fs \in Seq(Event), Prefix(fs, es)
    PROVE  /\ SyncInTurn(told, es) => SyncInTurn(told, fs)
           /\ ~Announces(es) => ~Announces(fs)
<1>1. \A n \in 1..Len(fs) :
         n \in 1..Len(es) /\ fs[n] = es[n] /\ \A m \in 1..n-1 : fs[m] = es[m]
  BY DEF Prefix
<1>2. ASSUME SyncInTurn(told, es), NEW n \in 1..Len(fs)
      PROVE  IF fs[n] = InSync
             THEN ~told /\ \A m \in 1..n-1 : fs[m] # InSync
             ELSE fs[n].type = "added" \/ told \/ \E m \in 1..n-1 : fs[m] = InSync
  BY <1>1, <1>2 DEF SyncInTurn
<1>3. SyncInTurn(told, es) => SyncInTurn(told, fs)
  BY <1>2 DEF SyncInTurn
<1>4. ~Announces(es) => ~Announces(fs)
  BY <1>1 DEF Announces
<1> QED BY <1>3, <1>4

LEMMA InTurnAppend ==
    ASSUME NEW copy, NEW keys, NEW es \in Seq(Event), NEW e \in Event,
           InTurn(copy, keys, es),
           e # InSync /\ KeyOf(e.meta.item) \in keys =>
              \E held \in Revision \cup {NoRev} :
                 /\ Leads(copy[KeyOf(e.meta.item)], es, Len(es), KeyOf(e.meta.item), held)
                 /\ Suits(e, held)
    PROVE  InTurn(copy, keys, Append(es, e))
<1> DEFINE fs == Append(es, e)
<1>1. Len(fs) = Len(es) + 1 /\ fs[Len(es) + 1] = e /\ \A i \in 1..Len(es) : fs[i] = es[i]
  OBVIOUS
<1> HIDE DEF fs
<1> SUFFICES ASSUME NEW n \in 1..Len(fs), fs[n] # InSync,
                    NEW k, k = KeyOf(fs[n].meta.item), k \in keys
             PROVE  \E held \in Revision \cup {NoRev} :
                       Leads(copy[k], fs, n - 1, k, held) /\ Suits(fs[n], held)
  BY DEF InTurn, fs
<1>2. \A i \in 1..n-1 : fs[i] = es[i]
  BY <1>1
<1>3. n - 1 \in Nat /\ Len(es) \in Nat
  BY <1>1
<1>4. PICK held \in Revision \cup {NoRev} :
         Leads(copy[k], es, n - 1, k, held) /\ Suits(fs[n], held)
  <2>1. CASE n = Len(es) + 1
    BY <1>1, <1>3, <2>1
  <2>2. CASE n # Len(es) + 1
    <3>1. n \in 1..Len(es) /\ fs[n] = es[n]
      BY <1>1, <1>3, <2>2
    <3> QED BY <3>1 DEF InTurn
  <2> QED BY <2>1, <2>2
<1>5. Leads(copy[k], fs, n - 1, k, held)
  BY <1>2, <1>3, <1>4, LeadsSame
<1> QED BY <1>4, <1>5

LEMMA AnnouncesAppend ==
    ASSUME NEW es \in Seq(Event), NEW e \in Event
    PROVE  Announces(Append(es, e)) <=> Announces(es) \/ e = InSync
<1> DEFINE fs == Append(es, e)
<1>1. /\ Len(fs) = Len(es) + 1 /\ fs[Len(es) + 1] = e
      /\ \A i \in 1..Len(es) : fs[i] = es[i]
      /\ Len(es) \in Nat
  OBVIOUS
<1> HIDE DEF fs
<1>2. \A n \in 1..Len(fs) : n \in 1..Len(es) \/ n = Len(es) + 1
  BY <1>1
<1>3. Len(es) + 1 \in 1..Len(fs) /\ \A n \in 1..Len(es) : n \in 1..Len(fs)
  BY <1>1
<1> QED BY <1>1, <1>2, <1>3 DEF Announces, fs

LEMMA SyncAppend ==
    ASSUME NEW told, NEW es \in Seq(Event), NEW e \in Event, SyncInTurn(told, es),
           IF e = InSync THEN ~told /\ ~Announces(es)
           ELSE e.type = "added" \/ told \/ Announces(es)
    PROVE  SyncInTurn(told, Append(es, e))
<1> DEFINE fs == Append(es, e)
<1>1. Len(fs) = Len(es) + 1 /\ fs[Len(es) + 1] = e /\ \A i \in 1..Len(es) : fs[i] = es[i]
  OBVIOUS
<1>2. Len(es) \in Nat
  OBVIOUS
<1> HIDE DEF fs
<1> SUFFICES ASSUME NEW n \in 1..Len(fs)
             PROVE  IF fs[n] = InSync
                    THEN ~told /\ \A m \in 1..n-1 : fs[m] # InSync
                    ELSE fs[n].type = "added" \/ told \/ \E m \in 1..n-1 : fs[m] = InSync
  BY DEF SyncInTurn, fs
<1>3. CASE n = Len(es) + 1
  BY <1>1, <1>2, <1>3 DEF Announces
<1>4. CASE n \in 1..Len(es)
  BY <1>1, <1>2, <1>4 DEF SyncInTurn
<1> QED BY <1>1, <1>2, <1>3, <1>4

\* The copy applies the first event.
LEMMA InTurnTail ==
    ASSUME NEW copy, NEW keys, NEW es \in Seq(Event), NEW fs \in Seq(Event), NEW copy2,
           Len(es) = Len(fs) + 1,
           \A i \in 1..Len(fs) : fs[i] = es[i + 1],
           \A k \in keys : copy2[k] = After(es[1], k, copy[k]),
           InTurn(copy, keys, es)
    PROVE  InTurn(copy2, keys, fs)
<1> SUFFICES ASSUME NEW n \in 1..Len(fs), fs[n] # InSync,
                    NEW k, k = KeyOf(fs[n].meta.item), k \in keys
             PROVE  \E held \in Revision \cup {NoRev} :
                       Leads(copy2[k], fs, n - 1, k, held) /\ Suits(fs[n], held)
  BY DEF InTurn
<1>1. n + 1 \in 1..Len(es) /\ fs[n] = es[n + 1] /\ n - 1 \in Nat /\ (n + 1) - 1 = (n - 1) + 1
  OBVIOUS
<1>2. PICK held \in Revision \cup {NoRev} :
         Leads(copy[k], es, (n + 1) - 1, k, held) /\ Suits(es[n + 1], held)
  BY <1>1 DEF InTurn
<1>3. \A i \in 1..n-1 : fs[i] = es[i + 1]
  <2>1. \A i \in 1..n-1 : i \in 1..Len(fs)
    OBVIOUS
  <2> QED BY <2>1
<1>4. Leads(After(es[1], k, copy[k]), fs, n - 1, k, held)
  BY <1>1, <1>2, <1>3, LeadsTail
<1> QED BY <1>1, <1>2, <1>4

LEMMA AnnouncesTail ==
    ASSUME NEW told \in BOOLEAN, NEW es \in Seq(Event), NEW fs \in Seq(Event),
           NEW told2 \in BOOLEAN, told2 <=> told \/ es[1] = InSync,
           Len(es) = Len(fs) + 1,
           \A i \in 1..Len(fs) : fs[i] = es[i + 1]
    PROVE  told2 \/ Announces(fs) <=> told \/ Announces(es)
<1>1. ASSUME NEW i \in 1..Len(es), i # 1
      PROVE  i - 1 \in 1..Len(fs) /\ es[i] = fs[i - 1]
  <2>1. i - 1 \in 1..Len(fs) /\ (i - 1) + 1 = i
    BY <1>1
  <2> QED BY <2>1
<1>2. 1 \in 1..Len(es) /\ \A i \in 1..Len(fs) : i + 1 \in 1..Len(es)
  OBVIOUS
<1>3. CASE es[1] = InSync
  BY <1>2, <1>3 DEF Announces
<1>4. CASE es[1] # InSync
  <2>1. Announces(fs) => Announces(es)
    BY <1>2 DEF Announces
  <2>2. Announces(es) => Announces(fs)
    BY <1>1, <1>4 DEF Announces
  <2> QED BY <1>4, <2>1, <2>2
<1> QED BY <1>3, <1>4

LEMMA SyncTail ==
    ASSUME NEW told \in BOOLEAN, NEW es \in Seq(Event), NEW fs \in Seq(Event),
           NEW told2 \in BOOLEAN, told2 <=> told \/ es[1] = InSync,
           Len(es) = Len(fs) + 1,
           \A i \in 1..Len(fs) : fs[i] = es[i + 1],
           SyncInTurn(told, es)
    PROVE  SyncInTurn(told2, fs)
<1>1. ASSUME NEW i \in 1..Len(es), i # 1
      PROVE  i - 1 \in 1..Len(fs) /\ es[i] = fs[i - 1]
  <2>1. i - 1 \in 1..Len(fs) /\ (i - 1) + 1 = i
    BY <1>1
  <2> QED BY <2>1
<1> SUFFICES ASSUME NEW n \in 1..Len(fs)
             PROVE  IF fs[n] = InSync
                    THEN ~told2 /\ \A m \in 1..n-1 : fs[m] # InSync
                    ELSE fs[n].type = "added" \/ told2 \/ \E m \in 1..n-1 : fs[m] = InSync
  BY DEF SyncInTurn
<1>2. n + 1 \in 1..Len(es) /\ fs[n] = es[n + 1]
  OBVIOUS
<1>3. \A m \in 1..(n+1)-1 : m = 1 \/ (m - 1 \in 1..n-1 /\ es[m] = fs[m - 1])
  BY <1>1
<1>4. \A m \in 1..n-1 : m + 1 \in 1..(n+1)-1 /\ fs[m] = es[m + 1]
  OBVIOUS
<1>5. 1 \in 1..(n+1)-1
  OBVIOUS
<1>6. CASE fs[n] = InSync
  BY <1>2, <1>4, <1>5, <1>6 DEF SyncInTurn
<1>7. CASE fs[n] # InSync
  <2>1. es[n + 1] # InSync
    BY <1>2, <1>7
  <2>2. es[n + 1].type = "added" \/ told \/ \E m \in 1..(n+1)-1 : es[m] = InSync
    BY <1>2, <2>1 DEF SyncInTurn
  <2>3. ASSUME NEW m \in 1..(n+1)-1, es[m] = InSync
        PROVE  told2 \/ \E j \in 1..n-1 : fs[j] = InSync
    <3>1. CASE m = 1
      BY <2>3, <3>1
    <3>2. CASE m - 1 \in 1..n-1 /\ es[m] = fs[m - 1]
      BY <2>3, <3>2
    <3> QED BY <1>3, <3>1, <3>2
  <2> QED BY <1>2, <1>7, <2>2, <2>3
<1> QED BY <1>6, <1>7

-----------------------------------------------------------------------------
(* The invariant, but for the order of events, action by action. *)

Modest ==
    Types /\ Stations /\ Recorded /\ Accounted /\ Endings /\ CleanEnd /\ Authorized

LEMMA VisibleStays ==
    ASSUME UNCHANGED callVars
    PROVE  Visible' = Visible /\ (Admitted' <=> Admitted)
BY DEF callVars, Visible, Admitted

LEMMA RefuseMalformedIsModest ==
    ASSUME StreamInv, RefuseMalformed
    PROVE  Modest'
<1> USE DEF StreamInv, RefuseMalformed, Return, pollVars, callVars, serviceVars, clientVars,
            loopVars
<1>1. Types'
  BY DEF Types, Stage, Status
<1>2. Stations'
  BY VisibleStays DEF Stations, Types, Watching, Admitted
<1>3. Recorded' /\ Accounted'
  BY DEF Recorded, Accounted
<1>4. Endings' /\ CleanEnd'
  BY DEF Endings, CleanEnd
<1>5. Authorized'
  BY VisibleStays DEF Authorized
<1> QED BY <1>1, <1>2, <1>3, <1>4, <1>5 DEF Modest

LEMMA DenyIsModest ==
    ASSUME StreamInv, Deny
    PROVE  Modest'
<1> USE DEF StreamInv, Deny, Return, Audit, pollVars, callVars, clientVars, loopVars
<1>1. Types'
  BY DEF Types, Stage, Status
<1>2. Stations'
  BY VisibleStays DEF Stations, Types, Watching, Admitted
<1>3. Recorded' /\ Accounted'
  BY DEF Recorded, Accounted
<1>4. Endings' /\ CleanEnd'
  BY DEF Endings, CleanEnd
<1>5. Authorized'
  BY VisibleStays DEF Authorized
<1> QED BY <1>1, <1>2, <1>3, <1>4, <1>5 DEF Modest

LEMMA AdmitIsModest ==
    ASSUME StreamInv, Admit
    PROVE  Modest'
<1> USE DEF StreamInv, Admit, callVars, serviceVars, clientVars
<1>1. pc = "idle" /\ pc' \in {"snapshot", "rejected"} /\ ctxDone' = ctxDone
  BY DEF Subscribe, SubscribeTooLate, BeginList
<1>2. handler'.at = "subscribing" /\ handler'.status = handler.status /\ handler' \in [at : Stage, status : Status]
  BY DEF Types, Stage
<1>3. Types'
  BY <1>2 DEF Types
<1>4. Stations'
  BY <1>1, <1>2, VisibleStays DEF Stations, Watching
<1>5. Recorded' /\ Accounted'
  BY <1>2 DEF Recorded, Accounted, Admitted
<1>6. Endings' /\ CleanEnd'
  BY <1>1, <1>2 DEF Endings, CleanEnd
<1>7. Authorized'
  BY VisibleStays DEF Authorized
<1> QED BY <1>3, <1>4, <1>5, <1>6, <1>7 DEF Modest

LEMMA WatchFailsIsModest ==
    ASSUME StreamInv, WatchFails
    PROVE  Modest'
<1> USE DEF StreamInv, WatchFails, Return, Audit, pollVars, callVars, clientVars, loopVars
<1>1. Types'
  BY DEF Types, Stage, Status
<1>2. Stations'
  BY VisibleStays DEF Stations, Types, Watching
<1>3. Recorded' /\ Accounted'
  BY DEF Recorded, Accounted
<1>4. Endings' /\ CleanEnd'
  BY DEF Endings, CleanEnd
<1>5. Authorized'
  BY VisibleStays DEF Authorized
<1> QED BY <1>1, <1>2, <1>3, <1>4, <1>5 DEF Modest

LEMMA WatchStartsIsModest ==
    ASSUME StreamInv, WatchStarts
    PROVE  Modest'
<1> USE DEF StreamInv, WatchStarts, Audit, pollVars, callVars, clientVars, loopVars
<1>1. handler'.at = "ranging" /\ handler'.status = handler.status /\ handler' \in [at : Stage, status : Status]
  BY DEF Types, Stage
<1>2. Types'
  BY <1>1 DEF Types
<1>3. Stations'
  BY <1>1, VisibleStays DEF Stations, Watching
<1>4. Recorded' /\ Accounted'
  BY <1>1 DEF Recorded, Accounted
<1>5. Endings' /\ CleanEnd'
  BY <1>1 DEF Endings, CleanEnd
<1>6. Authorized'
  BY VisibleStays DEF Authorized
<1> QED BY <1>2, <1>3, <1>4, <1>5, <1>6 DEF Modest

\* The filter lets an event pass only if its key is visible.
LEMMA FilterReceivesIsModest ==
    ASSUME StreamInv, FilterReceives
    PROVE  Modest'
<1> USE DEF StreamInv, FilterReceives, callVars, handlerVars, clientVars
<1>1. pending \in Event /\ UNCHANGED <<pc, ctxDone>>
  BY DEF Taken, PollInv, PollTypeOK
<1>2. pc # "idle" /\ request # Malformed
  BY DEF Stations
<1>3. Types'
  BY <1>1 DEF Types
<1>4. Stations'
  BY <1>1, VisibleStays, NoneAssumption DEF Stations, Watching
<1>5. Recorded' /\ Accounted'
  BY <1>1 DEF Recorded, Accounted
<1>6. Endings' /\ CleanEnd'
  BY <1>1 DEF Endings, CleanEnd
<1>7. Authorized'
  <2>1. Passes(pending) /\ pending # InSync => KeyOf(pending.meta.item) \in Visible
    BY <1>1, <1>2, KeyAssumption DEF Passes, Visible, Event, Revision
  <2> QED BY <2>1, VisibleStays DEF Authorized
<1> QED BY <1>3, <1>4, <1>5, <1>6, <1>7 DEF Modest

LEMMA FilterEndsIsModest ==
    ASSUME StreamInv, FilterEnds
    PROVE  Modest'
<1> USE DEF StreamInv, FilterEnds, pollVars, callVars, handlerVars, clientVars, loopVars
<1>1. Types'
  BY DEF Types
<1>2. Stations'
  BY VisibleStays DEF Stations, Watching
<1>3. Recorded' /\ Accounted'
  BY DEF Recorded, Accounted
<1>4. Endings' /\ CleanEnd'
  BY DEF Endings, CleanEnd
<1>5. Authorized'
  BY VisibleStays DEF Authorized
<1> QED BY <1>1, <1>2, <1>3, <1>4, <1>5 DEF Modest

LEMMA HandlerReceivesIsModest ==
    ASSUME StreamInv, HandlerReceives
    PROVE  Modest'
<1> USE DEF StreamInv, HandlerReceives, pollVars, callVars, clientVars, loopVars
<1>1. handler'.at = "sending" /\ handler'.status = handler.status /\ handler' \in [at : Stage, status : Status]
  BY DEF Types, Stage
<1>2. Types'
  BY <1>1 DEF Types
<1>3. Stations'
  BY <1>1, VisibleStays DEF Stations, Watching
<1>4. Recorded' /\ Accounted'
  BY <1>1 DEF Recorded, Accounted
<1>5. Endings' /\ CleanEnd'
  BY <1>1 DEF Endings, CleanEnd
<1>6. Authorized'
  BY VisibleStays DEF Authorized
<1> QED BY <1>2, <1>3, <1>4, <1>5, <1>6 DEF Modest

\* The channel the handler ranges over is closed only when ctx has ended.
LEMMA HandlerEndsIsModest ==
    ASSUME StreamInv, HandlerEnds
    PROVE  Modest'
<1> USE DEF StreamInv, HandlerEnds, Return, pollVars, callVars, serviceVars, clientVars, loopVars
<1>1. Types'
  BY DEF Types, Stage, Status
<1>2. Stations'
  BY VisibleStays DEF Stations, Types, Watching
<1>3. Recorded' /\ Accounted'
  BY DEF Recorded, Accounted
<1>4. Endings' /\ CleanEnd'
  BY DEF Endings, CleanEnd
<1>5. Authorized'
  BY VisibleStays DEF Authorized
<1> QED BY <1>1, <1>2, <1>3, <1>4, <1>5 DEF Modest

LEMMA SendSucceedsIsModest ==
    ASSUME StreamInv, SendSucceeds
    PROVE  Modest'
<1> USE DEF StreamInv, SendSucceeds, pollVars, callVars, serviceVars, clientVars, loopVars
<1>1. handler'.at = "ranging" /\ handler'.status = handler.status /\ handler' \in [at : Stage, status : Status]
  BY DEF Types, Stage
<1>2. sending \in Event /\ wire \in Seq(Event)
  BY DEF Types, Stations
<1>3. Types'
  <2>1. Append(wire, sending) \in Seq(Event)
    BY <1>2
  <2> QED BY <1>1, <2>1 DEF Types
<1>4. Stations'
  BY <1>1, VisibleStays DEF Stations, Watching
<1>5. Recorded' /\ Accounted'
  BY <1>1 DEF Recorded, Accounted
<1>6. Endings' /\ CleanEnd'
  BY <1>1 DEF Endings, CleanEnd
<1>7. Authorized'
  <2>1. \A n \in 1..Len(wire') : wire'[n] = sending \/ (n \in 1..Len(wire) /\ wire'[n] = wire[n])
    BY <1>2
  <2> QED BY <2>1, VisibleStays DEF Authorized
<1> QED BY <1>3, <1>4, <1>5, <1>6, <1>7 DEF Modest

LEMMA SendFailsIsModest ==
    ASSUME StreamInv, SendFails
    PROVE  Modest'
<1> USE DEF StreamInv, SendFails, Return, pollVars, callVars, serviceVars, clientVars, loopVars
<1>1. Types'
  BY DEF Types, Stage, Status
<1>2. Stations'
  BY VisibleStays DEF Stations, Types, Watching
<1>3. Recorded' /\ Accounted'
  BY DEF Recorded, Accounted
<1>4. Endings' /\ CleanEnd'
  BY DEF Endings, CleanEnd
<1>5. Authorized'
  BY VisibleStays DEF Authorized
<1> QED BY <1>1, <1>2, <1>3, <1>4, <1>5 DEF Modest

LEMMA CtxEndsIsModest ==
    ASSUME StreamInv, HangUp \/ StreamEnds
    PROVE  Modest'
<1> USE DEF StreamInv, HangUp, StreamEnds, CtxEnds, callVars, serviceVars, handlerVars,
            clientVars, loopVars
<1>1. Types'
  BY DEF Types
<1>2. Stations'
  BY VisibleStays DEF Stations, Watching
<1>3. Recorded' /\ Accounted'
  BY DEF Recorded, Accounted
<1>4. Endings' /\ CleanEnd'
  BY DEF Endings, CleanEnd
<1>5. Authorized'
  BY VisibleStays DEF Authorized
<1> QED BY <1>1, <1>2, <1>3, <1>4, <1>5 DEF Modest

\* What the client is about to read, and what is left for it after that.
LEMMA WireMoves ==
    ASSUME StreamInv, wire # <<>>
    PROVE  /\ Head(wire) = wire[1] /\ Head(wire) \in Event
           /\ Tail(wire) \in Seq(Event) /\ Len(wire) = Len(Tail(wire)) + 1
           /\ \A n \in 1..Len(Tail(wire)) : n + 1 \in 1..Len(wire) /\ Tail(wire)[n] = wire[n + 1]
           /\ 1 \in 1..Len(wire)
<1>1. wire \in Seq(Event)
  BY DEF StreamInv, Types
<1>2. Len(wire) \in Nat /\ Len(wire) # 0
  BY <1>1
<1>3. Len(wire) = Len(Tail(wire)) + 1 /\ 1 \in 1..Len(wire) /\ Tail(wire) \in Seq(Event)
  BY <1>1, <1>2
<1>4. Head(wire) = wire[1] /\ Head(wire) \in Event
  BY <1>1, <1>3
<1>5. ASSUME NEW n \in 1..Len(Tail(wire))
      PROVE  n + 1 \in 1..Len(wire) /\ Tail(wire)[n] = wire[n + 1]
  BY <1>1, <1>3
<1> QED BY <1>3, <1>4, <1>5

\* What is left of the buffer is as visible to the caller as the whole of it was.
LEMMA AuthorizedTail ==
    ASSUME Authorized, Visible' = Visible, sending' = sending, passing' = passing,
           wire' = Tail(wire), \A k \in Key \ Visible : view'[k] = NoRev,
           \A n \in 1..Len(Tail(wire)) : n + 1 \in 1..Len(wire) /\ Tail(wire)[n] = wire[n + 1]
    PROVE  Authorized'
<1>1. ASSUME NEW n \in 1..Len(wire')
      PROVE  wire'[n] \in {wire[m] : m \in 1..Len(wire)}
  OBVIOUS
<1>2. {sending', passing'} \cup {wire'[n] : n \in 1..Len(wire')}
          \subseteq {sending, passing} \cup {wire[m] : m \in 1..Len(wire)}
  BY <1>1
<1> QED BY <1>2 DEF Authorized

\* The client's copy takes an event.
LEMMA ApplyOne ==
    ASSUME NEW e \in Event, NEW copy \in [Key -> Revision \cup {NoRev}]
    PROVE  /\ Apply(e, copy) \in [Key -> Revision \cup {NoRev}]
           /\ \A k \in Key : Apply(e, copy)[k] = After(e, k, copy[k])
<1>1. e # InSync => Told(e) \in Revision \cup {NoRev} /\ KeyOf(e.meta.item) \in Key
  BY KeyAssumption DEF Told, Event, Revision
<1> QED BY <1>1 DEF Apply, After, Concerns

LEMMA ClientReceivesIsModest ==
    ASSUME StreamInv, ClientReceives
    PROVE  Modest'
<1> USE DEF StreamInv, ClientReceives, pollVars, callVars, serviceVars, handlerVars, loopVars
<1>1. /\ Head(wire) = wire[1] /\ Head(wire) \in Event
      /\ Tail(wire) \in Seq(Event)
      /\ \A n \in 1..Len(Tail(wire)) : n + 1 \in 1..Len(wire) /\ Tail(wire)[n] = wire[n + 1]
      /\ 1 \in 1..Len(wire)
  BY WireMoves
<1>2. /\ view' \in [Key -> Revision \cup {NoRev}]
      /\ \A k \in Key : view'[k] = After(wire[1], k, view[k])
  BY <1>1, ApplyOne DEF Types
<1>3. Types'
  BY <1>1, <1>2 DEF Types
<1>4. Stations'
  BY <1>1, VisibleStays DEF Stations, Watching
<1>5. Recorded' /\ Accounted'
  BY DEF Recorded, Accounted
<1>6. Endings' /\ CleanEnd'
  BY DEF Endings, CleanEnd
<1>7. Authorized'
  <2>1. \A k \in Key \ Visible : ~Concerns(wire[1], k)
    BY <1>1, NoneAssumption DEF Authorized, Concerns
  <2>2. \A k \in Key \ Visible : view'[k] = NoRev
    BY <1>2, <2>1 DEF Authorized, After
  <2>3. Authorized /\ Visible' = Visible /\ sending' = sending /\ passing' = passing
    BY VisibleStays
  <2>4. wire' = Tail(wire)
    OBVIOUS
  <2> QED BY <1>1, <2>2, <2>3, <2>4, AuthorizedTail
<1> QED BY <1>3, <1>4, <1>5, <1>6, <1>7 DEF Modest

LEMMA PrintFailsIsModest ==
    ASSUME StreamInv, PrintFails
    PROVE  Modest'
<1> USE DEF StreamInv, PrintFails, CtxEnds, callVars, serviceVars, handlerVars, loopVars
<1>1. /\ Tail(wire) \in Seq(Event)
      /\ \A n \in 1..Len(Tail(wire)) : n + 1 \in 1..Len(wire) /\ Tail(wire)[n] = wire[n + 1]
      /\ 1 \in 1..Len(wire)
  BY WireMoves
<1>2. Types'
  BY <1>1 DEF Types
<1>3. Stations'
  BY <1>1, VisibleStays DEF Stations, Watching
<1>4. Recorded' /\ Accounted'
  BY DEF Recorded, Accounted
<1>5. Endings' /\ CleanEnd'
  BY DEF Endings, CleanEnd
<1>6. Authorized'
  <2>1. Visible' = Visible /\ view' = view /\ sending' = sending /\ passing' = passing
    BY VisibleStays
  <2>2. wire' = Tail(wire)
    OBVIOUS
  <2>3. Authorized /\ \A k \in Key \ Visible : view'[k] = NoRev
    BY <2>1 DEF Authorized
  <2> QED BY <1>1, <2>1, <2>2, <2>3, AuthorizedTail
<1> QED BY <1>2, <1>3, <1>4, <1>5, <1>6 DEF Modest

LEMMA ClientEndsIsModest ==
    ASSUME StreamInv, ClientEnds
    PROVE  Modest'
<1> USE DEF StreamInv, ClientEnds, pollVars, callVars, serviceVars, handlerVars, loopVars
<1>1. Types'
  BY DEF Types
<1>2. Stations'
  BY VisibleStays DEF Stations, Watching
<1>3. Recorded' /\ Accounted'
  BY DEF Recorded, Accounted
<1>4. Endings' /\ CleanEnd'
  BY DEF Types, Endings, CleanEnd
<1>5. Authorized'
  <2>1. Authorized /\ Visible' = Visible
        /\ view' = view /\ wire' = wire /\ sending' = sending /\ passing' = passing
    BY VisibleStays
  <2> QED BY <2>1 DEF Authorized
<1> QED BY <1>1, <1>2, <1>3, <1>4, <1>5 DEF Modest

LEMMA PollStepIsModest ==
    ASSUME StreamInv, PollStep
    PROVE  Modest'
<1> USE DEF StreamInv, PollStep, callVars, serviceVars, handlerVars, clientVars
<1>1. /\ pc # "idle" /\ pc' # "idle" /\ ctxDone' = ctxDone
      /\ pc' \in {"snapshot", "rejected"} => pc \in {"idle", "snapshot"}
      /\ pc' = "closed" => ctxDone
  BY LoopOffers DEF Silently, GivesUp, OffersInSync, OffersEvent
<1>2. Types'
  BY DEF Types
<1>3. Stations'
  BY <1>1, VisibleStays DEF Stations, Watching
<1>4. Recorded' /\ Accounted'
  BY <1>1 DEF Recorded, Accounted
<1>5. Endings' /\ CleanEnd'
  BY <1>1 DEF Endings, CleanEnd
<1>6. Authorized'
  BY VisibleStays DEF Authorized
<1> QED BY <1>2, <1>3, <1>4, <1>5, <1>6 DEF Modest

LEMMA IdleIsModest ==
    ASSUME StreamInv, Environment \/ UNCHANGED vars
    PROVE  Modest'
<1>1. UNCHANGED <<pc, ctxDone, callVars, serviceVars, handlerVars, wire, hungUp, clientVars>>
  BY DEF Environment, BackendStep, Write, Recreate, Remove, Restore, Change, loopVars, vars,
         pollVars
<1> USE <1>1 DEF StreamInv, callVars, serviceVars, handlerVars, clientVars
<1>2. Types'
  BY DEF Types
<1>3. Stations'
  BY VisibleStays DEF Stations, Watching
<1>4. Recorded' /\ Accounted'
  BY DEF Recorded, Accounted
<1>5. Endings' /\ CleanEnd'
  BY DEF Endings, CleanEnd
<1>6. Authorized'
  BY VisibleStays DEF Authorized
<1> QED BY <1>2, <1>3, <1>4, <1>5, <1>6 DEF Modest

LEMMA NextIsModest ==
    ASSUME StreamInv, [Next]_vars
    PROVE  Modest'
BY RefuseMalformedIsModest, DenyIsModest, AdmitIsModest, WatchFailsIsModest, WatchStartsIsModest,
   FilterReceivesIsModest, FilterEndsIsModest, HandlerReceivesIsModest, HandlerEndsIsModest,
   SendSucceedsIsModest, SendFailsIsModest, CtxEndsIsModest, ClientReceivesIsModest,
   PrintFailsIsModest, ClientEndsIsModest, PollStepIsModest, IdleIsModest
   DEF Next, ServiceStep, FilterStep, HandlerStep

-----------------------------------------------------------------------------
(* The events in flight. *)

AtHandler == wire \o Maybe(sending)
AtFilter  == AtHandler \o Maybe(passing)

\* The premise of Pipeline: nobody has given up.
Upright == Watching /\ filter # "done" /\ client = "reading" /\ pc # "closed"

LEMMA ThenMaybe ==
    ASSUME NEW es \in Seq(Event), NEW e \in Event \cup {NoEvent}
    PROVE  /\ es \o Maybe(e) \in Seq(Event)
           /\ es \o Maybe(e) = IF e = NoEvent THEN es ELSE Append(es, e)
<1>1. CASE e = NoEvent
  <2>1. es \o <<>> = es
    BY ConcatEmptySeq
  <2> QED BY <1>1, <2>1 DEF Maybe
<1>2. CASE e # NoEvent
  <2>1. e \in Event
    BY <1>2
  <2>2. Append(es, e) = es \o <<e>> /\ Append(es, e) \in Seq(Event)
    BY <2>1, AppendIsConcat, AppendProperties
  <2> QED BY <1>2, <2>2 DEF Maybe
<1> QED BY <1>1, <1>2

LEMMA MaybeBehind ==
    ASSUME NEW es \in Seq(Event), es # <<>>, NEW e \in Event \cup {NoEvent}
    PROVE  /\ es \o Maybe(e) # <<>>
           /\ Head(es \o Maybe(e)) = Head(es)
           /\ Tail(es \o Maybe(e)) = Tail(es) \o Maybe(e)
<1>1. Tail(es) \in Seq(Event)
  OBVIOUS
<1>2. CASE e = NoEvent
  BY <1>1, <1>2, ThenMaybe
<1>3. CASE e # NoEvent
  <2>1. e \in Event
    BY <1>3
  <2>2. /\ Head(Append(es, e)) = Head(es)
        /\ Tail(Append(es, e)) = Append(Tail(es), e)
    BY HeadTailAppend
  <2>3. Append(es, e) # <<>>
    BY <2>1, AppendProperties
  <2>4. es \o Maybe(e) = Append(es, e) /\ Tail(es) \o Maybe(e) = Append(Tail(es), e)
    BY <1>1, <1>3, ThenMaybe
  <2> QED BY <2>2, <2>3, <2>4
<1> QED BY <1>2, <1>3

LEMMA MaybePrefix ==
    ASSUME NEW es \in Seq(Event), NEW e \in Event \cup {NoEvent}
    PROVE  Prefix(es, es \o Maybe(e))
<1>1. CASE e = NoEvent
  BY <1>1, ThenMaybe DEF Prefix
<1>2. CASE e # NoEvent
  <2>1. es \o Maybe(e) = Append(es, e) /\ e \in Event
    BY <1>2, ThenMaybe
  <2> QED BY <2>1, AppendProperties DEF Prefix
<1> QED BY <1>1, <1>2

LEMMA PrefixReflexive ==
    ASSUME NEW es \in Seq(Event)
    PROVE  Prefix(es, es)
BY DEF Prefix

LEMMA PrefixTransitive ==
    ASSUME NEW ds \in Seq(Event), NEW es \in Seq(Event), NEW fs \in Seq(Event),
           Prefix(ds, es), Prefix(es, fs)
    PROVE  Prefix(ds, fs)
BY DEF Prefix

LEMMA FlightTypes ==
    ASSUME StreamInv
    PROVE  /\ wire \in Seq(Event) /\ AtHandler \in Seq(Event) /\ AtFilter \in Seq(Event)
           /\ InFlight \in Seq(Event) /\ Deliverable \in Seq(Event)
           /\ InFlight = AtFilter \o Maybe(pending)
           /\ Prefix(wire, Deliverable) /\ Prefix(AtHandler, InFlight)
           /\ Prefix(AtFilter, InFlight)
           /\ Deliverable \in {wire, AtHandler, InFlight}
<1>1. /\ wire \in Seq(Event) /\ sending \in Event \cup {NoEvent}
      /\ passing \in Event \cup {NoEvent} /\ pending \in Event \cup {NoEvent}
  BY DEF StreamInv, Types, PollInv, PollTypeOK
<1>2. AtHandler \in Seq(Event) /\ Prefix(wire, AtHandler)
  BY <1>1, ThenMaybe, MaybePrefix DEF AtHandler
<1>3. AtFilter \in Seq(Event) /\ Prefix(AtHandler, AtFilter)
  BY <1>1, <1>2, ThenMaybe, MaybePrefix DEF AtFilter
<1>4. InFlight = AtFilter \o Maybe(pending)
  BY DEF InFlight, AtFilter, AtHandler
<1>5. InFlight \in Seq(Event) /\ Prefix(AtFilter, InFlight)
  BY <1>1, <1>3, <1>4, ThenMaybe, MaybePrefix
<1>6. Prefix(wire, InFlight) /\ Prefix(wire, wire) /\ Prefix(AtHandler, InFlight)
  BY <1>1, <1>2, <1>3, <1>5, PrefixTransitive, PrefixReflexive
<1>7. Deliverable \in {wire, AtHandler, InFlight}
  BY DEF Deliverable, AtHandler
<1> QED BY <1>1, <1>2, <1>3, <1>4, <1>5, <1>6, <1>7

\* A step that neither moves an event nor changes a copy.
LEMMA PipelineStays ==
    ASSUME StreamInv, InFlight' = InFlight, UNCHANGED <<view, seen, callVars>>,
           Upright' => Upright
    PROVE  Pipeline'
BY VisibleStays DEF StreamInv, Pipeline, Upright, Watching

\* A step that at most drops events from the end.
LEMMA OrderShrinks ==
    ASSUME StreamInv, UNCHANGED <<view, synced, callVars>>,
           client' = "reading" => client = "reading",
           pc' \in Early => pc \in Early,
           Deliverable' \in Seq(Event), Prefix(Deliverable', Deliverable),
           Upright' /\ pc' \notin Early =>
               Upright /\ pc \notin Early /\ (Announces(InFlight) => Announces(InFlight'))
    PROVE  Order'
<1> SUFFICES ASSUME client' = "reading" PROVE Order'
  BY DEF Order
<1>1. /\ Deliverable \in Seq(Event)
      /\ InTurn(view, Visible, Deliverable) /\ SyncInTurn(synced, Deliverable)
      /\ pc \in Early => ~synced /\ ~Announces(Deliverable)
      /\ Upright /\ pc \notin Early => synced \/ Announces(InFlight)
  BY FlightTypes DEF StreamInv, Order, Upright
<1>2. InTurn(view, Visible, Deliverable') /\ SyncInTurn(synced, Deliverable')
  BY <1>1, InTurnPrefix, SyncPrefix
<1>3. pc' \in Early => ~synced /\ ~Announces(Deliverable')
  BY <1>1, SyncPrefix
<1>4. Upright' /\ pc' \notin Early => synced \/ Announces(InFlight')
  BY <1>1
<1>5. Visible' = Visible /\ view' = view /\ synced' = synced
  BY VisibleStays
<1> QED BY <1>2, <1>3, <1>4, <1>5 DEF Order, Upright

-----------------------------------------------------------------------------
(* Pipeline and Order, action by action. *)

Flow == Pipeline /\ Order

\* Once the handler has returned, only what is in the stream still gets through.
LEMMA ReturnFlows ==
    ASSUME StreamInv, handler'.at = "returned",
           UNCHANGED <<wire, view, synced, callVars, client, pc>>
    PROVE  Flow'
<1>1. ~Upright'
  BY DEF Upright, Watching
<1>2. Pipeline'
  BY DEF Pipeline
<1>3. Deliverable' = wire
  BY DEF Deliverable
<1>4. Order'
  BY <1>1, <1>3, FlightTypes, OrderShrinks
<1> QED BY <1>2, <1>4 DEF Flow

\* An event moves on, or none does.
LEMMA SteadyFlows ==
    ASSUME StreamInv, InFlight' = InFlight, Deliverable' = Deliverable, Upright' => Upright,
           UNCHANGED <<view, synced, callVars, client, pc, seen>>
    PROVE  Flow'
<1>1. Pipeline'
  BY PipelineStays
<1>2. Order'
  BY FlightTypes, PrefixReflexive, OrderShrinks
<1> QED BY <1>1, <1>2 DEF Flow

LEMMA AdmitFlows ==
    ASSUME StreamInv, Admit
    PROVE  Flow'
<1>1. /\ pc = "idle" /\ pc' \in {"snapshot", "rejected"}
      /\ handler.at = "call" /\ handler'.at = "subscribing"
      /\ UNCHANGED <<seen, pending, wire, sending, passing, filter, view, synced, callVars,
                     client>>
  BY DEF Admit, Subscribe, SubscribeTooLate, BeginList, callVars, serviceVars, clientVars,
         StreamInv, Types
<1>2. /\ wire = <<>> /\ sending = NoEvent /\ passing = NoEvent /\ pending = NoEvent
      /\ filter = "off"
      /\ seen = [k \in Key |-> NoRev] /\ view = [k \in Key |-> NoRev]
  BY <1>1 DEF StreamInv, Stations, PollInv, Offers
<1>3. InFlight = <<>> /\ InFlight' = <<>>
  BY <1>1, <1>2 DEF InFlight, Maybe
<1>4. Deliverable' = Deliverable
  BY <1>1, <1>2, <1>3 DEF Deliverable
<1>5. Pipeline'
  BY <1>1, <1>2, <1>3, VisibleStays DEF Pipeline, Leads, Visible
<1>6. Order'
  BY <1>1, <1>4, FlightTypes, PrefixReflexive, OrderShrinks DEF Early
<1> QED BY <1>5, <1>6 DEF Flow

LEMMA WatchStartsFlows ==
    ASSUME StreamInv, WatchStarts
    PROVE  Flow'
<1>1. /\ handler.at = "subscribing" /\ handler'.at = "ranging"
      /\ filter' = "receiving" /\ filter = "off"
      /\ UNCHANGED <<pc, seen, pending, wire, sending, passing, view, synced, callVars, client>>
  BY DEF WatchStarts, Audit, pollVars, loopVars, callVars, clientVars, StreamInv, Types, Stations
<1>2. InFlight' = InFlight /\ Deliverable' = Deliverable /\ (Upright' => Upright)
  BY <1>1 DEF InFlight, Deliverable, Upright, Watching
<1> QED BY <1>1, <1>2, SteadyFlows

LEMMA FilterReceivesFlows ==
    ASSUME StreamInv, FilterReceives
    PROVE  Flow'
<1>1. /\ filter = "receiving" /\ passing = NoEvent
      /\ pending \in Event /\ pending' = NoEvent /\ pending # NoEvent
      /\ UNCHANGED <<pc, seen, wire, sending, view, synced, callVars, handler, client>>
  BY DEF FilterReceives, Taken, callVars, clientVars, handlerVars, StreamInv, Stations,
         PollInv, PollTypeOK
<1>2. /\ AtHandler \in Seq(Event) /\ AtFilter \in Seq(Event) /\ AtHandler' = AtHandler
      /\ AtFilter = AtHandler
      /\ InFlight = AtFilter \o Maybe(pending)
  BY <1>1, FlightTypes, ThenMaybe DEF AtHandler, AtFilter
<1>3. InFlight = Append(AtHandler, pending)
  BY <1>1, <1>2, ThenMaybe
<1>4. InFlight' = (AtHandler \o Maybe(passing')) \o Maybe(NoEvent)
  BY <1>1, <1>2 DEF InFlight, AtHandler
<1>5. CASE Passes(pending)
  <2>1. filter' = "parked" /\ passing' = pending
    BY <1>5 DEF FilterReceives
  <2>2. AtHandler \o Maybe(pending) = Append(AtHandler, pending)
        /\ AtHandler \o Maybe(pending) \in Seq(Event)
    BY <1>1, <1>2, ThenMaybe
  <2>3. InFlight' = InFlight
    BY <1>3, <1>4, <2>1, <2>2, ThenMaybe
  <2>4. Deliverable' = Deliverable /\ (Upright' => Upright)
    BY <1>1, <2>1, <2>3 DEF Deliverable, Upright, Watching
  <2> QED BY <1>1, <2>3, <2>4, SteadyFlows
<1>6. CASE ~Passes(pending)
  <2>1. UNCHANGED <<filter, passing>>
    BY <1>6 DEF FilterReceives
  <2>2. AtHandler \o Maybe(NoEvent) = AtHandler
    BY <1>2, ThenMaybe
  <2>3. InFlight' = AtHandler
    BY <1>1, <1>4, <2>1, <2>2
  <2>4. pending # InSync /\ \A k \in Visible : ~Concerns(pending, k)
    BY <1>6 DEF Passes, Visible, Concerns
  <2>5. Upright' => Upright
    BY <1>1, <2>1 DEF Upright, Watching
  <2>6. Len(InFlight) = Len(AtHandler) + 1 /\ Len(AtHandler) \in Nat
        /\ InFlight[Len(AtHandler) + 1] = pending
        /\ \A i \in 1..Len(AtHandler) : AtHandler[i] = InFlight[i]
    BY <1>1, <1>2, <1>3, AppendProperties
  <2>7. Pipeline'
    <3> SUFFICES ASSUME Upright, NEW k \in Visible
                 PROVE  Leads(view[k], AtHandler, Len(AtHandler), k, seen[k])
      BY <1>1, <2>3, <2>5, VisibleStays DEF Pipeline, Upright, Watching
    <3>1. Leads(view[k], InFlight, Len(AtHandler) + 1, k, seen[k])
      BY <2>6 DEF StreamInv, Pipeline, Upright, Watching
    <3>2. Leads(view[k], InFlight, Len(AtHandler), k, seen[k])
      BY <2>4, <2>6, <3>1, LeadsBack
    <3> QED BY <2>6, <3>2, LeadsSame
  <2>8. Announces(InFlight) <=> Announces(InFlight')
    BY <1>1, <1>2, <1>3, <2>3, <2>4, AnnouncesAppend
  <2>9. Prefix(Deliverable', Deliverable) /\ Deliverable' \in Seq(Event)
    <3>1. CASE handler.at = "returned"
      BY <1>1, <3>1, FlightTypes, PrefixReflexive DEF Deliverable
    <3>2. CASE handler.at # "returned"
      <4>1. Deliverable' = AtHandler /\ Deliverable = InFlight
        BY <1>1, <2>1, <2>3, <3>2 DEF Deliverable
      <4> QED BY <4>1, FlightTypes
    <3> QED BY <3>1, <3>2
  <2>10. Order'
    BY <1>1, <2>5, <2>8, <2>9, OrderShrinks
  <2> QED BY <2>7, <2>10 DEF Flow
<1> QED BY <1>5, <1>6

LEMMA FilterEndsFlows ==
    ASSUME StreamInv, FilterEnds
    PROVE  Flow'
<1>1. /\ filter' = "done" /\ filter # "done"
      /\ UNCHANGED <<pc, seen, pending, wire, sending, view, synced, callVars, handler, client>>
  BY DEF FilterEnds, pollVars, loopVars, callVars, clientVars, handlerVars
<1>2. ~Upright'
  BY <1>1 DEF Upright
<1>3. Pipeline'
  BY <1>1 DEF Pipeline
<1>4. Prefix(Deliverable', Deliverable) /\ Deliverable' \in Seq(Event)
  <2>1. CASE handler.at = "returned"
    BY <1>1, <2>1, FlightTypes, PrefixReflexive DEF Deliverable
  <2>2. CASE handler.at # "returned"
    <3>1. Deliverable' = AtHandler /\ Deliverable = InFlight
      BY <1>1, <2>2 DEF Deliverable, AtHandler
    <3> QED BY <3>1, FlightTypes
  <2> QED BY <2>1, <2>2
<1>5. Order'
  BY <1>1, <1>2, <1>4, OrderShrinks
<1> QED BY <1>3, <1>5 DEF Flow

LEMMA HandlerReceivesFlows ==
    ASSUME StreamInv, HandlerReceives
    PROVE  Flow'
<1>1. /\ handler.at = "ranging" /\ handler'.at = "sending"
      /\ filter = "parked" /\ filter' = "receiving"
      /\ sending = NoEvent /\ passing \in Event
      /\ sending' = passing /\ passing' = NoEvent
      /\ UNCHANGED <<pc, seen, pending, wire, view, synced, callVars, client>>
  BY DEF HandlerReceives, pollVars, loopVars, callVars, clientVars, StreamInv, Types, Stations
<1>2. /\ wire \in Seq(Event) /\ wire \o Maybe(NoEvent) = wire
      /\ wire \o Maybe(passing) \in Seq(Event)
  BY <1>1, FlightTypes, ThenMaybe
<1>3. (wire \o Maybe(passing)) \o Maybe(NoEvent) = wire \o Maybe(passing)
  BY <1>2, ThenMaybe
<1>4. InFlight' = InFlight
  BY <1>1, <1>2, <1>3 DEF InFlight
<1>5. Deliverable' = Deliverable /\ (Upright' => Upright)
  BY <1>1, <1>4 DEF Deliverable, Upright, Watching
<1> QED BY <1>1, <1>4, <1>5, SteadyFlows

LEMMA SendSucceedsFlows ==
    ASSUME StreamInv, SendSucceeds
    PROVE  Flow'
<1>1. /\ handler.at = "sending" /\ handler'.at = "ranging"
      /\ sending \in Event /\ sending # NoEvent /\ sending' = NoEvent
      /\ wire' = Append(wire, sending)
      /\ UNCHANGED <<pc, seen, pending, passing, filter, view, synced, callVars, client>>
  BY DEF SendSucceeds, pollVars, loopVars, callVars, serviceVars, clientVars, StreamInv, Types,
         Stations
<1>2. wire \in Seq(Event) /\ wire \o Maybe(sending) = Append(wire, sending)
      /\ Append(wire, sending) \in Seq(Event)
  BY <1>1, FlightTypes, ThenMaybe, AppendProperties
<1>3. wire' \o Maybe(sending') = wire \o Maybe(sending)
  BY <1>1, <1>2, ThenMaybe
<1>4. InFlight' = InFlight
  BY <1>1, <1>3 DEF InFlight
<1>5. Deliverable' = Deliverable /\ (Upright' => Upright)
  BY <1>1, <1>3, <1>4 DEF Deliverable, Upright, Watching
<1> QED BY <1>1, <1>4, <1>5, SteadyFlows

LEMMA IdleFlows ==
    ASSUME StreamInv, HangUp \/ StreamEnds \/ Environment \/ UNCHANGED vars
    PROVE  Flow'
<1>1. UNCHANGED <<pc, seen, pending, wire, sending, passing, filter, handler, view, synced,
                  callVars, client>>
  BY DEF HangUp, StreamEnds, CtxEnds, Environment, BackendStep, Write, Recreate, Remove, Restore,
         Change, loopVars, vars, pollVars, serviceVars, handlerVars, clientVars
<1>2. InFlight' = InFlight /\ Deliverable' = Deliverable /\ (Upright' => Upright)
  BY <1>1 DEF InFlight, Deliverable, Upright, Watching
<1> QED BY <1>1, <1>2, SteadyFlows

\* What becomes of the events no longer matters to a client that is gone.
LEMMA ClientGoneFlows ==
    ASSUME StreamInv, PrintFails \/ ClientEnds
    PROVE  Flow'
<1>1. client' # "reading"
  BY DEF PrintFails, ClientEnds
<1> QED BY <1>1 DEF Flow, Pipeline, Order

\* The client applies the first of the events that were in flight.
LEMMA ClientReceivesFlows ==
    ASSUME StreamInv, ClientReceives
    PROVE  Flow'
<1>1. /\ client = "reading" /\ wire # <<>> /\ wire' = Tail(wire)
      /\ view' = Apply(Head(wire), view)
      /\ synced' = (synced \/ Head(wire) = InSync)
      /\ UNCHANGED <<pc, seen, pending, sending, passing, filter, handler, callVars, client>>
  BY DEF ClientReceives, pollVars, loopVars, serviceVars, handlerVars
<1>2. /\ wire \in Seq(Event) /\ sending \in Event \cup {NoEvent}
      /\ passing \in Event \cup {NoEvent} /\ pending \in Event \cup {NoEvent}
      /\ synced \in BOOLEAN /\ view \in [Key -> Revision \cup {NoRev}]
  BY DEF StreamInv, Types, PollInv, PollTypeOK
<1>3. /\ AtHandler \in Seq(Event) /\ AtHandler # <<>>
      /\ Head(AtHandler) = Head(wire) /\ AtHandler' = Tail(AtHandler)
  BY <1>1, <1>2, MaybeBehind, FlightTypes DEF AtHandler
<1>4. /\ AtFilter \in Seq(Event) /\ AtFilter # <<>>
      /\ Head(AtFilter) = Head(wire) /\ AtFilter' = Tail(AtFilter)
  BY <1>1, <1>2, <1>3, MaybeBehind, FlightTypes DEF AtFilter
<1>5. InFlight \in Seq(Event) /\ InFlight = AtFilter \o Maybe(pending)
  BY FlightTypes
<1>6. InFlight' = AtFilter' \o Maybe(pending)
  BY <1>1 DEF InFlight, AtFilter, AtHandler
<1>7. /\ InFlight # <<>>
      /\ Head(InFlight) = Head(wire) /\ InFlight' = Tail(InFlight)
  BY <1>2, <1>4, <1>5, <1>6, MaybeBehind
<1>8. /\ Deliverable \in Seq(Event) /\ Deliverable # <<>>
      /\ Head(Deliverable) = Head(wire) /\ Deliverable' = Tail(Deliverable)
  <2>1. CASE handler.at = "returned"
    BY <1>1, <2>1, FlightTypes DEF Deliverable
  <2>2. CASE handler.at # "returned" /\ filter = "done"
    <3>1. Deliverable = AtHandler /\ Deliverable' = AtHandler'
      BY <1>1, <2>2 DEF Deliverable, AtHandler
    <3> QED BY <1>3, <3>1
  <2>3. CASE handler.at # "returned" /\ filter # "done"
    <3>1. Deliverable = InFlight /\ Deliverable' = InFlight'
      BY <1>1, <2>3 DEF Deliverable
    <3> QED BY <1>5, <1>7, <3>1
  <2> QED BY <2>1, <2>2, <2>3
<1>9. ASSUME NEW es \in Seq(Event), es # <<>>
      PROVE  /\ Tail(es) \in Seq(Event) /\ Len(es) = Len(Tail(es)) + 1 /\ es[1] = Head(es)
             /\ Len(Tail(es)) \in Nat
             /\ \A i \in 1..Len(Tail(es)) : Tail(es)[i] = es[i + 1]
  <2>1. Len(es) \in Nat /\ Len(es) # 0
    BY <1>9
  <2>2. Len(es) = Len(Tail(es)) + 1 /\ Tail(es) \in Seq(Event) /\ Len(Tail(es)) \in Nat
    BY <1>9, <2>1
  <2> QED BY <1>9, <2>1, <2>2
<1>10. wire[1] = Head(wire) /\ wire[1] \in Event
  BY <1>1, WireMoves
<1>11. \A k \in Key : view'[k] = After(wire[1], k, view[k])
  BY <1>1, <1>2, <1>10, ApplyOne
<1>12. Visible' = Visible /\ Visible \subseteq Key
  BY <1>1, VisibleStays DEF Visible
<1>13. Pipeline'
  <2> SUFFICES ASSUME Upright, NEW k \in Visible
               PROVE  Leads(view'[k], InFlight', Len(InFlight'), k, seen[k])
    BY <1>1, <1>12 DEF Pipeline, Upright, Watching
  <2>1. Leads(view[k], InFlight, Len(InFlight), k, seen[k])
    BY DEF StreamInv, Pipeline, Upright, Watching
  <2>2. /\ Len(InFlight) = Len(InFlight') + 1 /\ InFlight[1] = wire[1]
        /\ Len(InFlight') \in Nat
        /\ \A i \in 1..Len(InFlight') : InFlight'[i] = InFlight[i + 1]
    BY <1>5, <1>7, <1>9, <1>10
  <2>3. Leads(After(wire[1], k, view[k]), InFlight', Len(InFlight'), k, seen[k])
    BY <2>1, <2>2, LeadsTail
  <2> QED BY <1>11, <1>12, <2>3
<1>14. Order'
  <2>1. /\ Len(Deliverable) = Len(Deliverable') + 1 /\ Deliverable[1] = wire[1]
        /\ Deliverable' \in Seq(Event) /\ Deliverable \in Seq(Event)
        /\ \A i \in 1..Len(Deliverable') : Deliverable'[i] = Deliverable[i + 1]
    BY <1>8, <1>9, <1>10
  <2>2. /\ Len(InFlight) = Len(InFlight') + 1 /\ InFlight[1] = wire[1]
        /\ InFlight' \in Seq(Event) /\ InFlight \in Seq(Event)
        /\ \A i \in 1..Len(InFlight') : InFlight'[i] = InFlight[i + 1]
    BY <1>5, <1>7, <1>9, <1>10
  <2>3. /\ InTurn(view, Visible, Deliverable) /\ SyncInTurn(synced, Deliverable)
        /\ pc \in Early => ~synced /\ ~Announces(Deliverable)
        /\ Upright /\ pc \notin Early => synced \/ Announces(InFlight)
    BY <1>1 DEF StreamInv, Order, Upright
  <2>4. InTurn(view', Visible, Deliverable')
    BY <1>11, <1>12, <2>1, <2>3, InTurnTail
  <2>5. synced' \in BOOLEAN /\ (synced' <=> synced \/ wire[1] = InSync)
    BY <1>1, <1>2, <1>10
  <2>6. /\ SyncInTurn(synced', Deliverable')
        /\ synced' \/ Announces(Deliverable') <=> synced \/ Announces(Deliverable)
    BY <1>2, <2>1, <2>3, <2>5, SyncTail, AnnouncesTail
  <2>7. synced' \/ Announces(InFlight') <=> synced \/ Announces(InFlight)
    BY <1>2, <2>2, <2>5, AnnouncesTail
  <2> QED BY <1>1, <1>12, <2>3, <2>4, <2>6, <2>7 DEF Order, Upright, Watching
<1> QED BY <1>13, <1>14 DEF Flow

\* The loop puts event e on the channel.
LEMMA OfferFlows ==
    ASSUME StreamInv, UNCHANGED <<wire, sending, passing, filter, handler, view, synced, callVars,
                                  client>>,
           NEW e \in Event, pending = NoEvent, pending' = e,
           pc # "idle", pc # "closed", pc' # "closed",
           pc' \in Early => pc \in Early,
           \A k \in Key : seen'[k] = After(e, k, seen[k]),
           IF e = InSync THEN pc \in Early /\ pc' \notin Early
           ELSE /\ KeyOf(e.meta.item) \in Key /\ Suits(e, seen[KeyOf(e.meta.item)])
                /\ pc' = pc
                /\ pc \in Early => e.type = "added"
    PROVE  Flow'
<1>1. /\ InFlight \in Seq(Event) /\ Deliverable \in Seq(Event) /\ AtFilter \in Seq(Event)
      /\ InFlight = AtFilter \o Maybe(NoEvent)
  BY FlightTypes
<1>2. InFlight = AtFilter
  BY <1>1, ThenMaybe
<1>3. InFlight' = AtFilter \o Maybe(e)
  BY DEF InFlight, AtFilter, AtHandler
<1>4. InFlight' = Append(InFlight, e)
  BY <1>1, <1>2, <1>3, NoneAssumption, ThenMaybe
<1>5. /\ Len(InFlight') = Len(InFlight) + 1 /\ Len(InFlight) \in Nat
      /\ InFlight'[Len(InFlight) + 1] = e
      /\ \A i \in 1..Len(InFlight) : InFlight'[i] = InFlight[i]
  BY <1>1, <1>4, AppendProperties
<1>6. Upright' <=> Upright
  BY DEF Upright, Watching
<1>7. Visible' = Visible /\ Visible \subseteq Key
  BY VisibleStays DEF Visible
<1>8. ASSUME Upright, NEW k \in Visible
      PROVE  Leads(view[k], InFlight, Len(InFlight), k, seen[k])
  BY <1>8 DEF StreamInv, Pipeline, Upright, Watching
<1>9. Pipeline'
  <2> SUFFICES ASSUME Upright, NEW k \in Visible
               PROVE  Leads(view[k], InFlight', Len(InFlight'), k, seen'[k])
    BY <1>6, <1>7 DEF Pipeline, Upright, Watching
  <2>1. Leads(view[k], InFlight', Len(InFlight), k, seen[k])
    BY <1>5, <1>8, LeadsSame
  <2>2. Leads(view[k], InFlight', Len(InFlight) + 1, k, After(e, k, seen[k]))
    BY <1>5, <2>1, LeadsOn
  <2> QED BY <1>5, <1>7, <2>2
<1>10. CASE handler.at = "returned" \/ filter = "done"
  <2>1. Deliverable' = Deliverable /\ ~Upright'
    BY <1>10 DEF Deliverable, Upright, Watching
  <2>2. Order'
    BY <1>1, <2>1, PrefixReflexive, OrderShrinks
  <2> QED BY <1>9, <2>2 DEF Flow
<1>11. CASE handler.at # "returned" /\ filter # "done"
  <2> SUFFICES ASSUME client = "reading" PROVE Order'
    BY <1>9 DEF Flow, Order
  <2>1. Deliverable = InFlight /\ Deliverable' = Append(InFlight, e)
    BY <1>4, <1>11 DEF Deliverable
  <2>2. Upright
    BY <1>11 DEF Upright, Watching, StreamInv, Stations, Types, Stage
  <2>3. /\ InTurn(view, Visible, InFlight) /\ SyncInTurn(synced, InFlight)
        /\ pc \in Early => ~synced /\ ~Announces(InFlight)
        /\ pc \notin Early => synced \/ Announces(InFlight)
    BY <2>1, <2>2 DEF StreamInv, Order, Upright
  <2>4. InTurn(view, Visible, Append(InFlight, e))
    <3>1. ASSUME e # InSync, KeyOf(e.meta.item) \in Visible
          PROVE  \E held \in Revision \cup {NoRev} :
                    /\ Leads(view[KeyOf(e.meta.item)], InFlight, Len(InFlight),
                             KeyOf(e.meta.item), held)
                    /\ Suits(e, held)
      <4>1. Leads(view[KeyOf(e.meta.item)], InFlight, Len(InFlight), KeyOf(e.meta.item),
                  seen[KeyOf(e.meta.item)])
        BY <1>8, <2>2, <3>1
      <4>2. seen[KeyOf(e.meta.item)] \in Revision \cup {NoRev}
        BY <3>1 DEF StreamInv, PollInv, PollTypeOK
      <4> QED BY <3>1, <4>1, <4>2
    <3> QED BY <1>1, <2>3, <3>1, InTurnAppend
  <2>5. SyncInTurn(synced, Append(InFlight, e))
    BY <1>1, <2>3, SyncAppend
  <2>6. Announces(Append(InFlight, e)) <=> Announces(InFlight) \/ e = InSync
    BY <1>1, AnnouncesAppend
  <2> QED BY <1>4, <1>7, <2>1, <2>3, <2>4, <2>5, <2>6 DEF Order, Watching
<1> QED BY <1>10, <1>11

LEMMA PollStepFlows ==
    ASSUME StreamInv, PollStep
    PROVE  Flow'
<1>1. /\ UNCHANGED <<wire, sending, passing, filter, handler, view, synced, callVars, client>>
      /\ pc # "idle"
  BY DEF PollStep, serviceVars, handlerVars, clientVars
<1>2. CASE Silently
  <2>1. InFlight' = InFlight /\ Deliverable' = Deliverable /\ (Upright' => Upright)
    BY <1>1, <1>2 DEF InFlight, Deliverable, Upright, Watching, Silently
  <2>2. Pipeline'
    BY <1>1, <1>2, <2>1, PipelineStays DEF Silently
  <2>3. Order'
    BY <1>1, <1>2, <2>1, FlightTypes, PrefixReflexive, OrderShrinks DEF Silently, Upright
  <2> QED BY <2>2, <2>3 DEF Flow
<1>3. CASE GivesUp
  <2>1. ~Upright' /\ pc' \notin Early /\ pending' = NoEvent
    BY <1>3 DEF GivesUp, Upright, Early
  <2>2. Pipeline'
    BY <1>3 DEF GivesUp, Pipeline
  <2>3. AtFilter \in Seq(Event) /\ InFlight' = AtFilter \o Maybe(NoEvent)
    BY <1>1, <2>1, FlightTypes DEF InFlight, AtFilter, AtHandler
  <2>4. InFlight' = AtFilter
    BY <2>3, ThenMaybe
  <2>5. Prefix(Deliverable', Deliverable) /\ Deliverable' \in Seq(Event)
    <3>1. CASE handler.at = "returned" \/ filter = "done"
      <4>1. Deliverable' = Deliverable
        BY <1>1, <3>1 DEF Deliverable
      <4> QED BY <4>1, FlightTypes, PrefixReflexive
    <3>2. CASE handler.at # "returned" /\ filter # "done"
      <4>1. Deliverable' = AtFilter /\ Deliverable = InFlight
        BY <1>1, <2>4, <3>2 DEF Deliverable
      <4> QED BY <4>1, FlightTypes
    <3> QED BY <3>1, <3>2
  <2>6. Order'
    BY <1>1, <2>1, <2>5, OrderShrinks
  <2> QED BY <2>2, <2>6 DEF Flow
<1>4. CASE OffersInSync
  <2>1. InSync \in Event /\ \A k \in Key : After(InSync, k, seen[k]) = seen[k]
    BY DEF Event, After, Concerns
  <2> QED BY <1>1, <1>4, <2>1, OfferFlows DEF OffersInSync, Early
<1>5. ASSUME NEW e \in [type : EventType, meta : Revision], OffersEvent(e)
      PROVE  Flow'
  <2>1. e \in Event /\ e # InSync
    BY <1>5 DEF Event, OffersEvent
  <2>2. seen \in [Key -> Revision \cup {NoRev}]
    BY DEF StreamInv, PollInv, PollTypeOK
  <2>3. \A k \in Key : seen'[k] = After(e, k, seen[k])
    BY <1>5, <2>1, <2>2 DEF OffersEvent, After, Concerns
  <2> QED BY <1>1, <1>5, <2>1, <2>3, OfferFlows DEF OffersEvent, Early
<1> QED BY <1>2, <1>3, <1>4, <1>5, LoopOffers DEF StreamInv, PollStep

LEMMA NextFlows ==
    ASSUME StreamInv, [Next]_vars
    PROVE  Flow'
<1>1. CASE RefuseMalformed \/ Deny \/ WatchFails \/ HandlerEnds \/ SendFails
  BY <1>1, ReturnFlows DEF RefuseMalformed, Deny, WatchFails, HandlerEnds, SendFails, Return,
     pollVars, loopVars, clientVars
<1> QED
  BY <1>1, AdmitFlows, WatchStartsFlows, FilterReceivesFlows, FilterEndsFlows,
     HandlerReceivesFlows, SendSucceedsFlows, IdleFlows, ClientGoneFlows, ClientReceivesFlows,
     PollStepFlows DEF Next, ServiceStep, FilterStep, HandlerStep

-----------------------------------------------------------------------------
(* The theorems. *)

LEMMA InitEstablishes == Init => StreamInv
<1> SUFFICES ASSUME Init PROVE StreamInv
  OBVIOUS
<1> USE DEF Init
<1>1. PollInv /\ pc = "idle" /\ pending = NoEvent /\ ctxDone = FALSE
      /\ seen = [k \in Key |-> NoRev]
  BY PollBegins DEF PollInit
<1>2. Types
  <2>1. wire \in Seq(Event)
    BY EmptySeq
  <2>2. view \in [Key -> Revision \cup {NoRev}]
    OBVIOUS
  <2>3. handler \in [at : Stage, status : Status]
    BY DEF Stage, Status
  <2> QED BY <2>1, <2>2, <2>3 DEF Types
<1>3. Stations /\ Recorded /\ Accounted
  BY <1>1 DEF Stations, Recorded, Accounted, Watching
<1>4. Endings /\ CleanEnd
  BY <1>1 DEF Endings, CleanEnd
<1>5. Authorized
  BY DEF Authorized
<1>6. InFlight = <<>> /\ Deliverable = <<>>
  BY <1>1 DEF InFlight, Deliverable, Maybe
<1>7. Pipeline
  BY DEF Pipeline
<1>8. Order
  BY <1>1, <1>6 DEF Order, InTurn, SyncInTurn, Announces, Watching
<1> QED BY <1>1, <1>2, <1>3, <1>4, <1>5, <1>7, <1>8 DEF StreamInv

LEMMA NextKeeps ==
    ASSUME StreamInv, [Next]_vars
    PROVE  StreamInv'
<1>1. \/ BackendStep \/ CtxEnds \/ LoopStep \/ Taken \/ UNCHANGED pollVars
  BY DEF Next, PollStep, ServiceStep, Admit, Deny, WatchFails, WatchStarts, FilterStep,
         FilterReceives, FilterEnds, HandlerStep, RefuseMalformed, HandlerReceives, HandlerEnds,
         SendSucceeds, SendFails, HangUp, StreamEnds, ClientReceives, PrintFails, ClientEnds,
         Environment, LoopStep, vars
<1>2. PollInv'
  BY <1>1, PollKeeps DEF StreamInv
<1> QED BY <1>2, NextIsModest, NextFlows DEF StreamInv, Modest, Flow

\* StreamInv holds in every reachable state of a WatchSecrets call, whatever the
\* numbers of secrets and changes, the policy and the window of the stream.
THEOREM StreamInvariance == Spec => []StreamInv
<1>1. Init => StreamInv
  BY InitEstablishes
<1>2. StreamInv /\ [Next]_vars => StreamInv'
  BY NextKeeps
<1> QED BY <1>1, <1>2, PTL DEF Spec

\* Every variable of the call keeps its type.
THEOREM StreamTypes == Spec => []TypeOK
<1>1. StreamInv => TypeOK
  BY DEF StreamInv, PollInv, Types, TypeOK, Stage, Status
<1> QED BY <1>1, StreamInvariance, PTL

\* While nobody has given up, the client's copy and the events between it and the
\* poller make up Poll's seen map of the visible keys: three goroutines and a
\* buffer lose, repeat or reorder nothing.
THEOREM StreamPipeline == Spec => []Pipeline
<1>1. StreamInv => Pipeline
  BY DEF StreamInv
<1> QED BY <1>1, StreamInvariance, PTL

\* No metadata of a secret the caller may not both list and watch gets past
\* filterEvents.
THEOREM StreamAuthorized == Spec => []Authorized
<1>1. StreamInv => Authorized
  BY DEF StreamInv
<1> QED BY <1>1, StreamInvariance, PTL

\* A refused call never reaches the backend, and every call leaves exactly one
\* audit record, which tells how it went.
THEOREM StreamAccounted == Spec => []Accounted
<1>1. StreamInv => Accounted
  BY DEF StreamInv
<1> QED BY <1>1, StreamInvariance, PTL

\* The handler reports a clean end only of a stream ended from outside, and the
\* command exits with 0 only if it was its user who ended it.
THEOREM StreamCleanEnd == Spec => []CleanEnd
<1>1. StreamInv => CleanEnd
  BY DEF StreamInv
<1> QED BY <1>1, StreamInvariance, PTL

\* What the client reads next fits what it holds, comes after IN_SYNC if it is a
\* live change, and IN_SYNC comes once: whatever buffers and goroutines lie between,
\* and however the call ends.
THEOREM StreamDiscipline == Spec => ClientDiscipline
<1> DEFINE e == Head(wire)
           Fit == IF e = InSync THEN ~synced
                  ELSE /\ Suits(e, view[KeyOf(e.meta.item)])
                       /\ e.type = "added" \/ synced
<1>1. ASSUME StreamInv, ClientReceives
      PROVE  Fit
  <2>1. /\ client = "reading" /\ wire # <<>>
        /\ e = wire[1] /\ e \in Event /\ 1 \in 1..Len(wire)
    BY <1>1, WireMoves DEF ClientReceives
  <2>2. 1 \in 1..Len(Deliverable) /\ Deliverable[1] = e
    BY <1>1, <2>1, FlightTypes DEF Prefix
  <2>3. InTurn(view, Visible, Deliverable) /\ SyncInTurn(synced, Deliverable)
    BY <1>1, <2>1 DEF StreamInv, Order
  <2> HIDE DEF e
  <2>4. e # InSync => KeyOf(e.meta.item) \in Visible
    BY <1>1, <2>1, NoneAssumption DEF StreamInv, Authorized
  <2>5. e # InSync => Suits(e, view[KeyOf(e.meta.item)])
    BY <2>2, <2>3, <2>4 DEF InTurn, Leads
  <2>6. IF e = InSync THEN ~synced ELSE e.type = "added" \/ synced
    BY <2>2, <2>3 DEF SyncInTurn
  <2> QED BY <2>5, <2>6
<1>2. StreamInv /\ [Next]_vars => [ClientReceives => Fit]_vars
  BY <1>1
<1> QED BY <1>2, StreamInvariance, PTL DEF Spec, ClientDiscipline

-----------------------------------------------------------------------------
(* What the client can rely on. *)

\* Poll is between two polls, and all it has sent has got to the client.
Delivered == Upright /\ pc = "wait" /\ InFlight = <<>>

\* The client knows that it is in sync, and under every key it may see it holds a
\* value the key had since the last List that succeeded began.  When nothing has
\* changed since, what it holds is what the backend holds, but for the keys it may
\* not see.
ClientCaughtUp ==
    Delivered =>
        /\ synced
        /\ \A i \in Item : KeyOf(i) \in Visible => view[KeyOf(i)] \in window[i]
        /\ (\A i \in Item : window[i] = {Value(i)}) =>
              {view[k] : k \in Key} \ {NoRev} =
              {Value(i) : i \in {j \in Item : KeyOf(j) \in Visible}} \ {NoRev}

LEMMA DeliveredIsSeen ==
    ASSUME StreamInv, Delivered, NEW k \in Visible
    PROVE  view[k] = seen[k]
<1>1. Leads(view[k], InFlight, Len(InFlight), k, seen[k])
  BY DEF StreamInv, Pipeline, Delivered, Upright, Watching
<1>2. InFlight = <<>> /\ Len(InFlight) = 0
  BY EmptySeq DEF Delivered
<1>3. 1..Len(InFlight) = {}
  BY <1>2
<1> QED BY <1>1, <1>3 DEF Leads

\* Three goroutines, a buffer and a filter away from Poll, the client has what the
\* subscriber of Poll has: nothing within its view is missing, stale or left over.
THEOREM StreamCaughtUp == Spec => []ClientCaughtUp
<1>1. StreamInv => ClientCaughtUp
  <2> SUFFICES ASSUME StreamInv, Delivered PROVE ClientCaughtUp
    BY DEF ClientCaughtUp
  <2>1. synced
    <3>1. synced \/ Announces(InFlight)
      BY DEF StreamInv, Order, Delivered, Upright, Early
    <3>2. Len(InFlight) = 0
      BY EmptySeq DEF Delivered
    <3>3. ~Announces(InFlight)
      BY <3>2 DEF Announces
    <3> QED BY <3>1, <3>3
  <2>2. \A k \in Visible : view[k] = seen[k]
    BY DeliveredIsSeen
  <2>3. \A i \in Item : KeyOf(i) \in Visible => view[KeyOf(i)] \in window[i]
    BY <2>2 DEF StreamInv, PollInv, Progress, Delivered
  <2>4. ASSUME \A i \in Item : window[i] = {Value(i)}
        PROVE  {view[k] : k \in Key} \ {NoRev} =
               {Value(i) : i \in {j \in Item : KeyOf(j) \in Visible}} \ {NoRev}
    <3>1. \A i \in Item : KeyOf(i) \in Visible => view[KeyOf(i)] = Value(i)
      BY <2>3, <2>4
    <3>2. ASSUME NEW k \in Key, view[k] # NoRev
          PROVE  \E i \in {j \in Item : KeyOf(j) \in Visible} : view[k] = Value(i)
      <4>1. k \in Visible
        BY <3>2 DEF StreamInv, Authorized
      <4>2. seen[k].item \in Item /\ KeyOf(seen[k].item) = k
        BY <2>2, <3>2, <4>1 DEF StreamInv, PollInv, PollTypeOK, Filed, Revision
      <4> QED BY <3>1, <4>1, <4>2
    <3>3. \A i \in Item : KeyOf(i) \in Key
      BY KeyAssumption
    <3> QED BY <3>1, <3>2, <3>3
  <2> QED BY <2>1, <2>3, <2>4 DEF ClientCaughtUp
<1> QED BY <1>1, StreamInvariance, PTL

-----------------------------------------------------------------------------
(* How a call ends. *)

\* What the handler and the filter can still do without another event of Poll's.
HandlerHops ==
    CASE handler.at = "call"        -> 4
      [] handler.at = "subscribing" -> 3
      [] handler.at = "sending"     -> 2
      [] handler.at = "ranging"     -> 1
      [] handler.at = "returned"    -> 0

FilterHops ==
    CASE filter = "parked"          -> 3
      [] filter = "receiving"       -> 1
      [] filter \in {"off", "done"} -> 0

HopsLeft == HandlerHops + FilterHops

OfTheCall == PollStep \/ ServiceStep \/ FilterStep \/ HandlerStep \/ SendFails

\* Once ctx has ended every step of the call's goroutines brings them nearer to their
\* end, and no step of anybody else's takes them away from it.
WindsDown ==
    ctxDone =>
        /\ OfTheCall => PollDescends \/ (PollStands /\ HopsLeft' < HopsLeft)
        /\ ~OfTheCall => PollStands /\ HopsLeft' = HopsLeft

LEMMA PollerWindsDown ==
    ASSUME StreamInv, ctxDone, PollStep \/ Admit \/ FilterReceives
    PROVE  PollDescends
BY LoopDescends DEF StreamInv, PollStep, Admit, FilterReceives, LoopStep

LEMMA HopsAreCounted ==
    ASSUME Types
    PROVE  HandlerHops \in 0..4 /\ FilterHops \in 0..3 /\ HopsLeft \in Nat
<1>1. HandlerHops \in 0..4
  <2>1. handler.at \in Stage
    BY DEF Types
  <2> QED BY <2>1 DEF HandlerHops, Stage
<1>2. FilterHops \in 0..3
  <2>1. filter \in {"off", "receiving", "parked", "done"}
    BY DEF Types
  <2> QED BY <2>1 DEF FilterHops
<1> QED BY <1>1, <1>2 DEF HopsLeft

LEMMA HandlerWindsDown ==
    ASSUME StreamInv,
           Deny \/ WatchFails \/ WatchStarts \/ FilterEnds \/ HandlerStep \/ SendFails
    PROVE  PollStands /\ HopsLeft' < HopsLeft
<1>1. PollStands
  BY PollStandsIf DEF Deny, WatchFails, WatchStarts, FilterEnds, HandlerStep, RefuseMalformed,
                      HandlerReceives, HandlerEnds, SendSucceeds, SendFails, Return, pollVars
<1>2. HandlerHops \in 0..4 /\ FilterHops \in 0..3
  BY HopsAreCounted DEF StreamInv
<1>3. ASSUME filter' = filter,
             \/ handler.at \in {"call", "subscribing", "sending", "ranging"}
                /\ handler'.at = "returned"
             \/ handler.at = "sending" /\ handler'.at = "ranging"
      PROVE  HopsLeft' < HopsLeft
  <2>1. FilterHops' = FilterHops
    BY <1>3 DEF FilterHops
  <2>2. PICK n \in 0..4, m \in 0..4, f \in 0..3 :
            HandlerHops = n /\ HandlerHops' = m /\ m < n /\ FilterHops = f
    BY <1>2, <1>3 DEF HandlerHops
  <2>3. HopsLeft = n + f /\ HopsLeft' = m + f /\ m + f < n + f
    BY <2>1, <2>2 DEF HopsLeft
  <2> QED BY <2>3
<1>4. CASE Deny \/ WatchFails
  <2>1. handler'.at = "returned" /\ filter' = filter
    BY <1>4 DEF Deny, WatchFails, Return
  <2>2. handler.at = "call" \/ handler.at = "subscribing"
    BY <1>4 DEF Deny, WatchFails
  <2> QED BY <1>1, <1>3, <2>1, <2>2
<1>5. CASE RefuseMalformed
  <2>1. handler'.at = "returned" /\ filter' = filter /\ handler.at = "call"
    BY <1>5 DEF StreamInv, Types, RefuseMalformed, Return, serviceVars
  <2> QED BY <1>1, <1>3, <2>1
<1>6. CASE WatchStarts
  <2>1. /\ handler.at = "subscribing" /\ handler'.at = "ranging"
        /\ filter = "off" /\ filter' = "receiving"
    BY <1>6 DEF StreamInv, Types, WatchStarts, Stations
  <2>2. HandlerHops = 3 /\ HandlerHops' = 1 /\ FilterHops = 0 /\ FilterHops' = 1
    BY <2>1 DEF HandlerHops, FilterHops
  <2> QED BY <1>1, <2>2 DEF HopsLeft
<1>7. CASE FilterEnds
  <2>1. filter \in {"receiving", "parked"} /\ filter' = "done" /\ handler' = handler
    BY <1>7 DEF FilterEnds, handlerVars
  <2>2. HandlerHops' = HandlerHops /\ FilterHops \in {1, 3} /\ FilterHops' = 0
    BY <2>1 DEF HandlerHops, FilterHops
  <2> QED BY <1>1, <1>2, <2>2 DEF HopsLeft
<1>8. CASE HandlerReceives
  <2>1. /\ handler.at = "ranging" /\ handler'.at = "sending"
        /\ filter = "parked" /\ filter' = "receiving"
    BY <1>8 DEF StreamInv, Types, HandlerReceives
  <2>2. HandlerHops = 1 /\ HandlerHops' = 2 /\ FilterHops = 3 /\ FilterHops' = 1
    BY <2>1 DEF HandlerHops, FilterHops
  <2> QED BY <1>1, <2>2 DEF HopsLeft
<1>9. CASE HandlerEnds
  <2>1. handler.at = "ranging" /\ handler'.at = "returned" /\ filter' = filter
    BY <1>9 DEF HandlerEnds, Return, serviceVars
  <2> QED BY <1>1, <1>3, <2>1
<1>10. CASE SendSucceeds
  <2>1. handler.at = "sending" /\ handler'.at = "ranging" /\ filter' = filter
    BY <1>10 DEF StreamInv, Types, SendSucceeds, serviceVars
  <2> QED BY <1>1, <1>3, <2>1
<1>11. CASE SendFails
  <2>1. handler.at = "sending" /\ handler'.at = "returned" /\ filter' = filter
    BY <1>11 DEF SendFails, Return, serviceVars
  <2> QED BY <1>1, <1>3, <2>1
<1> QED BY <1>4, <1>5, <1>6, <1>7, <1>8, <1>9, <1>10, <1>11 DEF HandlerStep

\* What there is to NoLeak besides fairness.  When a call's ctx has ended, whatever
\* the backend, the client and the transport do, Poll begins no stage anew and the
\* work of every stage is a set that only shrinks, so the poller, the filter and the
\* handler have only so many steps left.
THEOREM StreamWindsDown == Spec => [][WindsDown]_vars
<1>1. StreamInv /\ [Next]_vars => [WindsDown]_vars
  <2> SUFFICES ASSUME StreamInv, Next, ctxDone
               PROVE  /\ OfTheCall => PollDescends \/ (PollStands /\ HopsLeft' < HopsLeft)
                      /\ ~OfTheCall => PollStands /\ HopsLeft' = HopsLeft
    BY DEF WindsDown
  <2>1. ASSUME OfTheCall
        PROVE  PollDescends \/ (PollStands /\ HopsLeft' < HopsLeft)
    BY <2>1, PollerWindsDown, HandlerWindsDown DEF OfTheCall, ServiceStep, FilterStep
  <2>2. ASSUME ~OfTheCall
        PROVE  PollStands /\ HopsLeft' = HopsLeft
    <3>1. ClientReceives \/ ClientEnds \/ Environment
      BY <2>2 DEF Next, OfTheCall, HangUp, StreamEnds, PrintFails, CtxEnds
    <3>2. UNCHANGED <<loopVars, handler, filter>>
      BY <3>1 DEF ClientReceives, ClientEnds, Environment, BackendStep, Write, Recreate, Remove,
                  Restore, Change, pollVars, serviceVars, handlerVars
    <3> QED BY <3>2, PollStandsIf DEF HopsLeft, HandlerHops, FilterHops
  <2> QED BY <2>1, <2>2
<1> QED BY <1>1, StreamInvariance, PTL DEF Spec
================================================================================
