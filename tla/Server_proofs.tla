---------------------------- MODULE Server_proofs -----------------------------
(***************************************************************************)
(* Proofs about Policy, for every policy and every depth of namespaces;    *)
(* about Server, for any number of calls, keys, users and policies; and    *)
(* about a command of the CLI that makes one of the calls (Command).       *)
(***************************************************************************)
EXTENDS Command, TLAPS

-----------------------------------------------------------------------------
(* The two levels of app.Policy fit together: the coarse check made once per *)
(* call (canList, canWatch) never refuses a call of which the fine check     *)
(* made per secret (listable, visible) would let anything through, and       *)
(* grants are inherited downwards.                                           *)

LEMMA NamespaceLength ==
    ASSUME NEW n \in Namespace
    PROVE  Len(n) \in Nat
<1>1. PICK depth \in 0..MaxNamespaceDepth : n \in [1..depth -> Segment]
  BY DEF Namespace
<1>2. n \in Seq(Segment)
  BY <1>1, DepthAssumption
<1> QED BY <1>2

LEMMA ContainsTransitive ==
    ASSUME NEW a \in Namespace, NEW b \in Namespace, NEW c \in Namespace,
           Contains(a, b), Contains(b, c)
    PROVE  Contains(a, c)
<1>1. Len(a) \in Nat /\ Len(b) \in Nat /\ Len(c) \in Nat
  BY NamespaceLength
<1> QED BY <1>1 DEF Contains

\* Two namespaces that both contain a third lie on one path.
LEMMA AncestorsOverlap ==
    ASSUME NEW a \in Namespace, NEW b \in Namespace, NEW c \in Namespace,
           Contains(a, c), Contains(b, c)
    PROVE  Overlap(a, b)
<1>1. Len(a) \in Nat /\ Len(b) \in Nat /\ Len(c) \in Nat
  BY NamespaceLength
<1>2. CASE Len(a) <= Len(b)
  BY <1>1, <1>2 DEF Contains, Overlap
<1>3. CASE Len(b) <= Len(a)
  BY <1>1, <1>3 DEF Contains, Overlap
<1> QED BY <1>1, <1>2, <1>3

\* A grant at a namespace holds in everything nested beneath it.
THEOREM Inheritance ==
    ASSUME NEW rules \in Policies, NEW p \in Principal, NEW action \in Action,
           NEW ns \in Namespace, NEW below \in Namespace,
           Contains(ns, below), allows(rules, p, action, ns)
    PROVE  allows(rules, p, action, below)
<1>1. PICK r \in rules[p] : action \in r.actions /\ Contains(r.namespace, ns)
  BY DEF allows
<1>2. r.namespace \in Namespace
  BY DEF Policies, Rule
<1> QED BY <1>1, <1>2, ContainsTransitive DEF allows

\* A caller who may see a secret through List or Watch at all, may call List or
\* Watch on any namespace the secret is in: canList and canWatch refuse nobody to
\* whom the per-secret filter would have shown something.
THEOREM GatesAdmit ==
    ASSUME NEW rules \in Policies, NEW p \in Principal,
           NEW ns \in Namespace, NEW keyNS \in Namespace
    PROVE  /\ listable(rules, p, ns, keyNS) => canList(rules, p, ns)
           /\ visible(rules, p, ns, keyNS) => canWatch(rules, p, ns)
<1>1. ASSUME NEW action \in Action, Contains(ns, keyNS), allows(rules, p, action, keyNS)
      PROVE  mayOverlap(rules, p, action, ns)
  <2>1. PICK r \in rules[p] : action \in r.actions /\ Contains(r.namespace, keyNS)
    BY <1>1 DEF allows
  <2>2. r.namespace \in Namespace
    BY DEF Policies, Rule
  <2>3. Overlap(r.namespace, ns)
    BY <1>1, <2>1, <2>2, AncestorsOverlap
  <2> QED BY <2>1, <2>3 DEF mayOverlap
<1>2. "list" \in Action /\ "watch" \in Action
  BY DEF Action
<1> QED BY <1>1, <1>2 DEF listable, visible, canList, canWatch

\* canList admits nobody in vain: there is a namespace within the one asked for
\* whose secrets the caller may list.
THEOREM ListGateIsTight ==
    ASSUME NEW rules \in Policies, NEW p \in Principal, NEW ns \in Namespace,
           canList(rules, p, ns)
    PROVE  \E within \in Namespace : listable(rules, p, ns, within)
<1>1. PICK r \in rules[p] : "list" \in r.actions /\ Overlap(r.namespace, ns)
  BY DEF canList, mayOverlap
<1>2. r.namespace \in Namespace
  BY DEF Policies, Rule
<1>3. \A n \in Namespace : Contains(n, n)
  BY NamespaceLength DEF Contains
<1>4. CASE Contains(r.namespace, ns)
  BY <1>1, <1>3, <1>4 DEF listable, allows
<1>5. CASE Contains(ns, r.namespace)
  BY <1>1, <1>2, <1>3, <1>5 DEF listable, allows
<1> QED BY <1>1, <1>4, <1>5 DEF Overlap

-----------------------------------------------------------------------------
(* The inductive invariant. *)

AuditRecord ==
    [action : Method, decision : {"allow", "deny"}, outcome : {"success", "error", "denied"}]

CallRecord ==
    [request : Request,
     at      : {"new", "accepted", "store", "written", "answered", "returned", "killed"},
     answer  : {"none", "success", "notFound", "readOnly", "emptyValue", "failed"},
     status  : {"none", "OK", "Unauthenticated", "InvalidArgument", "Unimplemented",
                "PermissionDenied", "NotFound", "FailedPrecondition", "Internal"},
     audits  : Seq(AuditRecord),
     unread  : SUBSET Key, listing : SUBSET Key, always : SUBSET Key, ever : SUBSET Key]

Types ==
    /\ policy \in PolicyChoices
    /\ writable \in BOOLEAN
    /\ call \in [Call -> CallRecord]
    /\ store \subseteq Key
    /\ outside \in 0..MaxOutside
    /\ effects \subseteq Call
    /\ server \in {"serving", "draining", "stopped", "exited"}
    /\ abrupt \in BOOLEAN

Decided(r)  == authenticate(r) /\ Refusal(r) = "none"
Entitled(r) == Decided(r) /\ Permitted(r)
Writing(r)  == r.method \in {"put", "delete"}

\* Nothing has come of a call that the policy has not let through, and nobody
\* has been told anything before the call returns.
Quiet(c) ==
    /\ call[c].at \in {"new", "accepted"} => c \notin effects /\ call[c].listing = {}
    /\ call[c].at # "returned" => call[c].status = "none" /\ call[c].audits = <<>>

\* What has reached the store was let through.
Through(c) == call[c].at \in {"store", "written", "answered"} => Entitled(call[c].request)

\* Who has changed the store was let through, too, and the answer does not deny it.
Changed(c) ==
    /\ c \in effects =>
          /\ Writing(call[c].request) /\ Entitled(call[c].request)
          /\ call[c].at \in {"written", "answered", "returned", "killed"}
          /\ call[c].at = "answered" => call[c].answer \in {"success", "failed"}
          /\ call[c].at = "returned" => call[c].status \in {"OK", "Internal"}
    /\ call[c].at = "written" => c \in effects
    /\ Writing(call[c].request) =>
          /\ call[c].at = "answered" /\ call[c].answer = "success" => c \in effects
          /\ call[c].status = "OK" => c \in effects

\* What a call that has returned has left behind.
Recorded(c) ==
    LET r == call[c].request
        records == call[c].audits
    IN  call[c].at = "returned" =>
          IF ~Decided(r)
          THEN /\ records = <<>>
               /\ call[c].status \in {"Unauthenticated", "InvalidArgument", "Unimplemented"}
          ELSE /\ Len(records) = 1
               /\ (records[1].decision = "deny") <=> (call[c].status = "PermissionDenied")
               /\ (records[1].outcome = "success") <=> (call[c].status = "OK")
               /\ Permitted(r) <=> (call[c].status # "PermissionDenied")

Below(c) == {k \in Key : Contains(call[c].request.target, NsOf(k))}
Listable(c) ==
    {k \in Key : listable(policy, call[c].request.username, call[c].request.target, NsOf(k))}

\* A listing as it grows: what has been read is in it unless it was not always there.
Listed(c) ==
    call[c].request.method = "list" =>
        /\ call[c].at = "store" =>
              /\ call[c].always \subseteq store
              /\ store \subseteq call[c].ever
              /\ (call[c].always \cap Below(c)) \ call[c].unread \subseteq call[c].listing
              /\ call[c].listing \subseteq call[c].ever \cap Below(c)
        /\ call[c].at = "answered" /\ call[c].answer = "success" =>
              /\ call[c].always \cap Below(c) \subseteq call[c].listing
              /\ call[c].listing \subseteq call[c].ever \cap Below(c)
        /\ call[c].at = "returned" /\ call[c].status = "OK" =>
              /\ call[c].always \cap Listable(c) \subseteq call[c].listing
              /\ call[c].listing \subseteq call[c].ever \cap Listable(c)

Story(c) == Quiet(c) /\ Through(c) /\ Changed(c) /\ Recorded(c) /\ Listed(c)

\* Calls are killed by the exit only, and none is in progress after a drain in time.
Ending ==
    /\ server # "exited" => \A c \in Call : call[c].at # "killed"
    /\ server \in {"stopped", "exited"} /\ ~abrupt =>
          \A c \in Call : ~InProgress(c) /\ call[c].at # "killed"

ServerInv == Types /\ (\A c \in Call : Story(c)) /\ Ending

-----------------------------------------------------------------------------
(* What a step does to one call, and to the others. *)

LEMMA InitialStories == Init => ServerInv
<1> SUFFICES ASSUME Init PROVE ServerInv
  OBVIOUS
<1>1. PICK requests \in [Call -> Request] : call = [c \in Call |-> Idle(requests[c])]
  BY DEF Init
<1>2. ASSUME NEW c \in Call
      PROVE  call[c] = Idle(requests[c]) /\ call[c] \in CallRecord
  BY <1>1 DEF Idle, CallRecord
<1>3. Types
  <2>1. call \in [Call -> CallRecord]
    BY <1>1, <1>2
  <2>2. 0 \in 0..MaxOutside
    BY ServerAssumption
  <2> QED BY <2>1, <2>2 DEF Init, Types
<1>4. ASSUME NEW c \in Call PROVE Story(c)
  BY <1>2 DEF Init, Idle, Story, Quiet, Through, Changed, Recorded, Listed
<1>5. Ending
  BY <1>2 DEF Init, Ending, Idle
<1> QED BY <1>3, <1>4, <1>5 DEF ServerInv

\* A call that a step leaves alone keeps its story, as long as the step changes
\* neither the store nor who has changed it.
LEMMA Bystander ==
    ASSUME NEW d \in Call, Story(d), call'[d] = call[d],
           UNCHANGED <<policy, store>>, (d \in effects') = (d \in effects)
    PROVE  Story(d)'
BY DEF Story, Quiet, Through, Changed, Recorded, Listed, Below, Listable, Entitled, Decided,
       Permitted, authenticate

\* What a call is entitled to depends on its request and the policy, which do not change.
LEMMA RightsStay ==
    ASSUME NEW c \in Call, call'[c].request = call[c].request, policy' = policy
    PROVE  /\ Decided(call[c].request)' <=> Decided(call[c].request)
           /\ Permitted(call[c].request)' <=> Permitted(call[c].request)
           /\ Entitled(call[c].request)' <=> Entitled(call[c].request)
           /\ Below(c)' = Below(c)
           /\ Listable(c)' = Listable(c)
BY DEF Decided, authenticate, Permitted, Entitled, Below, Listable

\* A step of one call is right if the story of that call is.
LEMMA OneCall ==
    ASSUME ServerInv, NEW c \in Call, NEW rec \in CallRecord,
           InProgress(c) \/ server = "serving",
           call' = [call EXCEPT ![c] = rec], rec.at # "killed",
           UNCHANGED <<configVars, storeVars, lifeVars>>,
           Story(c)'
    PROVE  ServerInv'
<1> USE DEF configVars, storeVars, lifeVars
<1>1. /\ call' \in [Call -> CallRecord]
      /\ call'[c] = rec
      /\ \A d \in Call \ {c} : call'[d] = call[d]
  BY DEF ServerInv, Types
<1>2. Types'
  BY <1>1 DEF ServerInv, Types
<1>3. ASSUME NEW d \in Call PROVE Story(d)'
  <2>1. CASE d = c
    BY <2>1
  <2>2. CASE d # c
    BY <1>1, <2>2, Bystander DEF ServerInv
  <2> QED BY <2>1, <2>2
<1>4. Ending'
  BY <1>1 DEF ServerInv, Ending, InProgress
<1> QED BY <1>2, <1>3, <1>4 DEF ServerInv

-----------------------------------------------------------------------------
(* The steps of a handler. *)

LEMMA AcceptKeeps == ASSUME ServerInv, NEW c \in Call, Accept(c) PROVE ServerInv'
<1> DEFINE rec == [call[c] EXCEPT !.at = "accepted"]
<1>1. call[c] \in CallRecord /\ Story(c)
  BY DEF ServerInv, Types
<1>2. rec \in CallRecord /\ call' = [call EXCEPT ![c] = rec]
  BY <1>1 DEF Accept, CallRecord
<1>3. call'[c] = rec
  BY <1>2 DEF ServerInv, Types
<1>4. Story(c)'
  BY <1>1, <1>3 DEF Accept, CallRecord, Story, Quiet, Through, Changed, Recorded, Listed, storeVars
<1> QED BY <1>1, <1>2, <1>4, OneCall DEF Accept, CallRecord

\* The status by which a handler answers a request by itself.
LEMMA RefusalStatus ==
    ASSUME NEW r PROVE Refusal(r) \in {"none", "InvalidArgument", "Unimplemented"}
BY DEF Refusal

LEMMA UndecidedKeeps ==
    ASSUME ServerInv, NEW c \in Call, Reject(c) \/ Refuse(c) PROVE ServerInv'
<1> DEFINE status == IF Reject(c) THEN "Unauthenticated" ELSE Refusal(call[c].request)
<1> DEFINE rec == [call[c] EXCEPT !.at = "returned", !.status = status]
<1>1. call[c] \in CallRecord /\ Story(c)
  BY DEF ServerInv, Types
<1>2. /\ status \in {"Unauthenticated", "InvalidArgument", "Unimplemented"}
      /\ call[c].at = "accepted" /\ ~Decided(call[c].request)
  BY RefusalStatus DEF Reject, Refuse, Decided
<1>3. Return(c, status) /\ UNCHANGED <<configVars, storeVars, lifeVars>>
  BY DEF Reject, Refuse
<1> HIDE DEF status
<1>4. rec \in CallRecord /\ call' = [call EXCEPT ![c] = rec]
  BY <1>1, <1>2, <1>3 DEF Return, CallRecord
<1>5. call'[c] = rec
  BY <1>4 DEF ServerInv, Types
<1>6. (~Decided(call[c].request))'
  BY <1>1, <1>2, <1>5 DEF Decided, authenticate, CallRecord
<1>7. Story(c)'
  BY <1>1, <1>2, <1>3, <1>5, <1>6
     DEF CallRecord, Story, Quiet, Through, Changed, Recorded, Listed, storeVars
<1> QED BY <1>1, <1>2, <1>3, <1>4, <1>7, OneCall DEF InProgress, CallRecord

LEMMA DenyKeeps == ASSUME ServerInv, NEW c \in Call, Deny(c) PROVE ServerInv'
<1> DEFINE r == call[c].request
<1> DEFINE record == [action |-> r.method, decision |-> "deny", outcome |-> "denied"]
<1> DEFINE rec == [call[c] EXCEPT !.at = "returned", !.status = "PermissionDenied",
                                  !.audits = <<record>>]
<1>1. call[c] \in CallRecord /\ Story(c)
  BY DEF ServerInv, Types
<1>2. call[c].at = "accepted" /\ Decided(r) /\ ~Permitted(r) /\ call[c].audits = <<>>
  BY <1>1 DEF Deny, Served, Decided, Story, Quiet
<1>3. record \in AuditRecord
  BY <1>1, ServerAssumption DEF AuditRecord, CallRecord
<1> HIDE DEF record
<1>4. audit(c, "deny", "denied") = <<record>> /\ <<record>> \in Seq(AuditRecord)
  BY <1>2, <1>3 DEF audit, record
<1>5. rec \in CallRecord /\ call' = [call EXCEPT ![c] = rec]
  BY <1>1, <1>4 DEF Deny, CallRecord
<1>6. call'[c] = rec
  BY <1>5 DEF ServerInv, Types
<1>7. call'[c].request = r /\ call'[c].audits[1] = record
      /\ Len(call'[c].audits) = 1 /\ call'[c].at = "returned"
      /\ call'[c].status = "PermissionDenied"
  BY <1>1, <1>6 DEF CallRecord
<1>8. /\ Decided(call[c].request)' /\ ~Permitted(call[c].request)'
      /\ record.decision = "deny" /\ record.outcome = "denied"
  BY <1>2, <1>7 DEF Decided, authenticate, Permitted, record, Deny, configVars
<1>9. Story(c)'
  BY <1>1, <1>2, <1>7, <1>8
     DEF Deny, Story, Quiet, Through, Changed, Recorded, Listed, storeVars
<1> QED BY <1>1, <1>2, <1>5, <1>9, OneCall DEF Deny, InProgress, CallRecord

LEMMA AdmitKeeps == ASSUME ServerInv, NEW c \in Call, Admit(c) PROVE ServerInv'
<1> DEFINE r == call[c].request
<1> DEFINE rec == [call[c] EXCEPT !.at = "store",
                                  !.unread = IF r.method = "list" THEN Key ELSE {},
                                  !.always = store, !.ever = store]
<1>1. call[c] \in CallRecord /\ Story(c) /\ store \subseteq Key
  BY DEF ServerInv, Types
<1>2. call[c].at = "accepted" /\ Entitled(r)
  BY DEF Admit, Served, Entitled, Decided
<1>3. rec \in CallRecord /\ call' = [call EXCEPT ![c] = rec]
  BY <1>1 DEF Admit, CallRecord
<1>4. call'[c] = rec
  BY <1>3 DEF ServerInv, Types
<1>5. /\ call'[c].request = r /\ call'[c].at = "store" /\ call'[c].status = call[c].status
      /\ call'[c].audits = call[c].audits /\ call'[c].listing = call[c].listing
      /\ call'[c].always = store /\ call'[c].ever = store
      /\ r.method = "list" => call'[c].unread = Key
  BY <1>1, <1>4 DEF CallRecord
<1>6. UNCHANGED <<policy, store, effects>>
  BY DEF Admit, configVars, storeVars
<1>7. Entitled(call[c].request)' /\ Below(c)' = Below(c)
  BY <1>2, <1>5, <1>6, RightsStay
<1>8. Story(c)'
  BY <1>1, <1>2, <1>5, <1>6, <1>7
     DEF Story, Quiet, Through, Changed, Recorded, Listed, Below
<1>9. rec.at # "killed"
  BY <1>1 DEF CallRecord
<1>10. InProgress(c) /\ UNCHANGED <<configVars, storeVars, lifeVars>>
  BY <1>2 DEF Admit, InProgress
<1> HIDE DEF rec, r
<1> QED BY <1>3, <1>8, <1>9, <1>10, OneCall

LEMMA StatusOfAnswer ==
    ASSUME NEW method, NEW answer
    PROVE  /\ StatusOf(method, answer) \in {"OK", "NotFound", "FailedPrecondition",
                                            "InvalidArgument", "Internal"}
           /\ StatusOf(method, answer) = "OK" <=> answer = "success"
           /\ answer = "failed" => StatusOf(method, answer) = "Internal"
BY DEF StatusOf

LEMMA ConcludeKeeps == ASSUME ServerInv, NEW c \in Call, Conclude(c) PROVE ServerInv'
<1> DEFINE r == call[c].request
<1> DEFINE outcome == IF call[c].answer = "success" THEN "success" ELSE "error"
<1> DEFINE status == StatusOf(r.method, call[c].answer)
<1> DEFINE record == [action |-> r.method, decision |-> "allow", outcome |-> outcome]
<1> DEFINE shown == {k \in call[c].listing : listable(policy, r.username, r.target, NsOf(k))}
<1> DEFINE rec == [call[c] EXCEPT !.at = "returned", !.status = status,
                                  !.audits = <<record>>, !.listing = shown]
<1>1. call[c] \in CallRecord /\ Story(c)
  BY DEF ServerInv, Types
<1>2. call[c].at = "answered" /\ Entitled(r) /\ call[c].audits = <<>>
  BY <1>1 DEF Conclude, Story, Quiet, Through
<1>3. /\ status \in {"OK", "NotFound", "FailedPrecondition", "InvalidArgument", "Internal"}
      /\ status = "OK" <=> call[c].answer = "success"
      /\ call[c].answer = "failed" => status = "Internal"
  BY StatusOfAnswer
<1>4. record \in AuditRecord /\ record.decision = "allow" /\ record.outcome = outcome
  BY <1>1, ServerAssumption DEF AuditRecord, CallRecord
<1>5. shown \subseteq Key
  BY <1>1 DEF CallRecord
<1>6. audit(c, "allow", outcome) = <<record>> /\ <<record>> \in Seq(AuditRecord)
  BY <1>2, <1>4 DEF audit
<1>7. call' = [call EXCEPT ![c] = rec]
  BY <1>1, <1>6 DEF Conclude, CallRecord
<1>8. UNCHANGED <<policy, store, effects>> /\ UNCHANGED <<configVars, storeVars, lifeVars>>
  BY DEF Conclude, configVars, storeVars
<1> HIDE DEF status, record, shown
<1>9. rec \in CallRecord
  BY <1>1, <1>3, <1>5, <1>6 DEF CallRecord
<1>10. call'[c] = rec
  BY <1>7, <1>9 DEF ServerInv, Types
<1>11. /\ call'[c].request = r /\ call'[c].at = "returned" /\ call'[c].status = status
       /\ call'[c].audits[1] = record /\ Len(call'[c].audits) = 1
       /\ call'[c].listing = shown
       /\ call'[c].always = call[c].always /\ call'[c].ever = call[c].ever
  BY <1>1, <1>10 DEF CallRecord
<1>12. /\ Decided(call[c].request)' /\ Permitted(call[c].request)' /\ Entitled(call[c].request)'
       /\ Listable(c)' = Listable(c)
  BY <1>2, <1>8, <1>11, RightsStay DEF Entitled
<1>13. Quiet(c)' /\ Through(c)' /\ Changed(c)' /\ Recorded(c)'
  BY <1>1, <1>2, <1>3, <1>4, <1>8, <1>11, <1>12
     DEF Story, Quiet, Through, Changed, Recorded, Writing
<1>14. Listed(c)'
  <2> SUFFICES ASSUME r.method = "list", call[c].answer = "success"
               PROVE  /\ call[c].always \cap Listable(c) \subseteq shown
                      /\ shown \subseteq call[c].ever \cap Listable(c)
    BY <1>3, <1>11, <1>12 DEF Listed
  <2>1. /\ call[c].always \cap Below(c) \subseteq call[c].listing
        /\ call[c].listing \subseteq call[c].ever \cap Below(c)
    BY <1>1, <1>2 DEF Story, Listed
  <2>2. /\ Listable(c) \subseteq Below(c)
        /\ shown = call[c].listing \cap Listable(c)
    BY <2>1 DEF Listable, Below, listable, shown
  <2> QED BY <2>1, <2>2
<1> QED BY <1>2, <1>7, <1>8, <1>9, <1>11, <1>10, <1>13, <1>14, OneCall DEF InProgress, Story

-----------------------------------------------------------------------------
(* The steps of the store. *)

\* An answer is right if it admits to a change, claims none that was not made, and
\* calls a listing complete when everything has been read.
LEMMA AnswerKeeps ==
    ASSUME ServerInv, NEW c \in Call,
           NEW outcome \in {"success", "notFound", "readOnly", "emptyValue", "failed"},
           Answer(c, outcome), call[c].at \in {"store", "written"},
           c \in effects => outcome \in {"success", "failed"},
           outcome = "success" /\ Writing(call[c].request) => c \in effects,
           outcome = "success" /\ call[c].request.method = "list"
               => call[c].at = "store" /\ call[c].unread = {}
    PROVE  ServerInv'
<1> DEFINE rec == [call[c] EXCEPT !.at = "answered", !.answer = outcome]
<1>1. call[c] \in CallRecord /\ Story(c)
  BY DEF ServerInv, Types
<1>2. Entitled(call[c].request)
  BY <1>1 DEF Story, Through
<1>3. rec \in CallRecord /\ call' = [call EXCEPT ![c] = rec]
  BY <1>1 DEF Answer, CallRecord
<1>4. call'[c] = rec
  BY <1>3 DEF ServerInv, Types
<1>5. /\ call'[c].request = call[c].request /\ call'[c].at = "answered"
      /\ call'[c].answer = outcome /\ call'[c].status = call[c].status
      /\ call'[c].audits = call[c].audits /\ call'[c].listing = call[c].listing
      /\ call'[c].always = call[c].always /\ call'[c].ever = call[c].ever
  BY <1>1, <1>4 DEF CallRecord
<1>6. UNCHANGED <<policy, store, effects>> /\ UNCHANGED <<configVars, storeVars, lifeVars>>
  BY DEF Answer, configVars, storeVars
<1>7. Entitled(call[c].request)' /\ Below(c)' = Below(c)
  BY <1>2, <1>5, <1>6, RightsStay
<1>8. Story(c)'
  BY <1>1, <1>2, <1>5, <1>6, <1>7
     DEF Story, Quiet, Through, Changed, Recorded, Listed, Writing
<1> QED BY <1>3, <1>4, <1>5, <1>6, <1>8, OneCall DEF InProgress

LEMMA AnsweredKeeps ==
    ASSUME ServerInv, NEW c \in Call,
           \/ StoreDeclines(c) \/ StoreMisses(c) \/ StoreFinds(c)
           \/ StoreConfirms(c) \/ StoreLists(c) \/ StoreFails(c)
    PROVE  ServerInv'
<1>1. Story(c)
  BY DEF ServerInv
<1>2. call[c].at = "store" => c \notin effects
  BY <1>1 DEF Story, Changed
<1>3. CASE StoreDeclines(c)
  BY <1>2, <1>3, AnswerKeeps DEF StoreDeclines, Asked
<1>4. CASE StoreMisses(c)
  BY <1>2, <1>4, AnswerKeeps DEF StoreMisses, Asked
<1>5. CASE StoreFinds(c)
  BY <1>2, <1>5, AnswerKeeps DEF StoreFinds, Asked, Writing
<1>6. CASE StoreConfirms(c)
  <2>1. c \in effects /\ Writing(call[c].request) /\ call[c].at = "written"
    BY <1>1, <1>6 DEF StoreConfirms, Story, Changed
  <2>2. PICK outcome \in {"success", "failed"} : Answer(c, outcome)
    BY <1>6 DEF StoreConfirms
  <2> QED BY <2>1, <2>2, AnswerKeeps DEF Writing
<1>7. CASE StoreLists(c)
  BY <1>2, <1>7, AnswerKeeps DEF StoreLists, Asked, Writing
<1>8. CASE StoreFails(c)
  BY <1>2, <1>8, AnswerKeeps DEF StoreFails
<1> QED BY <1>3, <1>4, <1>5, <1>6, <1>7, <1>8

LEMMA ReadsKeep ==
    ASSUME ServerInv, NEW c \in Call, NEW k \in Key, StoreReads(c, k) PROVE ServerInv'
<1> DEFINE r == call[c].request
<1> DEFINE seen == IF k \in store /\ Contains(r.target, NsOf(k))
                   THEN call[c].listing \cup {k} ELSE call[c].listing
<1> DEFINE rec == [call[c] EXCEPT !.unread = @ \ {k}, !.listing = seen]
<1>1. call[c] \in CallRecord /\ Story(c)
  BY DEF ServerInv, Types
<1>2. call[c].at = "store" /\ r.method = "list" /\ Entitled(r)
  BY <1>1 DEF StoreReads, Asked, Story, Through
<1>3. rec \in CallRecord /\ call' = [call EXCEPT ![c] = rec]
  BY <1>1 DEF StoreReads, CallRecord
<1>4. call'[c] = rec
  BY <1>3 DEF ServerInv, Types
<1>5. /\ call'[c].request = r /\ call'[c].at = "store"
      /\ call'[c].status = call[c].status /\ call'[c].audits = call[c].audits
      /\ call'[c].unread = call[c].unread \ {k} /\ call'[c].listing = seen
      /\ call'[c].always = call[c].always /\ call'[c].ever = call[c].ever
  BY <1>1, <1>2, <1>4 DEF CallRecord
<1>6. UNCHANGED <<policy, store, effects>> /\ UNCHANGED <<configVars, storeVars, lifeVars>>
  BY DEF StoreReads, configVars, storeVars
<1>7. Entitled(call[c].request)' /\ Below(c)' = Below(c)
  BY <1>2, <1>5, <1>6, RightsStay
<1>8. Quiet(c)' /\ Through(c)' /\ Changed(c)' /\ Recorded(c)'
  BY <1>1, <1>2, <1>5, <1>6, <1>7 DEF Story, Quiet, Through, Changed, Recorded, Writing
<1>9. Listed(c)'
  <2>1. /\ call[c].always \subseteq store /\ store \subseteq call[c].ever
        /\ (call[c].always \cap Below(c)) \ call[c].unread \subseteq call[c].listing
        /\ call[c].listing \subseteq call[c].ever \cap Below(c)
    BY <1>1, <1>2 DEF Story, Listed
  <2>2. k \in Below(c) <=> Contains(r.target, NsOf(k))
    BY DEF Below
  <2>3. /\ (call[c].always \cap Below(c)) \ (call[c].unread \ {k}) \subseteq seen
        /\ seen \subseteq call[c].ever \cap Below(c)
    BY <2>1, <2>2
  <2> QED BY <1>2, <1>5, <1>6, <1>7, <2>1, <2>3 DEF Listed
<1> QED BY <1>2, <1>3, <1>4, <1>5, <1>6, <1>8, <1>9, OneCall DEF InProgress, Story

\* A change of the store shows in the listings that are going on, and nowhere else.
LEMMA Follower ==
    ASSUME NEW d \in Call, call[d] \in CallRecord, Story(d), NEW keys \in SUBSET Key,
           store \subseteq Key, store' = keys, policy' = policy,
           (d \in effects') = (d \in effects),
           call'[d] = IF Asked(d, "list")
                      THEN [call[d] EXCEPT !.always = @ \cap keys, !.ever = @ \cup keys]
                      ELSE call[d]
    PROVE  call'[d] \in CallRecord /\ call'[d].at = call[d].at /\ Story(d)'
<1>1. /\ call'[d] \in CallRecord
      /\ call'[d].request = call[d].request /\ call'[d].at = call[d].at
      /\ call'[d].answer = call[d].answer /\ call'[d].status = call[d].status
      /\ call'[d].audits = call[d].audits
      /\ call'[d].unread = call[d].unread /\ call'[d].listing = call[d].listing
  <2>1. CASE Asked(d, "list")
    <3> DEFINE kept == call[d].always \cap keys
               seen == call[d].ever \cup keys
    <3>1. kept \in SUBSET Key /\ seen \in SUBSET Key
      BY DEF CallRecord
    <3>2. call'[d] = [call[d] EXCEPT !.always = kept, !.ever = seen]
      BY <2>1
    <3> HIDE DEF kept, seen
    <3> QED BY <3>1, <3>2 DEF CallRecord
  <2>2. CASE ~Asked(d, "list")
    BY <2>2
  <2> QED BY <2>1, <2>2
<1>2. Entitled(call[d].request)' <=> Entitled(call[d].request)
  BY <1>1, RightsStay
<1>3. /\ Decided(call[d].request)' <=> Decided(call[d].request)
      /\ Permitted(call[d].request)' <=> Permitted(call[d].request)
      /\ Below(d)' = Below(d) /\ Listable(d)' = Listable(d)
  BY <1>1, RightsStay
<1>4. Quiet(d)' /\ Through(d)' /\ Changed(d)' /\ Recorded(d)'
  BY <1>1, <1>2, <1>3 DEF Story, Quiet, Through, Changed, Recorded, Writing
<1>5. Listed(d)'
  <2>1. CASE Asked(d, "list")
    <3>1. /\ call'[d].always = call[d].always \cap keys
          /\ call'[d].ever = call[d].ever \cup keys
          /\ call[d].at = "store"
      BY <2>1 DEF CallRecord, Asked
    <3> QED BY <1>1, <1>3, <3>1 DEF Story, Listed
  <2>2. CASE ~Asked(d, "list")
    <3>1. call[d].request.method = "list" => call[d].at # "store"
      BY <2>2 DEF Asked
    <3> QED BY <1>1, <1>3, <2>2, <3>1 DEF Story, Listed
  <2> QED BY <2>1, <2>2
<1> QED BY <1>1, <1>4, <1>5 DEF Story

LEMMA OutsiderKeeps == ASSUME ServerInv, NEW k \in Key, Outsider(k) PROVE ServerInv'
<1> DEFINE keys == IF k \in store THEN store \ {k} ELSE store \cup {k}
<1>1. Types /\ keys \in SUBSET Key
  BY DEF ServerInv, Types
<1>2. ASSUME NEW d \in Call
      PROVE  call'[d] \in CallRecord /\ call'[d].at = call[d].at /\ Story(d)'
  BY <1>1, Follower DEF ServerInv, Types, Outsider, Becomes, configVars
<1>3. DOMAIN call' = Call /\ call' = [d \in Call |-> call'[d]]
  BY DEF Outsider, Becomes
<1>4. outside' \in 0..MaxOutside
  BY <1>1, ServerAssumption DEF Outsider, Types
<1>5. Types'
  BY <1>1, <1>2, <1>3, <1>4 DEF Types, Outsider, Becomes, configVars, lifeVars
<1>6. Ending'
  BY <1>2 DEF ServerInv, Ending, InProgress, Outsider, lifeVars
<1> QED BY <1>2, <1>5, <1>6 DEF ServerInv

LEMMA WritesKeep == ASSUME ServerInv, NEW c \in Call, StoreWrites(c) PROVE ServerInv'
<1> DEFINE key == call[c].request.target
<1> DEFINE rec == [call[c] EXCEPT !.at = "written"]
<1>1. Types /\ call[c] \in CallRecord /\ Story(c)
  BY DEF ServerInv, Types
<1>2. Asked(c, "put") \/ Asked(c, "delete")
  BY DEF StoreWrites
<1>3. call[c].at = "store" /\ Writing(call[c].request) /\ Entitled(call[c].request)
      /\ ~Asked(c, "list")
  BY <1>1, <1>2 DEF Asked, Writing, Story, Through
<1>4. key \in Key
  <2>1. call[c].request \in Request /\ Refusal(call[c].request) = "none"
    BY <1>1, <1>3 DEF CallRecord, Entitled, Decided
  <2>2. key # Malformed
    BY <2>1 DEF Refusal
  <2> QED BY <1>3, <2>1, <2>2, ServerAssumption DEF Writing
<1>5. PICK keys \in SUBSET Key : Becomes(keys, [call EXCEPT ![c].at = "written"])
  BY <1>1, <1>4 DEF StoreWrites, Types
<1>6. /\ UNCHANGED <<policy, writable, outside, server, abrupt>>
      /\ effects' = effects \cup {c} /\ store' = keys
  BY <1>5 DEF StoreWrites, configVars, lifeVars, Becomes
<1>7. call'[c] = rec /\ rec \in CallRecord
  BY <1>1, <1>3, <1>5 DEF Becomes, Types, CallRecord
<1>8. ASSUME NEW d \in Call, d # c
      PROVE  call'[d] \in CallRecord /\ call'[d].at = call[d].at /\ Story(d)'
  <2>1. call'[d] = IF Asked(d, "list")
                   THEN [call[d] EXCEPT !.always = @ \cap keys, !.ever = @ \cup keys]
                   ELSE call[d]
    BY <1>1, <1>5, <1>8 DEF Becomes, Types
  <2>2. (d \in effects') = (d \in effects)
    BY <1>6, <1>8
  <2>3. call[d] \in CallRecord /\ Story(d) /\ store \subseteq Key
    BY DEF ServerInv, Types
  <2> QED BY <1>6, <2>1, <2>2, <2>3, Follower
<1>9. Story(c)'
  <2>1. /\ call'[c].request = call[c].request /\ call'[c].at = "written"
        /\ call'[c].status = call[c].status /\ call'[c].audits = call[c].audits
    BY <1>1, <1>7 DEF CallRecord
  <2>2. Entitled(call[c].request)'
    BY <1>3, <1>6, <2>1, RightsStay
  <2> QED BY <1>1, <1>3, <1>6, <2>1, <2>2
          DEF Story, Quiet, Through, Changed, Recorded, Listed, Writing
<1>10. call' \in [Call -> CallRecord]
  <2> DEFINE f(d) == IF Asked(d, "list")
                     THEN [[call EXCEPT ![c].at = "written"][d]
                              EXCEPT !.always = @ \cap keys, !.ever = @ \cup keys]
                     ELSE [call EXCEPT ![c].at = "written"][d]
  <2>1. call' = [d \in Call |-> f(d)]
    BY <1>5 DEF Becomes
  <2> HIDE DEF f
  <2>2. DOMAIN call' = Call /\ call' = [d \in Call |-> call'[d]]
    BY <2>1
  <2> QED BY <1>7, <1>8, <2>2
<1>11. Types'
  BY <1>1, <1>6, <1>10 DEF Types
<1>12. Ending'
  BY <1>3, <1>6, <1>7, <1>8, <1>1 DEF ServerInv, Ending, InProgress, CallRecord
<1> QED BY <1>8, <1>9, <1>11, <1>12 DEF ServerInv

-----------------------------------------------------------------------------
(* The end of the server. *)

LEMMA LifeKeeps ==
    ASSUME ServerInv, Signal \/ ServeFails \/ Drains \/ DrainTimesOut PROVE ServerInv'
<1>1. UNCHANGED <<configVars, call, storeVars>>
  BY DEF Signal, ServeFails, Drains, DrainTimesOut
<1>2. /\ server \in {"serving", "draining"}
      /\ \/ server' = "draining" /\ UNCHANGED abrupt
         \/ server' = "stopped" /\ abrupt' = TRUE
         \/ server' = "stopped" /\ UNCHANGED abrupt /\ \A c \in Call : ~InProgress(c)
  BY DEF Signal, ServeFails, Drains, DrainTimesOut
<1>3. Types'
  BY <1>1, <1>2 DEF ServerInv, Types, configVars, storeVars
<1>4. \A c \in Call : Story(c)'
  BY <1>1, Bystander DEF ServerInv, configVars, storeVars
<1>5. Ending'
  BY <1>1, <1>2 DEF ServerInv, Ending, InProgress
<1> QED BY <1>3, <1>4, <1>5 DEF ServerInv

LEMMA ExitKeeps == ASSUME ServerInv, Exit PROVE ServerInv'
<1>1. Types /\ server = "stopped" /\ server' = "exited"
      /\ UNCHANGED <<policy, writable, store, outside, effects, abrupt>>
  BY DEF ServerInv, Exit, configVars, storeVars
<1>2. ASSUME NEW c \in Call
      PROVE  call'[c] \in CallRecord /\ Story(c)'
  <2>1. call[c] \in CallRecord /\ Story(c)
    BY DEF ServerInv, Types
  <2>2. CASE InProgress(c)
    <3>1. call'[c] = [call[c] EXCEPT !.at = "killed"]
      BY <2>2 DEF Exit
    <3>2. /\ call'[c] \in CallRecord
          /\ call'[c].request = call[c].request /\ call'[c].at = "killed"
          /\ call'[c].status = call[c].status /\ call'[c].audits = call[c].audits
      BY <2>1, <3>1 DEF CallRecord
    <3>3. Entitled(call[c].request)' <=> Entitled(call[c].request)
      BY <1>1, <3>2, RightsStay
    <3> QED BY <1>1, <2>1, <2>2, <3>2, <3>3
            DEF Story, Quiet, Through, Changed, Recorded, Listed, Writing, InProgress
  <2>3. CASE ~InProgress(c)
    BY <1>1, <2>1, <2>3, Bystander DEF Exit
  <2> QED BY <2>2, <2>3
<1>3. call' \in [Call -> CallRecord]
  BY <1>2 DEF Exit
<1>4. Types'
  BY <1>1, <1>3 DEF Types
<1>5. Ending'
  BY <1>1 DEF ServerInv, Ending, Exit, InProgress
<1> QED BY <1>2, <1>4, <1>5 DEF ServerInv

LEMMA ServerStutters == ASSUME ServerInv, UNCHANGED serverVars PROVE ServerInv'
<1>1. UNCHANGED <<policy, writable, call, store, outside, effects, server, abrupt>>
  BY DEF serverVars, vars, configVars, storeVars, lifeVars
<1>2. Types'
  BY <1>1 DEF ServerInv, Types
<1>3. \A c \in Call : Story(c)'
  BY <1>1, Bystander DEF ServerInv
<1>4. Ending'
  BY <1>1 DEF ServerInv, Ending, InProgress
<1> QED BY <1>2, <1>3, <1>4 DEF ServerInv

LEMMA CallKeeps ==
    ASSUME ServerInv, NEW c \in Call, HandlerStep(c) \/ StoreStep(c) PROVE ServerInv'
BY UndecidedKeeps, DenyKeeps, AdmitKeeps, ConcludeKeeps, AnsweredKeeps, WritesKeep, ReadsKeep
   DEF HandlerStep, StoreStep

LEMMA NextKeeps == ASSUME ServerInv, [Next]_vars PROVE ServerInv'
<1>1. ASSUME NEW c \in Call, Accept(c) \/ HandlerStep(c) \/ StoreStep(c) PROVE ServerInv'
  BY <1>1, AcceptKeeps, CallKeeps
<1>2. ASSUME NEW k \in Key, Outsider(k) PROVE ServerInv'
  BY <1>2, OutsiderKeeps
<1>3. CASE Signal \/ ServeFails \/ Shutdown
  BY <1>3, LifeKeeps, ExitKeeps DEF Shutdown
<1>4. CASE UNCHANGED vars
  BY <1>4, ServerStutters DEF serverVars
<1> QED BY <1>1, <1>2, <1>3, <1>4 DEF Next

\* The invariant holds of the server whatever its clients ask.
THEOREM ServerInvariance == Spec => []ServerInv
BY InitialStories, NextKeeps, PTL DEF Spec

-----------------------------------------------------------------------------
(* What follows from it. *)

\* The slice of a namespace that lies above another, and the code's Contains.
LEMMA WithinIsContains ==
    ASSUME NEW ns \in Namespace, NEW deeper \in Namespace
    PROVE  Within(ns, deeper) <=> Contains(ns, deeper)
<1>1. /\ ns \in Seq(Segment) /\ deeper \in Seq(Segment)
      /\ Len(ns) \in Nat /\ Len(deeper) \in Nat
  <2>1. ASSUME NEW n \in Namespace PROVE n \in Seq(Segment)
    <3>1. PICK depth \in 0..MaxNamespaceDepth : n \in [1..depth -> Segment]
      BY DEF Namespace
    <3> QED BY <3>1, DepthAssumption
  <2> QED BY <2>1
<1>2. ASSUME NEW d \in 0..Len(deeper), SubSeq(deeper, 1, d) = ns PROVE Contains(ns, deeper)
  <2>1. Len(ns) = d /\ \A i \in 1..d : ns[i] = deeper[i]
    BY <1>1, <1>2
  <2> QED BY <1>1, <2>1 DEF Contains
<1>3. ASSUME Contains(ns, deeper) PROVE SubSeq(deeper, 1, Len(ns)) = ns
  <2>1. Len(ns) \in 0..Len(deeper) /\ \A i \in 1..Len(ns) : deeper[i] = ns[i]
    BY <1>1, <1>3 DEF Contains
  <2>2. /\ SubSeq(deeper, 1, Len(ns)) \in Seq(Segment)
        /\ Len(SubSeq(deeper, 1, Len(ns))) = Len(ns)
        /\ \A i \in 1..Len(ns) : SubSeq(deeper, 1, Len(ns))[i] = ns[i]
    BY <1>1, <2>1
  <2> QED BY <1>1, <2>2
<1>4. ASSUME Contains(ns, deeper) PROVE Len(ns) \in 0..Len(deeper)
  BY <1>1, <1>4 DEF Contains
<1> QED BY <1>2, <1>3, <1>4 DEF Within

LEMMA GrantedIsAllowed ==
    ASSUME Types, NEW user \in Principal, NEW action, NEW ns \in Namespace
    PROVE  Granted(user, action, ns) <=> allows(policy, user, action, ns)
<1>1. policy \in Policies
  BY ServerAssumption DEF Types
<1>2. \A r \in policy[user] : r.namespace \in Namespace
  BY <1>1 DEF Policies, Rule
<1> QED BY <1>2, WithinIsContains DEF Granted, allows

\* TypeOK of Server, which the runs leave to the proof.
THEOREM ServerTypes == Spec => []TypeOK
<1>1. ServerInv => TypeOK
  <2> SUFFICES ASSUME ServerInv PROVE TypeOK
    OBVIOUS
  <2>1. \A c \in Call : call[c] \in CallRecord
    BY DEF ServerInv, Types
  <2> QED BY <2>1 DEF ServerInv, Types, TypeOK, CallRecord
<1> QED BY <1>1, ServerInvariance, PTL

\* A request that is decided on names a key or a namespace.
LEMMA DecidedTarget ==
    ASSUME NEW r \in Request, Decided(r)
    PROVE  /\ r.username \in Principal /\ r.username \in User /\ r.matches
           /\ r.method = "list" => r.target \in Namespace
           /\ r.method # "list" => r.target \in Key /\ NsOf(r.target) \in Namespace
<1>1. r.target # Malformed
  BY DEF Decided, Refusal
<1> QED BY <1>1, ServerAssumption DEF Decided, authenticate

LEMMA InvAuthorized == ServerInv => Authorized
<1> SUFFICES ASSUME ServerInv, NEW c \in Call,
                    c \in effects \/ call[c].status \in {"OK", "NotFound", "FailedPrecondition"}
             PROVE  LET r == call[c].request
                    IN  /\ r.matches /\ r.username \in User
                        /\ r.method = "list" \/ Granted(r.username, r.method, NsOf(r.target))
  BY DEF Authorized
<1> DEFINE r == call[c].request
<1>1. Types /\ Story(c) /\ r \in Request
  BY DEF ServerInv, Types, CallRecord
<1>2. Entitled(r)
  <2>1. CASE c \in effects
    BY <1>1, <2>1 DEF Story, Changed
  <2>2. CASE call[c].status \in {"OK", "NotFound", "FailedPrecondition"}
    BY <1>1, <2>2 DEF Story, Quiet, Recorded, Entitled
  <2> QED BY <2>1, <2>2
<1>3. CASE r.method = "list"
  BY <1>1, <1>2, <1>3, DecidedTarget DEF Entitled
<1>4. CASE r.method # "list"
  <2>1. allows(policy, r.username, r.method, NsOf(r.target))
    BY <1>2, <1>4 DEF Entitled, Permitted
  <2> QED BY <1>1, <1>2, <2>1, <1>4, DecidedTarget, GrantedIsAllowed DEF Entitled
<1> QED BY <1>3, <1>4

LEMMA InvExactListing == ServerInv => ExactListing
<1> DEFINE may(c) == {k \in Key : /\ Within(call[c].request.target, NsOf(k))
                                 /\ Granted(call[c].request.username, "list", NsOf(k))}
<1> SUFFICES ASSUME ServerInv, NEW c \in Call, call[c].request.method = "list",
                    call[c].status \in {"OK", "PermissionDenied"}
             PROVE  /\ call[c].status = "OK" =>
                          /\ call[c].always \cap may(c) \subseteq call[c].listing
                          /\ call[c].listing \subseteq call[c].ever \cap may(c)
                    /\ call[c].status = "PermissionDenied" => may(c) = {}
  BY DEF ExactListing
<1> DEFINE r == call[c].request
<1>1. Types /\ Story(c) /\ r \in Request /\ policy \in Policies
  BY ServerAssumption DEF ServerInv, Types, CallRecord
<1>2. call[c].at = "returned" /\ Decided(r)
  BY <1>1 DEF Story, Quiet, Recorded
<1>3. r.target \in Namespace /\ r.username \in Principal
  BY <1>1, <1>2, DecidedTarget
<1>4. may(c) = Listable(c)
  <2>1. ASSUME NEW k \in Key
        PROVE  /\ Within(r.target, NsOf(k)) <=> Contains(r.target, NsOf(k))
               /\ Granted(r.username, "list", NsOf(k)) <=> allows(policy, r.username, "list", NsOf(k))
    BY <1>1, <1>3, WithinIsContains, GrantedIsAllowed, ServerAssumption
  <2> QED BY <2>1 DEF Listable, listable
<1> HIDE DEF may
<1>5. CASE call[c].status = "OK"
  BY <1>1, <1>2, <1>4, <1>5 DEF Story, Listed
<1>6. CASE call[c].status = "PermissionDenied"
  <2>1. ~canList(policy, r.username, r.target)
    BY <1>1, <1>2, <1>6 DEF Story, Recorded, Permitted
  <2>2. Listable(c) = {}
    BY <1>1, <1>3, <2>1, GatesAdmit, ServerAssumption DEF Listable
  <2> QED BY <1>4, <1>6, <2>2
<1> QED BY <1>5, <1>6

LEMMA InvAccounted == ServerInv => Accounted
<1> SUFFICES ASSUME ServerInv, NEW c \in Call
             PROVE  /\ call[c].at # "returned" => call[c].audits = <<>>
                    /\ call[c].at = "returned" =>
                          IF ~authenticate(call[c].request) \/ Refusal(call[c].request) # "none"
                          THEN call[c].audits = <<>>
                          ELSE /\ Len(call[c].audits) = 1
                               /\ (call[c].audits[1].decision = "deny")
                                      = (call[c].status = "PermissionDenied")
                               /\ (call[c].audits[1].outcome = "success") = (call[c].status = "OK")
                    /\ c \in effects => call[c].status \in {"none", "OK", "Internal"}
  BY DEF Accounted
<1>1. Story(c)
  BY DEF ServerInv
<1> QED BY <1>1 DEF Story, Quiet, Recorded, Changed, Decided

LEMMA InvCleanDrain == ServerInv => CleanDrain
<1> SUFFICES ASSUME ServerInv, server \in {"stopped", "exited"}, ~abrupt, NEW c \in Call
             PROVE  /\ ~InProgress(c) /\ call[c].at # "killed"
                    /\ c \in effects =>
                          \E n \in DOMAIN call[c].audits : call[c].audits[n].decision = "allow"
  BY DEF CleanDrain
<1>1. ~InProgress(c) /\ call[c].at # "killed" /\ Story(c) /\ call[c] \in CallRecord
  BY DEF ServerInv, Ending, Types
<1>2. ASSUME c \in effects
      PROVE  \E n \in DOMAIN call[c].audits : call[c].audits[n].decision = "allow"
  <2>1. call[c].at = "returned" /\ Decided(call[c].request) /\ call[c].status # "PermissionDenied"
    BY <1>1, <1>2 DEF InProgress, Story, Changed, Entitled
  <2>2. Len(call[c].audits) = 1 /\ call[c].audits[1].decision # "deny"
    BY <1>1, <2>1 DEF Story, Recorded
  <2>3. call[c].audits \in Seq(AuditRecord) /\ 1 \in DOMAIN call[c].audits
    BY <1>1, <2>2 DEF CallRecord
  <2>4. call[c].audits[1] \in AuditRecord
    BY <2>3
  <2> QED BY <2>2, <2>3, <2>4 DEF AuditRecord
<1> QED BY <1>1, <1>2

\* Nobody changes the store or learns of a key through the server who is not
\* configured, gave another password, or was not granted the action for that key.
THEOREM ServerAuthorized == Spec => []Authorized
BY InvAuthorized, ServerInvariance, PTL

\* A listing leaves out nothing the caller may list that was there all along, and
\* shows nothing else, whatever changes the store while it is read.
THEOREM ServerExactListing == Spec => []ExactListing
BY InvExactListing, ServerInvariance, PTL

\* Every call the policy has decided on leaves one audit record in accord with its
\* status, and a caller told that nothing was done has changed nothing.
THEOREM ServerAccounted == Spec => []Accounted
BY InvAccounted, ServerInvariance, PTL

\* When Listen comes back in time no accepted call was cut short and every change
\* is in the audit log.
THEOREM ServerCleanDrain == Spec => []CleanDrain
BY InvCleanDrain, ServerInvariance, PTL

-----------------------------------------------------------------------------
(* A command of the CLI and the server it talks to. *)

LEMMA CommandStepIsServerStep == ASSUME [ServerStep \/ CommandStep]_allVars PROVE [Next]_vars
<1>1. CASE ServerStep
  BY <1>1 DEF ServerStep, Next, Shutdown
<1>2. CASE CommandStep
  BY <1>2 DEF CommandStep, MakesNoCall, Prepare, Send, Unreachable, LosesCall, Interrupt,
              DeadlinePasses, Receive, Prints, Ends, Goes, Fails, serverVars
<1>3. CASE UNCHANGED allVars
  BY <1>3 DEF allVars
<1> QED BY <1>1, <1>2, <1>3

\* Beside a command the server does nothing it would not do by itself: what is proved
\* of Server holds when one of its clients is the CLI.
THEOREM CommandIsServer == CommandSpec => Spec
<1>1. CommandInit => Init
  BY DEF CommandInit
<1> QED BY <1>1, CommandStepIsServerStep, PTL DEF CommandSpec, Spec

\* What the command knows of its call at each point: nothing has reached the server
\* before it is sent, and what it reports is what the call has returned.
CommandInv ==
    /\ CommandTypeOK
    /\ cli \in {"start", "call"} => ~sent
    /\ ~sent => call[Mine].at = "new"
    /\ cli # "exited" => said = "nothing" /\ exit = "none"
    /\ cli = "printing" \/ exit = "exit 0" =>
          call[Mine].at = "returned" /\ call[Mine].status = "OK"
    /\ said = "no call" => ~sent
    /\ said \notin {"nothing", "OK", "unclear", "no call"} =>
          call[Mine].at = "returned" /\ call[Mine].status \notin {"OK", "Internal"}

\* Every step but the one that accepts a call leaves it new if it is, and one that has
\* returned as it is.
LEMMA CallsStay ==
    ASSUME ServerInv, NEW d \in Call,
           \/ \E c \in Call \ {d} : Accept(c)
           \/ \E c \in Call : HandlerStep(c) \/ StoreStep(c)
           \/ \E k \in Key : Outsider(k)
           \/ Signal \/ ServeFails \/ Drains \/ DrainTimesOut \/ Exit
           \/ UNCHANGED vars
    PROVE  /\ call[d].at = "new" => call'[d].at = "new"
           /\ call[d].at = "returned" => call'[d].at = "returned" /\ call'[d].status = call[d].status
<1>1. call \in [Call -> CallRecord] /\ call[d] \in CallRecord
  BY DEF ServerInv, Types
<1>2. ASSUME NEW c \in Call, HandlerStep(c) \/ StoreStep(c)
      PROVE  /\ call[d].at = "new" => call'[d].at = "new"
             /\ call[d].at = "returned" =>
                    call'[d].at = "returned" /\ call'[d].status = call[d].status
  <2>1. CASE HandlerStep(c)
    BY <1>1, <2>1 DEF HandlerStep, Reject, Refuse, Deny, Admit, Conclude, Return, Served, CallRecord
  <2>2. CASE StoreDeclines(c) \/ StoreMisses(c) \/ StoreFinds(c) \/ StoreConfirms(c)
             \/ StoreLists(c) \/ StoreFails(c)
    BY <1>1, <2>2 DEF StoreDeclines, StoreMisses, StoreFinds, StoreConfirms, StoreLists,
                      StoreFails, Answer, Asked, CallRecord
  <2>3. CASE \E k \in Key : StoreReads(c, k)
    BY <1>1, <2>3 DEF StoreReads, Asked, CallRecord
  <2>4. CASE StoreWrites(c)
    BY <1>1, <2>4 DEF StoreWrites, Becomes, Asked, CallRecord
  <2> QED BY <1>2, <2>1, <2>2, <2>3, <2>4 DEF StoreStep
<1>3. ASSUME NEW c \in Call \ {d}, Accept(c) PROVE call'[d] = call[d]
  BY <1>1, <1>3 DEF Accept
<1>4. ASSUME NEW k \in Key, Outsider(k)
      PROVE  /\ call[d].at = "new" => call'[d].at = "new"
             /\ call[d].at = "returned" =>
                    call'[d].at = "returned" /\ call'[d].status = call[d].status
  BY <1>1, <1>4 DEF Outsider, Becomes, Asked, CallRecord
<1>5. CASE Exit
  BY <1>1, <1>5 DEF Exit, InProgress
<1>6. CASE Signal \/ ServeFails \/ Drains \/ DrainTimesOut \/ UNCHANGED vars
  BY <1>6 DEF Signal, ServeFails, Drains, DrainTimesOut, vars
<1> QED BY <1>2, <1>3, <1>4, <1>5, <1>6

LEMMA CommandKeeps ==
    ASSUME ServerInv, CommandInv, [ServerStep \/ CommandStep]_allVars PROVE CommandInv'
<1>1. Mine \in Call /\ options' = options
  BY CommandAssumption DEF ServerStep, CommandStep, MakesNoCall, Prepare, Send, Unreachable,
     LosesCall, Interrupt, DeadlinePasses, Receive, Prints, Ends, Goes, Fails, allVars, commandVars
<1>2. CASE ServerStep
  <2>1. UNCHANGED <<sent, said, exit>> /\ (cli' = cli \/ (cli = "waiting" /\ cli' = "cut"))
    <3>1. sent' = sent /\ said' = said /\ exit' = exit /\ (cli' = cli \/ CutOff)
      BY <1>2 DEF ServerStep
    <3>2. CutOff => cli' = cli \/ (cli = "waiting" /\ cli' = "cut")
      BY DEF CutOff
    <3> QED BY <3>1, <3>2
  <2>2. CASE sent /\ Accept(Mine)
    <3>1. call[Mine].at = "new" /\ sent
      BY <2>2 DEF Accept
    <3> QED BY <1>1, <2>1, <3>1 DEF CommandInv, CommandTypeOK
  <2>3. CASE ~(sent /\ Accept(Mine))
    <3>1. /\ call[Mine].at = "new" => call'[Mine].at = "new"
          /\ call[Mine].at = "returned" =>
                call'[Mine].at = "returned" /\ call'[Mine].status = call[Mine].status
      BY <1>1, <1>2, <2>3, CallsStay DEF ServerStep
    <3> QED BY <1>1, <2>1, <3>1 DEF CommandInv, CommandTypeOK
  <2> QED BY <2>2, <2>3
<1>3. CASE CommandStep
  <2>1. call' = call
    BY <1>3 DEF CommandStep, MakesNoCall, Prepare, Send, Unreachable, LosesCall, Interrupt,
                DeadlinePasses, Receive, Prints, Ends, Goes, Fails, serverVars, vars
  <2>2. CASE MakesNoCall \/ Prepare \/ Send
    <3>1. CASE MakesNoCall
      BY <1>1, <2>1, <3>1 DEF MakesNoCall, Ends, CommandInv, CommandTypeOK
    <3>2. CASE Prepare
      BY <1>1, <2>1, <3>2 DEF Prepare, Goes, CommandInv, CommandTypeOK
    <3>3. CASE Send
      BY <1>1, <2>1, <3>3 DEF Send, CommandInv, CommandTypeOK
    <3> QED BY <2>2, <3>1, <3>2, <3>3
  <2>3. CASE Unreachable \/ LosesCall \/ Interrupt \/ DeadlinePasses
    BY <1>1, <2>1, <2>3 DEF Unreachable, LosesCall, Interrupt, DeadlinePasses, Fails, Ends,
                            Unclear, CommandInv, CommandTypeOK
  <2>4. CASE Receive
    <3>1. call[Mine] \in CallRecord
      BY <1>1 DEF ServerInv, Types
    <3>2. call[Mine].status # "no call"
      BY <3>1 DEF CallRecord
    <3> QED BY <1>1, <2>1, <2>4, <3>2 DEF Receive, Goes, Fails, Ends, Unclear, CommandInv, CommandTypeOK
  <2>5. CASE Prints
    BY <1>1, <2>1, <2>5 DEF Prints, Ends, CommandInv, CommandTypeOK
  <2> QED BY <1>3, <2>2, <2>3, <2>4, <2>5 DEF CommandStep
<1>4. CASE UNCHANGED allVars
  BY <1>4 DEF allVars, vars, commandVars, CommandInv, CommandTypeOK
<1> QED BY <1>2, <1>3, <1>4

LEMMA InvExitTells == ServerInv /\ CommandInv => ExitTells
<1> SUFFICES ASSUME ServerInv, CommandInv PROVE ExitTells
  OBVIOUS
<1>1. Story(Mine) /\ call[Mine] \in CallRecord
  BY CommandAssumption DEF ServerInv, Types
<1>2. ASSUME exit = "exit 0"
      PROVE  /\ authenticate(command) /\ Permitted(command)
             /\ command.method \in {"put", "delete"} => Mine \in effects
             /\ \E n \in DOMAIN call[Mine].audits : call[Mine].audits[n].outcome = "success"
  <2>1. call[Mine].at = "returned" /\ call[Mine].status = "OK"
    BY <1>2 DEF CommandInv
  <2>2. Entitled(command) /\ Len(call[Mine].audits) = 1 /\ call[Mine].audits[1].outcome = "success"
    BY <1>1, <2>1 DEF Story, Recorded, command, Entitled
  <2>3. 1 \in DOMAIN call[Mine].audits
    BY <1>1, <2>2 DEF CallRecord
  <2> QED BY <1>1, <2>1, <2>2, <2>3 DEF Entitled, Decided, Story, Changed, Writing, command
<1>3. ~sent => call[Mine].at = "new" /\ Mine \notin effects
  BY <1>1 DEF CommandInv, Story, Quiet
<1> QED BY <1>1, <1>2, <1>3 DEF ExitTells, CommandInv, Story, Changed

THEOREM CommandInvariance == CommandSpec => []CommandInv
<1>1. CommandInit => CommandInv
  <2> SUFFICES ASSUME CommandInit PROVE CommandInv
    OBVIOUS
  <2>1. call[Mine].at = "new"
    BY CommandAssumption DEF CommandInit, Init, Idle
  <2> QED BY <2>1 DEF CommandInit, CommandInv, CommandTypeOK
<1> QED BY <1>1, CommandIsServer, ServerInvariance, CommandKeeps, PTL DEF CommandSpec

\* An exit code of 0 means permitted, done and recorded; an answer that names a reason
\* means nothing was changed; "no call" means the server has heard nothing.
THEOREM CommandExitTells == CommandSpec => []ExitTells
BY InvExitTells, CommandInvariance, CommandIsServer, ServerInvariance, PTL
=============================================================================
