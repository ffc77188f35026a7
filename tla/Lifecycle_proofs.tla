--------------------------- MODULE Lifecycle_proofs ---------------------------
(***************************************************************************)
(* Proofs about Lifecycle, for any number of RPCs and any configuration    *)
(* that may be found.                                                      *)
(***************************************************************************)
EXTENDS Lifecycle, FiniteSetTheorems, TLAPS

-----------------------------------------------------------------------------
(* The inductive invariant. *)

Early   == {"load", "validate", "open"}
Caught  == {"policy", "server", "listen", "serving", "draining"}
Booting == Early \cup {"login", "notify", "policy", "server", "listen"}

\* A Close is deferred as long as there is something to close, except between the
\* making of Bitwarden's client and the login.
Deferred ==
    /\ stage \in Early  => handle = "none" /\ defers = <<>>
    /\ stage = "login"  => handle = "open" /\ defers = <<>>
    /\ stage = "notify" => \/ handle = "none" /\ defers = <<>>
                           \/ handle = "open" /\ defers = <<"close">>
    /\ stage \in Caught => \/ handle = "none" /\ defers = <<"stop">>
                           \/ handle = "open" /\ defers = <<"close", "stop">>
    /\ stage = "returning" /\ handle = "open" => defers \in {<<"close">>, <<"close", "stop">>}
    /\ NothingLeftOpen
    /\ result = "killed" => stage = "exited"

\* A call is inside the store only while a goroutine of it is there, and nobody is
\* orphaned but the poll of a watch whose context has ended.
Placed ==
    \A c \in Call :
        /\ rpc[c].using => rpc[c].at \in {"accepted", "streaming", "orphaned"}
        /\ rpc[c].at \in {"streaming", "orphaned"} => rpc[c].kind = "watch"
        /\ rpc[c].at = "orphaned" => rpc[c].over

\* No handler runs before the server serves, nor after it was drained in time.
Drained ==
    /\ stage \in Booting => \A c \in Call : rpc[c].at = "new"
    /\ stage \in {"returning", "exited"} /\ ~abrupt => \A c \in Call : ~InProgress(c)

\* What boot has found good, for Bind to rely on.
OpenedWell ==
    \/ cfg["backend"] = "azure" /\ AzureValidates
    \/ cfg["backend"] = "gcp" /\ GcpValidates
    \/ /\ cfg["backend"] = "bitwarden" /\ BitwardenValidates
       /\ cfg["bitwarden.access_token"] = "good"

RulesCompile ==
    \A u \in found.users : \A rule \in u.allow :
        rule.namespace # "malformed" /\ "unknown" \notin rule.actions

Vetted ==
    /\ stage \in Booting => found \in Configuration
    /\ stage \in Booting \ {"load", "validate"} => Validates
    /\ stage = "login" => cfg["backend"] = "bitwarden" /\ BitwardenValidates
    /\ stage \in {"notify", "policy", "server", "listen"} => OpenedWell
    /\ stage \in {"server", "listen"} => RulesCompile
    /\ stage = "listen" => cfg["tls.cert_file"] = "good" /\ cfg["tls.key_file"] = "good"

LifeInv == TypeOK /\ Deferred /\ Placed /\ Drained /\ Vetted

-----------------------------------------------------------------------------
(* Its parts, step by step. *)

LEMMA InitialLife == Init => LifeInv
<1> SUFFICES ASSUME Init PROVE LifeInv
  OBVIOUS
<1>1. TypeOK
  BY DEF Init, TypeOK, Stages, Idle
<1>2. Deferred /\ Vetted
  BY DEF Init, Deferred, Vetted, NothingLeftOpen, Early, Caught, Booting
<1>3. Placed /\ Drained
  BY DEF Init, Placed, Drained, Idle
<1> QED BY <1>1, <1>2, <1>3 DEF LifeInv

\* What is said of the configuration is said of what was found and nothing else.
LEMMA FoundStays ==
    ASSUME found' = found
    PROVE  /\ Validates' <=> Validates
           /\ OpenedWell' <=> OpenedWell
           /\ RulesCompile' <=> RulesCompile
           /\ BitwardenValidates' <=> BitwardenValidates
           /\ cfg' = cfg
<1>1. cfg' = cfg
  BY DEF cfg
<1> QED BY <1>1 DEF Validates, OpenedWell, RulesCompile, BitwardenValidates, AzureValidates,
                    GcpValidates, Interval, PrincipalIsWhole

\* What every step of boot has in common, for the parts that speak of calls.
LEMMA BootLeavesCalls ==
    ASSUME LifeInv, Boot
    PROVE  /\ rpc' = rpc /\ abrupt' = abrupt /\ told' = told
           /\ stage \in Booting
           /\ stage' \in Booting \cup {"serving", "returning"}
BY DEF Boot, LoadConfig, Validate, OpenFails, OpenAzure, OpenGcp, OpenBitwarden, AccessTokenLogin,
       NotifyContext, NewPolicy, NewServer, Bind, Either, Goes, Fails, Keeps, Opens, Booting, Early

LEMMA BootKeepsVetted ==
    ASSUME LifeInv, Boot PROVE Vetted'
<1> USE DEF Booting, Early, Goes, Fails, Keeps
<1>1. Vetted
  BY DEF LifeInv
<1>2. CASE Bind
  BY <1>2 DEF Bind, Vetted
<1>3. CASE LoadConfig
  BY <1>1, <1>3, FoundStays DEF LoadConfig, Either, Vetted
<1>4. CASE Validate
  BY <1>1, <1>4, FoundStays DEF Validate, Either, Vetted
<1>5. CASE OpenFails
  BY <1>1, <1>5, FoundStays DEF OpenFails, Vetted
<1>6. CASE OpenAzure
  <2>1. OpenedWell
    BY <1>6 DEF OpenAzure, Opens, OpenedWell
  <2> QED BY <1>1, <1>6, <2>1, FoundStays DEF OpenAzure, Opens, Vetted
<1>7. CASE OpenGcp
  <2>1. OpenedWell
    BY <1>7 DEF OpenGcp, Opens, OpenedWell
  <2> QED BY <1>1, <1>7, <2>1, FoundStays DEF OpenGcp, Opens, Vetted
<1>8. CASE OpenBitwarden
  BY <1>1, <1>8, FoundStays DEF OpenBitwarden, Opens, Vetted
<1>9. CASE AccessTokenLogin
  <2>1. CASE stage' = "returning"
    BY <2>1 DEF Vetted
  <2>2. CASE stage' # "returning"
    <3>1. OpenedWell
      BY <1>1, <1>9, <2>2 DEF AccessTokenLogin, OpenedWell, Vetted
    <3> QED BY <1>1, <1>9, <2>2, <3>1, FoundStays DEF AccessTokenLogin, Vetted
  <2> QED BY <2>1, <2>2
<1>10. CASE NotifyContext
  BY <1>1, <1>10, FoundStays DEF NotifyContext, Vetted
<1>11. CASE NewPolicy
  BY <1>1, <1>11, FoundStays DEF NewPolicy, Either, Vetted, RulesCompile
<1>12. CASE NewServer
  BY <1>1, <1>12, FoundStays DEF NewServer, Either, Vetted
<1> QED BY <1>2, <1>3, <1>4, <1>5, <1>6, <1>7, <1>8, <1>9, <1>10, <1>11, <1>12 DEF Boot

\* The sequences of deferred calls there are, and what is done with them.
LEMMA Deferrals ==
    /\ Append(<<>>, "stop") = <<"stop">>
    /\ Append(<<"close">>, "stop") = <<"close", "stop">>
    /\ Front(<<"close">>) = <<>> /\ Last(<<"close">>) = "close"
    /\ Front(<<"stop">>) = <<>> /\ Last(<<"stop">>) = "stop"
    /\ Front(<<"close", "stop">>) = <<"close">> /\ Last(<<"close", "stop">>) = "stop"
<1> DEFINE Q == Seq({"close", "stop"})
           both == <<"close", "stop">>
<1>1. both \in Q /\ Len(both) = 2 /\ both[1] = "close" /\ both[2] = "stop"
  OBVIOUS
<1>2. <<"close">> \in Q /\ Len(<<"close">>) = 1 /\ <<"close">>[1] = "close"
  OBVIOUS
<1> HIDE DEF both
<1>3. Append(<<"close">>, "stop") = both
  <2>1. /\ Append(<<"close">>, "stop") \in Q /\ Len(Append(<<"close">>, "stop")) = 2
        /\ Append(<<"close">>, "stop")[1] = "close" /\ Append(<<"close">>, "stop")[2] = "stop"
    BY <1>2
  <2> QED BY <1>1, <2>1
<1>4. Front(both) = <<"close">>
  <2>1. Front(both) \in Q /\ Len(Front(both)) = 1 /\ Front(both)[1] = "close"
    BY <1>1 DEF Front
  <2> QED BY <1>2, <2>1
<1>5. Last(both) = "stop"
  BY <1>1 DEF Last
<1>6. Front(<<"close">>) = <<>> /\ Last(<<"close">>) = "close"
  BY DEF Front, Last
<1>7. Front(<<"stop">>) = <<>> /\ Last(<<"stop">>) = "stop"
  BY DEF Front, Last
<1>8. Append(<<>>, "stop") = <<"stop">>
  OBVIOUS
<1> QED BY <1>3, <1>4, <1>5, <1>6, <1>7, <1>8 DEF both

LEMMA BootKeepsDeferred ==
    ASSUME LifeInv, Boot PROVE Deferred'
<1> USE DEF Early, Caught, Goes, Fails, Keeps, NothingLeftOpen
<1>1. Deferred
  BY DEF LifeInv
<1>2. CASE LoadConfig
  BY <1>1, <1>2 DEF LoadConfig, Either, Deferred
<1>3. CASE Validate
  BY <1>1, <1>3 DEF Validate, Either, Deferred
<1>4. CASE OpenFails
  BY <1>1, <1>4 DEF OpenFails, Deferred
<1>5. CASE OpenAzure
  BY <1>1, <1>5 DEF OpenAzure, Opens, Deferred
<1>6. CASE OpenGcp
  BY <1>1, <1>6 DEF OpenGcp, Opens, DeferClose, Deferred
<1>7. CASE OpenBitwarden
  BY <1>1, <1>7 DEF OpenBitwarden, Opens, Deferred
<1>8. CASE AccessTokenLogin
  BY <1>1, <1>8 DEF AccessTokenLogin, DeferClose, Deferred
<1>9. CASE NotifyContext
  <2>1. /\ stage' = "policy" /\ handle' = handle /\ result' = result
        /\ defers' = Append(defers, "stop")
        /\ \/ handle = "none" /\ defers = <<>>
           \/ handle = "open" /\ defers = <<"close">>
        /\ result # "killed"
    BY <1>1, <1>9 DEF NotifyContext, Deferred
  <2>2. Append(<<>>, "stop") = <<"stop">> /\ Append(<<"close">>, "stop") = <<"close", "stop">>
    BY Deferrals
  <2>3. \/ handle' = "none" /\ defers' = <<"stop">>
        \/ handle' = "open" /\ defers' = <<"close", "stop">>
    BY <2>1, <2>2
  <2> QED BY <2>1, <2>3 DEF Deferred
<1>10. CASE NewPolicy
  BY <1>1, <1>10 DEF NewPolicy, Either, Deferred
<1>11. CASE NewServer
  BY <1>1, <1>11 DEF NewServer, Either, Deferred
<1>12. CASE Bind
  BY <1>1, <1>12 DEF Bind, Deferred
<1> QED BY <1>2, <1>3, <1>4, <1>5, <1>6, <1>7, <1>8, <1>9, <1>10, <1>11, <1>12 DEF Boot

LEMMA BootKeeps == ASSUME LifeInv, Boot PROVE LifeInv'
<1>1. TypeOK'
  <2>1. TypeOK /\ Deferred /\ Deferred' /\ Vetted /\ Vetted'
    BY BootKeepsVetted, BootKeepsDeferred DEF LifeInv
  <2>2. rpc' = rpc /\ abrupt' = abrupt /\ told' = told /\ stage \in Booting
        /\ stage' \in Booting \cup {"serving", "returning"}
    BY BootLeavesCalls
  <2>3. found' \in Configuration \cup {Remembered(b) : b \in Backend}
    <3>1. CASE Bind
      <4>1. found \in Configuration /\ cfg["backend"] \in Backend
        BY <2>1, <3>1 DEF Bind, Vetted, Booting, OpenedWell, Backend
      <4> QED BY <3>1, <4>1 DEF Bind
    <3>2. CASE ~Bind
      <4>1. found' = found
        BY <3>2 DEF Boot, LoadConfig, Validate, OpenFails, OpenAzure, OpenGcp, OpenBitwarden,
                    AccessTokenLogin, NotifyContext, NewPolicy, NewServer, Keeps
      <4> QED BY <2>1, <4>1 DEF TypeOK
    <3> QED BY <3>1, <3>2
  <2>4. /\ result' \in {"none", "ok", "error", "killed"}
        /\ handle' \in {"none", "open", "closed"}
    BY <2>1 DEF TypeOK, Boot, LoadConfig, Validate, OpenFails, OpenAzure, OpenGcp, OpenBitwarden,
                AccessTokenLogin, NotifyContext, NewPolicy, NewServer, Bind, Either, Goes, Fails
  <2>5. defers' \in {<<>>, <<"close">>, <<"stop">>, <<"close", "stop">>}
    <3>1. CASE stage' # "returning"
      BY <2>1, <2>2, <3>1 DEF Deferred, Booting, Early, Caught
    <3>2. CASE stage' = "returning"
      <4>1. defers' = defers
        BY <3>2, <2>2 DEF Boot, LoadConfig, Validate, OpenFails, OpenAzure, OpenGcp, OpenBitwarden,
                    AccessTokenLogin, NotifyContext, NewPolicy, NewServer, Bind, Goes, Booting
      <4> QED BY <2>1, <4>1 DEF TypeOK
    <3> QED BY <3>1, <3>2
  <2> QED BY <2>1, <2>2, <2>3, <2>4, <2>5 DEF TypeOK, Stages, Booting, Early
<1>2. Placed'
  BY BootLeavesCalls DEF LifeInv, Placed
<1>3. Drained'
  BY BootLeavesCalls DEF LifeInv, Drained, InProgress, Booting, Early
<1> QED BY <1>1, <1>2, <1>3, BootKeepsVetted, BootKeepsDeferred DEF LifeInv

\* Defer runs what was deferred last.
LEMMA DeferShape ==
    ASSUME LifeInv, Defer
    PROVE  /\ stage = "returning" /\ stage' = "returning" /\ result' = result
           /\ defers' \in {<<>>, <<"close">>}
           /\ handle' \in {"none", "open", "closed"}
           /\ handle' = "open" => defers' = <<"close">>
<1>4. /\ stage = "returning" /\ UNCHANGED <<stage, result>>
      /\ defers \in {<<"close">>, <<"stop">>, <<"close", "stop">>}
      /\ handle = "open" => defers \in {<<"close">>, <<"close", "stop">>}
      /\ handle \in {"none", "open", "closed"}
      /\ defers' = Front(defers)
      /\ handle' = IF Last(defers) = "close" THEN "closed" ELSE handle
  BY DEF Defer, LifeInv, TypeOK, Deferred
<1>5. CASE defers = <<"close">>
  BY Deferrals, <1>4, <1>5
<1>6. CASE defers = <<"stop">>
  BY Deferrals, <1>4, <1>6
<1>7. CASE defers = <<"close", "stop">>
  BY Deferrals, <1>4, <1>7
<1> QED BY <1>4, <1>5, <1>6, <1>7

LEMMA EndKeeps == ASSUME LifeInv, End \/ ServeFails PROVE LifeInv'
<1> USE DEF bootVars
<1>1. CASE ShutDown
  BY <1>1 DEF ShutDown, Goes, LifeInv, TypeOK, Stages, Deferred, Placed, Drained, Vetted,
              NothingLeftOpen, Early, Caught, Booting, InProgress
<1>2. CASE Drains
  BY <1>2 DEF Drains, LifeInv, TypeOK, Stages, Deferred, Placed, Drained, Vetted,
              NothingLeftOpen, Early, Caught, Booting, InProgress
<1>3. CASE ServeFails
  BY <1>3 DEF ServeFails, Fails, LifeInv, TypeOK, Stages, Deferred, Placed, Drained, Vetted,
              NothingLeftOpen, Early, Caught, Booting, InProgress
<1>4. CASE DrainTimesOut
  <2>1. TypeOK'
    BY <1>4 DEF DrainTimesOut, LifeInv, TypeOK, Stages
  <2>2. Deferred' /\ Drained' /\ Vetted'
    BY <1>4 DEF DrainTimesOut, LifeInv, Deferred, Drained, Vetted,
                NothingLeftOpen, Early, Caught, Booting
  <2>3. Placed'
    BY <1>4 DEF DrainTimesOut, LifeInv, TypeOK, Placed, InProgress
  <2> QED BY <2>1, <2>2, <2>3 DEF LifeInv
<1>5. CASE Defer
  <2>1. found' = found /\ told' = told /\ abrupt' = abrupt /\ rpc' = rpc
    BY <1>5 DEF Defer
  <2>2. TypeOK'
    BY <1>5, <2>1, DeferShape DEF LifeInv, TypeOK
  <2>3. Deferred'
    BY <1>5, DeferShape DEF LifeInv, Deferred, NothingLeftOpen, Early, Caught
  <2>4. Vetted' /\ Drained' /\ Placed'
    BY <1>5, <2>1, DeferShape DEF LifeInv, Vetted, Drained, Placed, Early, Booting, InProgress
  <2> QED BY <2>2, <2>3, <2>4 DEF LifeInv
<1>6. CASE Exit
  <2>1. TypeOK'
    BY <1>6 DEF Exit, LifeInv, TypeOK, Stages
  <2>2. Deferred' /\ Vetted'
    BY <1>6 DEF Exit, LifeInv, Deferred, Vetted, NothingLeftOpen, Early, Caught, Booting
  <2>3. \A c \in Call : rpc'[c].at = "ended" /\ rpc'[c].using = FALSE
    BY <1>6 DEF Exit, LifeInv, TypeOK
  <2>4. Drained' /\ Placed'
    BY <1>6, <2>3 DEF Exit, Drained, Placed, InProgress, Early, Booting
  <2> QED BY <2>1, <2>2, <2>4 DEF LifeInv
<1> QED BY <1>1, <1>2, <1>3, <1>4, <1>5, <1>6 DEF End

LEMMA SignalKeeps == ASSUME LifeInv, Signal PROVE LifeInv'
<1> USE DEF bootVars
<1>1. CASE \E n \in DOMAIN defers : defers[n] = "stop"
  <2>1. told' = TRUE /\ UNCHANGED <<found, defers, handle, stage, result, abrupt, rpc>>
    BY <1>1 DEF Signal
  <2>2. TypeOK' /\ Deferred' /\ Placed' /\ Drained'
    BY <2>1 DEF LifeInv, TypeOK, Deferred, Placed, Drained, NothingLeftOpen, InProgress
  <2>3. Vetted'
    BY <2>1, FoundStays DEF LifeInv, Vetted
  <2> QED BY <2>2, <2>3 DEF LifeInv
<1>2. CASE ~\E n \in DOMAIN defers : defers[n] = "stop"
  <2>1. /\ stage' = "exited" /\ result' = "killed"
        /\ UNCHANGED <<found, defers, handle, told, abrupt>>
        /\ rpc' = [c \in Call |-> [rpc[c] EXCEPT !.at = "ended", !.using = FALSE]]
    BY <1>2 DEF Signal
  <2>2. TypeOK'
    BY <2>1 DEF LifeInv, TypeOK, Stages
  <2>3. Deferred' /\ Vetted'
    BY <2>1 DEF Deferred, Vetted, NothingLeftOpen, Early, Caught, Booting
  <2>4. \A c \in Call : rpc'[c].at = "ended" /\ rpc'[c].using = FALSE
    BY <2>1 DEF LifeInv, TypeOK
  <2>5. Drained' /\ Placed'
    BY <2>1, <2>4 DEF Drained, Placed, InProgress, Early, Booting
  <2> QED BY <2>2, <2>3, <2>5 DEF LifeInv
<1> QED BY <1>1, <1>2

RpcState ==
    [at : {"new", "accepted", "answered", "streaming", "orphaned", "ended"},
     kind : {"unary", "watch"}, using : BOOLEAN, over : BOOLEAN]

\* A step of a call leaves everything else alone, and a handler starts only while the
\* server serves.
LEMMA RpcShape ==
    ASSUME LifeInv, NEW c \in Call, RpcStep(c)
    PROVE  \E r \in RpcState :
              /\ Changes(c, r)
              /\ r.using => r.at \in {"accepted", "streaming", "orphaned"}
              /\ r.at \in {"streaming", "orphaned"} => r.kind = "watch"
              /\ r.at = "orphaned" => r.over
              /\ \/ stage = "serving"
                 \/ /\ rpc[c].at # "new"
                    /\ r.at \in {"accepted", "answered", "streaming"} => InProgress(c)
<1> USE DEF RpcState
<1>1. rpc[c] \in RpcState /\ Placed
  BY DEF LifeInv, TypeOK
<1>2. CASE Accept(c)
  <2>1. PICK kind \in {"unary", "watch"} : Changes(c, [Idle EXCEPT !.at = "accepted", !.kind = kind])
    BY <1>2 DEF Accept
  <2> QED BY <1>2, <2>1 DEF Accept, Idle
<1>3. CASE HangUp(c)
  <2> DEFINE r == [rpc[c] EXCEPT !.over = TRUE]
  <2>1. Changes(c, r) /\ InProgress(c)
    BY <1>3 DEF HangUp
  <2> QED BY <1>1, <2>1 DEF InProgress, Placed
<1>4. CASE Uses(c)
  <2> DEFINE r == [rpc[c] EXCEPT !.using = TRUE]
  <2>1. Changes(c, r) /\ rpc[c].at \in {"accepted", "streaming", "orphaned"}
    BY <1>4 DEF Uses
  <2>2. /\ r \in RpcState /\ r.using /\ r.at = rpc[c].at
        /\ r.kind = rpc[c].kind /\ r.over = rpc[c].over
    BY <1>1
  <2> HIDE DEF r
  <2> QED BY <1>1, <2>1, <2>2 DEF InProgress, Placed
<1>5. CASE Answers(c)
  <2>1. rpc[c].using /\ rpc[c].at \in {"accepted", "streaming", "orphaned"}
    BY <1>1, <1>5 DEF Answers, Placed
  <2>2. PICK at \in {rpc[c].at, "answered", "streaming"} :
            /\ (rpc[c].at = "accepted") = (at # rpc[c].at)
            /\ at = "streaming" => rpc[c].kind = "watch"
            /\ Changes(c, [rpc[c] EXCEPT !.using = FALSE, !.at = at])
    BY <1>5 DEF Answers
  <2> DEFINE r == [rpc[c] EXCEPT !.using = FALSE, !.at = at]
  <2>3. /\ r \in RpcState /\ ~r.using /\ r.at = at
        /\ r.kind = rpc[c].kind /\ r.over = rpc[c].over
    BY <1>1, <2>1, <2>2
  <2> HIDE DEF r
  <2> QED BY <1>1, <2>1, <2>2, <2>3 DEF InProgress, Placed, r
<1>6. CASE Returns(c) \/ PollEnds(c)
  <2> DEFINE r == [rpc[c] EXCEPT !.at = "ended"]
  <2>1. Changes(c, r) /\ ~rpc[c].using /\ rpc[c].at # "new"
    BY <1>6 DEF Returns, PollEnds
  <2> QED BY <1>1, <2>1
<1>7. CASE StreamEnds(c)
  <2> DEFINE r == [rpc[c] EXCEPT !.at = "orphaned"]
  <2>1. Changes(c, r) /\ rpc[c].over /\ rpc[c].at = "streaming"
    BY <1>7 DEF StreamEnds
  <2> QED BY <1>1, <2>1 DEF Placed
<1> QED BY <1>2, <1>3, <1>4, <1>5, <1>6, <1>7 DEF RpcStep

LEMMA RpcKeeps == ASSUME LifeInv, NEW c \in Call, RpcStep(c) PROVE LifeInv'
<1>1. PICK r \in RpcState :
          /\ Changes(c, r)
          /\ r.using => r.at \in {"accepted", "streaming", "orphaned"}
          /\ r.at \in {"streaming", "orphaned"} => r.kind = "watch"
          /\ r.at = "orphaned" => r.over
          /\ \/ stage = "serving"
             \/ /\ rpc[c].at # "new"
                /\ r.at \in {"accepted", "answered", "streaming"} => InProgress(c)
  BY RpcShape
<1>2. /\ UNCHANGED <<found, defers, handle, stage, told, result, abrupt>>
      /\ rpc' = [rpc EXCEPT ![c] = r]
  BY <1>1 DEF Changes, bootVars
<1>3. rpc'[c] = r /\ \A d \in Call \ {c} : rpc'[d] = rpc[d]
  BY <1>2 DEF LifeInv, TypeOK
<1>4. TypeOK'
  BY <1>2 DEF LifeInv, TypeOK, RpcState
<1>5. Deferred'
  BY <1>2 DEF LifeInv, Deferred, NothingLeftOpen
<1>6. Vetted'
  BY <1>2, FoundStays DEF LifeInv, Vetted
<1>7. Placed'
  BY <1>1, <1>3 DEF LifeInv, Placed
<1>8. Drained'
  BY <1>1, <1>2, <1>3 DEF LifeInv, Drained, InProgress, Booting, Early
<1> QED BY <1>4, <1>5, <1>6, <1>7, <1>8 DEF LifeInv

LEMMA LifeKeeps == ASSUME LifeInv, [Next]_vars PROVE LifeInv'
<1>1. CASE UNCHANGED vars
  <2>1. UNCHANGED <<found, defers, handle, stage, told, result, abrupt, rpc>>
    BY <1>1 DEF vars, bootVars
  <2>2. TypeOK' /\ Deferred' /\ Placed' /\ Drained'
    BY <2>1 DEF LifeInv, TypeOK, Deferred, Placed, Drained, NothingLeftOpen, InProgress
  <2>3. Vetted'
    BY <2>1, FoundStays DEF LifeInv, Vetted
  <2> QED BY <2>2, <2>3 DEF LifeInv
<1> QED BY <1>1, BootKeeps, EndKeeps, SignalKeeps, RpcKeeps DEF Next

\* The invariant holds whatever configuration is found and whenever signals come.
THEOREM LifecycleInvariance == Spec => []LifeInv
BY InitialLife, LifeKeeps, PTL DEF Spec

-----------------------------------------------------------------------------
(* What follows from it. *)

\* TypeOK of Lifecycle, which the runs leave to the proof.
THEOREM LifecycleTypes == Spec => []TypeOK
<1>1. LifeInv => TypeOK
  BY DEF LifeInv
<1> QED BY <1>1, LifecycleInvariance, PTL

\* run closes the client of the backend under no call, unless Listen did not wait, or
\* the call is the last List of a watch that has ended.
THEOREM LifecycleStoreOutlivesCalls == Spec => []StoreOutlivesCalls
<1>1. ASSUME LifeInv PROVE StoreOutlivesCalls
  <2> SUFFICES ASSUME NEW c \in Call, handle = "closed", rpc[c].using, ~abrupt
               PROVE  rpc[c].kind = "watch" /\ rpc[c].at = "orphaned" /\ rpc[c].over
    BY DEF StoreOutlivesCalls
  <2>1. TypeOK /\ Deferred /\ Placed /\ Drained
    BY <1>1 DEF LifeInv
  <2>2. stage \in {"returning", "exited"}
    BY <2>1 DEF TypeOK, Stages, Deferred, Early, Caught
  <2>3. ~InProgress(c)
    BY <2>1, <2>2 DEF Drained
  <2> QED BY <2>1, <2>3 DEF Placed, InProgress
<1> QED BY <1>1, LifecycleInvariance, PTL

\* However run comes back, a client of the backend that was made has been closed.
THEOREM LifecycleNothingLeftOpen == Spec => []NothingLeftOpen
<1>1. LifeInv => NothingLeftOpen
  BY DEF LifeInv, Deferred
<1> QED BY <1>1, LifecycleInvariance, PTL

\* Merging the layers gives a setting what the last layer to mention it says.
LEMMA LoadIsLastWord == ASSUME NEW s \in Setting PROVE cfg[s] = LastWord(s)
BY DEF cfg, Load, Loaded, Over, LastWord

\* A service principal of which neither none nor all is given is not whole.
LEMMA WholePrincipal ==
    ASSUME PrincipalIsWhole
    PROVE  LET principal == {"azure.tenant_id", "azure.client_id", "azure.client_secret"}
           IN  (\A s \in principal : cfg[s] # "") \/ (\A s \in principal : cfg[s] = "")
<1> DEFINE principal == {"azure.tenant_id", "azure.client_id", "azure.client_secret"}
           given == {s \in principal : cfg[s] # ""}
<1>1. Cardinality(given) \in {0, 3}
  BY DEF PrincipalIsWhole
<1>2. IsFiniteSet(principal) /\ Cardinality(principal) = 3
  <2>1. IsFiniteSet({"azure.tenant_id", "azure.client_id"})
        /\ Cardinality({"azure.tenant_id", "azure.client_id"}) = 2
    <3>1. IsFiniteSet({"azure.tenant_id"}) /\ Cardinality({"azure.tenant_id"}) = 1
      BY FS_Singleton
    <3>2. "azure.client_id" \notin {"azure.tenant_id"}
      OBVIOUS
    <3>3. {"azure.tenant_id"} \cup {"azure.client_id"} = {"azure.tenant_id", "azure.client_id"}
      OBVIOUS
    <3> QED BY <3>1, <3>2, <3>3, FS_AddElement
  <2>2. "azure.client_secret" \notin {"azure.tenant_id", "azure.client_id"}
    OBVIOUS
  <2>3. {"azure.tenant_id", "azure.client_id"} \cup {"azure.client_secret"} = principal
    OBVIOUS
  <2> QED BY <2>1, <2>2, <2>3, FS_AddElement
<1>3. given \subseteq principal
  OBVIOUS
<1>4. CASE Cardinality(given) = 0
  <2>1. IsFiniteSet(given)
    BY <1>2, <1>3, FS_Subset
  <2>2. given = {}
    BY <1>4, <2>1, FS_EmptySet
  <2> QED BY <2>2
<1>5. CASE Cardinality(given) = 3
  <2>1. given \in SUBSET principal /\ Cardinality(principal) = Cardinality(given)
    BY <1>2, <1>3, <1>5
  <2>2. given = principal
    <3> HIDE DEF principal, given
    <3> QED BY <1>2, <2>1, FS_Subset
  <2>3. \A s \in principal : cfg[s] # ""
    BY <2>2
  <2> QED BY <2>3
<1> QED BY <1>1, <1>4, <1>5

LEMMA BindsEquipped == ASSUME LifeInv, Bind, stage' = "serving" PROVE Equipped
<1> DEFINE principal == {"azure.tenant_id", "azure.client_id", "azure.client_secret"}
<1>1. /\ stage = "listen" /\ cfg["listen"] = "good"
      /\ cfg["tls.cert_file"] = "good" /\ cfg["tls.key_file"] = "good"
      /\ Validates /\ OpenedWell /\ RulesCompile /\ found \in Configuration
  BY DEF Bind, Fails, LifeInv, Vetted, Booting, Early
<1>2. \A s \in Setting : LastWord(s) = cfg[s]
  BY LoadIsLastWord
<1> HIDE DEF cfg
<1>3. \A u \in found.users :
          /\ u.password_hash # ""
          /\ \A rule \in u.allow :
                rule.namespace \in {"*", "valid"} /\ rule.actions \subseteq {"known"}
  <2> SUFFICES ASSUME NEW u \in found.users
               PROVE  /\ u.password_hash # ""
                      /\ \A rule \in u.allow :
                            rule.namespace \in {"*", "valid"} /\ rule.actions \subseteq {"known"}
    OBVIOUS
  <2>1. u.allow \subseteq Rule
    BY <1>1, LifecycleAssumption
  <2>2. u.password_hash # "" /\ \A rule \in u.allow : rule.namespace # ""
    BY <1>1 DEF Validates
  <2>3. \A rule \in u.allow : rule.namespace # "malformed" /\ "unknown" \notin rule.actions
    BY <1>1 DEF RulesCompile
  <2> QED BY <2>1, <2>2, <2>3 DEF Rule
<1>4. CASE cfg["backend"] = "azure" /\ AzureValidates
  <2>1. cfg["azure.vault_url"] = "good" /\ cfg["azure.poll_interval"] = "good"
    BY <1>4 DEF AzureValidates, Interval
  <2>2. (\A s \in principal : cfg[s] # "") \/ (\A s \in principal : cfg[s] = "")
    BY <1>4, WholePrincipal DEF AzureValidates
  <2>3. (\A s \in principal : LastWord(s) # "") \/ (\A s \in principal : LastWord(s) = "")
    BY <1>2, <2>2 DEF Setting
  <2>4. LastWord("backend") = "azure" /\ LastWord("azure.vault_url") = "good"
        /\ LastWord("azure.poll_interval") = "good"
    BY <1>2, <1>4, <2>1 DEF Setting
  <2>5. \A s \in {"listen", "tls.cert_file", "tls.key_file"} : LastWord(s) = "good"
    BY <1>1, <1>2 DEF Setting
  <2>6. found.users # {}
    BY <1>1 DEF Validates
  <2> QED BY <1>3, <2>3, <2>4, <2>5, <2>6 DEF Equipped
<1>5. CASE cfg["backend"] = "gcp" /\ GcpValidates
  BY <1>1, <1>2, <1>3, <1>5 DEF Equipped, Setting, Validates, GcpValidates, Interval
<1>6. CASE /\ cfg["backend"] = "bitwarden" /\ BitwardenValidates
           /\ cfg["bitwarden.access_token"] = "good"
  BY <1>1, <1>2, <1>3, <1>6 DEF Equipped, Setting, Validates, BitwardenValidates, Interval
<1> QED BY <1>1, <1>4, <1>5, <1>6 DEF OpenedWell

\* A process that serves has everything its backend needs, from whichever layer.
THEOREM LifecycleConfigured == Spec => Configured
<1>1. ASSUME LifeInv, [Next]_vars PROVE stage = "listen" /\ stage' = "serving" => Equipped
  <2> SUFFICES ASSUME stage = "listen", stage' = "serving" PROVE Equipped
    OBVIOUS
  <2>1. Bind
    BY <1>1 DEF Next, Boot, LoadConfig, Validate, OpenFails, OpenAzure, OpenGcp, OpenBitwarden,
                AccessTokenLogin, NotifyContext, NewPolicy, NewServer, Opens, End, ShutDown, Drains,
                DrainTimesOut, Defer, Exit, Signal, ServeFails, RpcStep, Accept, HangUp, Uses,
                Answers, Returns, StreamEnds, PollEnds, Changes, vars
  <2> QED BY <1>1, <2>1, BindsEquipped
<1> QED BY <1>1, LifecycleInvariance, PTL DEF Spec, Configured

-----------------------------------------------------------------------------
(* How far main is from its end. *)

StagesLeft ==
    CASE stage = "load"      -> 11
      [] stage = "validate"  -> 10
      [] stage = "open"      -> 9
      [] stage = "login"     -> 8
      [] stage = "notify"    -> 7
      [] stage = "policy"    -> 6
      [] stage = "server"    -> 5
      [] stage = "listen"    -> 4
      [] stage = "serving"   -> 3
      [] stage = "draining"  -> 2
      [] stage = "returning" -> 1
      [] stage = "exited"    -> 0

\* Main is past a stage, or past one of its deferred calls.
Proceeds == StagesLeft' < StagesLeft \/ (stage' = stage /\ Len(defers') < Len(defers))

LEMMA BootProceeds == ASSUME LifeInv, Boot PROVE Proceeds
<1> USE DEF Either, Goes, Fails
<1>1. CASE LoadConfig
  BY <1>1 DEF LoadConfig, Proceeds, StagesLeft
<1>2. CASE Validate
  BY <1>2 DEF Validate, Proceeds, StagesLeft
<1>3. CASE OpenFails
  BY <1>3 DEF OpenFails, Proceeds, StagesLeft
<1>4. CASE OpenAzure \/ OpenGcp \/ OpenBitwarden
  <2>1. stage = "open" /\ stage' \in {"login", "notify"}
    BY <1>4 DEF OpenAzure, OpenGcp, OpenBitwarden, Opens
  <2> QED BY <2>1 DEF Proceeds, StagesLeft
<1>5. CASE AccessTokenLogin
  <2>1. stage = "login" /\ stage' \in {"notify", "returning"}
    BY <1>5 DEF AccessTokenLogin
  <2> QED BY <2>1 DEF Proceeds, StagesLeft
<1>6. CASE NotifyContext
  BY <1>6 DEF NotifyContext, Proceeds, StagesLeft
<1>7. CASE NewPolicy
  BY <1>7 DEF NewPolicy, Proceeds, StagesLeft
<1>8. CASE NewServer
  BY <1>8 DEF NewServer, Proceeds, StagesLeft
<1>9. CASE Bind
  BY <1>9 DEF Bind, Proceeds, StagesLeft
<1> QED BY <1>1, <1>2, <1>3, <1>4, <1>5, <1>6, <1>7, <1>8, <1>9 DEF Boot

LEMMA EndProceeds == ASSUME LifeInv, End \/ ServeFails PROVE Proceeds
<1>1. CASE ShutDown \/ Drains \/ DrainTimesOut \/ ServeFails
  <2>1. \/ stage = "serving" /\ stage' \in {"draining", "returning"}
        \/ stage = "draining" /\ stage' = "returning"
    BY <1>1 DEF ShutDown, Drains, DrainTimesOut, ServeFails, Goes, Fails
  <2> QED BY <2>1 DEF Proceeds, StagesLeft
<1>2. CASE Defer
  <2>1. defers \in {<<"close">>, <<"stop">>, <<"close", "stop">>} /\ defers' = Front(defers)
    BY <1>2 DEF Defer, LifeInv, TypeOK
  <2>2. \/ Len(defers) = 1 /\ defers' = <<>>
        \/ Len(defers) = 2 /\ defers' = <<"close">>
    BY <2>1, Deferrals
  <2>3. stage' = stage /\ Len(defers') < Len(defers)
    BY <1>2, <2>2 DEF Defer
  <2> QED BY <2>3 DEF Proceeds
<1>3. CASE Exit
  <2>1. stage = "returning" /\ stage' = "exited"
    BY <1>3 DEF Exit
  <2> QED BY <2>1 DEF Proceeds, StagesLeft
<1> QED BY <1>1, <1>2, <1>3 DEF End

LEMMA SignalProceeds == ASSUME LifeInv, Signal PROVE UNCHANGED <<stage, defers>> \/ Proceeds
<1>1. CASE \E n \in DOMAIN defers : defers[n] = "stop"
  BY <1>1 DEF Signal, bootVars
<1>2. CASE ~ \E n \in DOMAIN defers : defers[n] = "stop"
  <2>1. stage \in Stages \ {"exited"} /\ stage' = "exited"
    BY <1>2 DEF Signal, LifeInv, TypeOK
  <2>2. StagesLeft' = 0 /\ StagesLeft > 0
    BY <2>1 DEF StagesLeft, Stages
  <2> QED BY <2>2 DEF Proceeds
<1> QED BY <1>1, <1>2

\* Main gets on with every step of its own, and no other step sets it back.
Forward ==
    /\ Boot \/ End \/ ServeFails => Proceeds
    /\ UNCHANGED <<stage, defers>> \/ Proceeds

(* What there is to Stops besides fairness: main never goes back, every step *)
(* of its own and every failure brings it nearer to its end, and no call,    *)
(* client or signal takes it away from there (main.go:29-75, server.go:58-82). *)
THEOREM LifecycleForward == Spec => [][Forward]_vars
<1>1. ASSUME LifeInv, Next PROVE Forward
  <2>1. ASSUME NEW c \in Call, RpcStep(c) PROVE UNCHANGED <<stage, defers>>
    <3>1. PICK r \in RpcState : Changes(c, r)
      BY <1>1, <2>1, RpcShape
    <3> QED BY <3>1 DEF Changes, bootVars
  <2> QED BY <1>1, <2>1, BootProceeds, EndProceeds, SignalProceeds DEF Next, Forward
<1>2. LifeInv /\ [Next]_vars => [Forward]_vars
  BY <1>1
<1> QED BY <1>2, LifecycleInvariance, PTL DEF Spec
=============================================================================
