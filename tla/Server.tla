-------------------------------- MODULE Server --------------------------------
(***************************************************************************)
(* The unary RPCs, several at a time, and the life of the process that     *)
(* serves them: the interceptor's authenticate (grpcserver/auth.go), the   *)
(* handlers GetSecret, PutSecret, ListSecrets and DeleteSecret             *)
(* (grpcserver/handlers.go), the policy and audit layer (app/service.go),  *)
(* the drain of Server.Listen (grpcserver/server.go) and the end of run    *)
(* (cmd/vaultlet/main.go).                                                 *)
(*                                                                         *)
(* The SecretStore behind the port is reduced to what the adapters have in *)
(* common: it answers as they do, late, or never, and somebody else may be *)
(* changing it.  A store is the set of keys that hold a secret.            *)
(***************************************************************************)
EXTENDS Policy

CONSTANTS
    Call,           \* the RPCs that may come in
    Key,            \* the keys in use
    NsOf(_),        \* the namespace of a key
    Malformed,      \* stands for a key or namespace that does not parse
    User,           \* the configured users
    Request,        \* the requests clients may make
    PolicyChoices,  \* the policies the server may have been configured with
    MaxOutside      \* bound: changes made to the store behind the server's back

Method == {"get", "put", "list", "delete"}

ASSUME ServerAssumption ==
    /\ User \subseteq Principal
    /\ PolicyChoices \subseteq Policies
    /\ Malformed \notin Key \cup Namespace
    /\ \A k \in Key : NsOf(k) \in Namespace
    /\ MaxOutside \in Nat
    /\ \A r \in Request :
          /\ r.method \in Method
          /\ r.username \in Principal
          /\ r.matches \in BOOLEAN
          /\ r.target \in (IF r.method = "list" THEN Namespace ELSE Key) \cup {Malformed}
          /\ r.extra \in {"none", "expectedVersion", "pageToken", "emptyValue"}

VARIABLES
    policy,     \* compiled at boot, never changed
    writable,   \* the backend's allow_writes
    call,       \* what has become of every call
    store,      \* the keys that hold a secret
    outside,    \* changes made by others, for the bound
    effects,    \* history: the calls that have changed the store
    server,     \* the life of the process
    abrupt      \* Listen came back without waiting for the calls in progress

configVars == <<policy, writable>>
storeVars  == <<store, outside, effects>>
lifeVars   == <<server, abrupt>>
vars == <<configVars, call, storeVars, lifeVars>>

Idle(r) ==
    [request |-> r, at |-> "new", answer |-> "none", status |-> "none", audits |-> <<>>,
     unread |-> {}, listing |-> {}, always |-> {}, ever |-> {}]

InProgress(c) == call[c].at \in {"accepted", "store", "written", "answered"}

-----------------------------------------------------------------------------
(* The interceptor and the handler, up to the call of the store. *)

\* gRPC starts the handler's goroutine; it does so only while the server serves.
Accept(c) ==
    /\ server = "serving"
    /\ call[c].at = "new"
    /\ call' = [call EXCEPT ![c].at = "accepted"]
    /\ UNCHANGED <<configVars, storeVars, lifeVars>>

Return(c, status) ==
    call' = [call EXCEPT ![c].at = "returned", ![c].status = status]

\* The password matches the hash it was compared with (dummyHash, for a name
\* that is not configured) and the name is configured.
authenticate(r) == r.matches /\ r.username \in User

Reject(c) ==
    /\ call[c].at = "accepted"
    /\ ~authenticate(call[c].request)
    /\ Return(c, "Unauthenticated")
    /\ UNCHANGED <<configVars, storeVars, lifeVars>>

\* Why a handler answers a request by itself.
Refusal(r) ==
    IF r.target = Malformed THEN "InvalidArgument"
    ELSE IF r.method \in {"put", "delete"} /\ r.extra = "expectedVersion" THEN "Unimplemented"
    ELSE IF r.method = "list" /\ r.extra = "pageToken" THEN "InvalidArgument"
    ELSE "none"

Refuse(c) ==
    /\ call[c].at = "accepted"
    /\ authenticate(call[c].request)
    /\ Refusal(call[c].request) # "none"
    /\ Return(c, Refusal(call[c].request))
    /\ UNCHANGED <<configVars, storeVars, lifeVars>>

Permitted(r) ==
    IF r.method = "list"
    THEN canList(policy, r.username, r.target)
    ELSE allows(policy, r.username, r.method, NsOf(r.target))

Served(c) ==
    /\ call[c].at = "accepted"
    /\ authenticate(call[c].request)
    /\ Refusal(call[c].request) = "none"

audit(c, decision, outcome) ==
    Append(call[c].audits,
           [action |-> call[c].request.method, decision |-> decision, outcome |-> outcome])

Deny(c) ==
    /\ Served(c)
    /\ ~Permitted(call[c].request)
    /\ call' = [call EXCEPT ![c].at = "returned", ![c].status = "PermissionDenied",
                            ![c].audits = audit(c, "deny", "denied")]
    /\ UNCHANGED <<configVars, storeVars, lifeVars>>

Admit(c) ==
    /\ Served(c)
    /\ Permitted(call[c].request)
    /\ call' = [call EXCEPT ![c].at = "store",
                            ![c].unread = IF call[c].request.method = "list" THEN Key ELSE {},
                            ![c].always = store, ![c].ever = store]
    /\ UNCHANGED <<configVars, storeVars, lifeVars>>

-----------------------------------------------------------------------------
(* The store. *)

Asked(c, method) == call[c].at = "store" /\ call[c].request.method = method

Answer(c, outcome) ==
    /\ call' = [call EXCEPT ![c].at = "answered", ![c].answer = outcome]
    /\ UNCHANGED <<configVars, storeVars, lifeVars>>

\* The store changes, under every listing that is going on.
Becomes(keys, calls) ==
    /\ store' = keys
    /\ call' = [c \in Call |-> IF Asked(c, "list")
                               THEN [calls[c] EXCEPT !.always = @ \cap keys, !.ever = @ \cup keys]
                               ELSE calls[c]]

\* The store refuses to write.
StoreDeclines(c) ==
    \/ /\ Asked(c, "put") \/ Asked(c, "delete")
       /\ ~writable
       /\ Answer(c, "readOnly")
    \/ /\ Asked(c, "put")
       /\ writable
       /\ call[c].request.extra = "emptyValue"
       /\ Answer(c, "emptyValue")

\* A Put to Secret Manager may find that the secret it writes to has been deleted.
StoreMisses(c) ==
    /\ \/ Asked(c, "get")
       \/ writable /\ (Asked(c, "delete") \/ Asked(c, "put"))
    /\ call[c].request.extra # "emptyValue"
    /\ call[c].request.target \notin store
    /\ Answer(c, "notFound")

StoreFinds(c) ==
    /\ Asked(c, "get")
    /\ call[c].request.target \in store
    /\ Answer(c, "success")

\* A put or a delete takes effect.  The adapter is not done by then: the response
\* is on its way, or Azure has still to purge what it deleted.
StoreWrites(c) ==
    /\ writable
    /\ LET key == call[c].request.target
           written == [call EXCEPT ![c].at = "written"]
       IN  \/ /\ Asked(c, "put")
              /\ call[c].request.extra # "emptyValue"
              /\ Becomes(store \cup {key}, written)
           \/ /\ Asked(c, "delete")
              /\ key \in store
              /\ Becomes(store \ {key}, written)
    /\ effects' = effects \cup {c}
    /\ UNCHANGED <<configVars, outside, lifeVars>>

\* The answer to what has taken effect may be an error all the same.
StoreConfirms(c) ==
    /\ call[c].at = "written"
    /\ \E outcome \in {"success", "failed"} : Answer(c, outcome)

\* List looks at the keys one after another, at those within the namespace.
StoreReads(c, k) ==
    /\ Asked(c, "list")
    /\ k \in call[c].unread
    /\ call' = [call EXCEPT ![c].unread = @ \ {k},
                            ![c].listing =
                                IF k \in store /\ Contains(call[c].request.target, NsOf(k))
                                THEN @ \cup {k} ELSE @]
    /\ UNCHANGED <<configVars, storeVars, lifeVars>>

StoreLists(c) ==
    /\ Asked(c, "list")
    /\ call[c].unread = {}
    /\ Answer(c, "success")

\* The backend cannot be reached, it answers with an error, the deadline has
\* passed, or the server was stopped.
StoreFails(c) ==
    /\ call[c].at = "store"
    /\ Answer(c, "failed")

\* Somebody edits the store in the backend's own UI, or another replica does.
Outsider(k) ==
    /\ server # "exited"
    /\ outside < MaxOutside
    /\ outside' = outside + 1
    /\ Becomes(IF k \in store THEN store \ {k} ELSE store \cup {k}, call)
    /\ UNCHANGED <<configVars, effects, lifeVars>>

-----------------------------------------------------------------------------
(* The way back: Service audits, the handler maps the error to a status. *)

StatusOf(method, answer) ==
    CASE answer = "success"    -> "OK"
      [] answer = "notFound" /\ method # "put" -> "NotFound"
      [] answer = "readOnly"   -> "FailedPrecondition"
      [] answer = "emptyValue" -> "InvalidArgument"
      [] OTHER                 -> "Internal"

\* Mutant: only successes are audited.
ConcludeSilently(c) ==
    /\ call[c].at = "answered"
    /\ LET r == call[c].request
       IN  call' = [call EXCEPT ![c].at = "returned",
                                ![c].status = StatusOf(call[c].request.method, call[c].answer),
                                ![c].audits = IF call[c].answer = "success"
                                              THEN audit(c, "allow", "success") ELSE @,
                                ![c].listing = {k \in @ : listable(policy, r.username, r.target, NsOf(k))}]
    /\ UNCHANGED <<configVars, storeVars, lifeVars>>

Conclude(c) ==
    /\ call[c].at = "answered"
    /\ LET r == call[c].request
           outcome == IF call[c].answer = "success" THEN "success" ELSE "error"
       IN  call' = [call EXCEPT ![c].at = "returned",
                                ![c].status = StatusOf(call[c].request.method, call[c].answer),
                                ![c].audits = audit(c, "allow", outcome),
                                ![c].listing = {k \in @ : listable(policy, r.username, r.target, NsOf(k))}]
    /\ UNCHANGED <<configVars, storeVars, lifeVars>>

-----------------------------------------------------------------------------
(* Listen after a signal, and run after Listen. *)

Signal ==
    /\ server = "serving"
    /\ server' = "draining"
    /\ UNCHANGED <<configVars, call, storeVars, abrupt>>

\* Mutant: Stop is called at once, there is no GracefulStop.
DrainsNothing ==
    /\ server = "draining"
    /\ server' = "stopped"
    /\ UNCHANGED <<configVars, call, storeVars, abrupt>>

\* GracefulStop waits for every handler.
Drains ==
    /\ server = "draining"
    /\ \A c \in Call : ~InProgress(c)
    /\ server' = "stopped"
    /\ UNCHANGED <<configVars, call, storeVars, abrupt>>

\* shutdownTimeout passes.  Stop waits for no handler.
DrainTimesOut ==
    /\ server = "draining"
    /\ server' = "stopped"
    /\ abrupt' = TRUE
    /\ UNCHANGED <<configVars, call, storeVars>>

\* Serve returns an error, and so does Listen.
ServeFails ==
    /\ server = "serving"
    /\ server' = "stopped"
    /\ abrupt' = TRUE
    /\ UNCHANGED <<configVars, call, storeVars>>

\* run returns and the process ends, and with it every goroutine.
Exit ==
    /\ server = "stopped"
    /\ server' = "exited"
    /\ call' = [c \in Call |-> IF InProgress(c) THEN [call[c] EXCEPT !.at = "killed"] ELSE call[c]]
    /\ UNCHANGED <<configVars, storeVars, abrupt>>

-----------------------------------------------------------------------------
Init ==
    /\ policy \in PolicyChoices
    /\ writable \in BOOLEAN
    /\ \E requests \in [Call -> Request] : call = [c \in Call |-> Idle(requests[c])]
    /\ store \in SUBSET Key
    /\ outside = 0
    /\ effects = {}
    /\ server = "serving"
    /\ abrupt = FALSE

HandlerStep(c) == Reject(c) \/ Refuse(c) \/ Deny(c) \/ Admit(c) \/ Conclude(c)
StoreStep(c) ==
    \/ StoreDeclines(c) \/ StoreMisses(c) \/ StoreFinds(c) \/ StoreWrites(c)
    \/ StoreConfirms(c) \/ StoreLists(c) \/ StoreFails(c)
    \/ \E k \in Key : StoreReads(c, k)
Shutdown == Drains \/ DrainTimesOut \/ Exit

Next ==
    \/ \E c \in Call : Accept(c) \/ HandlerStep(c) \/ StoreStep(c)
    \/ \E k \in Key : Outsider(k)
    \/ Signal \/ ServeFails \/ Shutdown

Spec == Init /\ [][Next]_vars

-----------------------------------------------------------------------------
TypeOK ==
    /\ policy \in PolicyChoices
    /\ writable \in BOOLEAN
    /\ \A c \in Call :
          /\ call[c].request \in Request
          /\ call[c].at \in {"new", "accepted", "store", "written", "answered", "returned", "killed"}
          /\ call[c].answer \in {"none", "success", "notFound", "readOnly", "emptyValue", "failed"}
          /\ call[c].status \in {"none", "OK", "Unauthenticated", "InvalidArgument", "Unimplemented",
                                 "PermissionDenied", "NotFound", "FailedPrecondition", "Internal"}
          /\ call[c].unread \cup call[c].listing \cup call[c].always \cup call[c].ever \subseteq Key
    /\ store \subseteq Key
    /\ outside \in 0..MaxOutside
    /\ effects \subseteq Call
    /\ server \in {"serving", "draining", "stopped", "exited"}
    /\ abrupt \in BOOLEAN

\* What the rules of a policy mean, said without the code's operators.
Within(ns, deeper) == \E d \in 0..Len(deeper) : SubSeq(deeper, 1, d) = ns
Granted(user, action, ns) ==
    \E r \in policy[user] : action \in r.actions /\ Within(r.namespace, ns)

\* The store is changed, and anything about a key (that it is there, that it is
\* not, that the backend is read-only) is told, only for a user who is configured,
\* gave the right password, and was granted the action for that key.
Authorized ==
    \A c \in Call :
        LET r == call[c].request
        IN  c \in effects \/ call[c].status \in {"OK", "NotFound", "FailedPrecondition"} =>
              /\ r.matches /\ r.username \in User
              /\ r.method = "list" \/ Granted(r.username, r.method, NsOf(r.target))

\* A listing leaves out no secret that was there all along and that the caller may
\* list, and shows none that the caller may not list, that lies elsewhere, or that
\* was not there at any moment of the call, whatever changes the store meanwhile.
\* Only a caller who may list nothing at all there is refused.
ExactListing ==
    \A c \in Call :
        LET r == call[c].request
            may == {k \in Key : Within(r.target, NsOf(k)) /\ Granted(r.username, "list", NsOf(k))}
        IN  r.method = "list" =>
              /\ call[c].status = "OK" =>
                    /\ call[c].always \cap may \subseteq call[c].listing
                    /\ call[c].listing \subseteq call[c].ever \cap may
              /\ call[c].status = "PermissionDenied" => may = {}

\* Every call that got as far as the policy leaves exactly one audit record, which
\* agrees with the status the caller gets; and a caller told that nothing was done
\* has changed nothing.
Accounted ==
    \A c \in Call :
        LET records == call[c].audits
            status == call[c].status
        IN  /\ call[c].at # "returned" => records = <<>>
            /\ call[c].at = "returned" =>
                  IF ~authenticate(call[c].request) \/ Refusal(call[c].request) # "none"
                  THEN records = <<>>
                  ELSE /\ Len(records) = 1
                       /\ (records[1].decision = "deny") = (status = "PermissionDenied")
                       /\ (records[1].outcome = "success") = (status = "OK")
            /\ c \in effects => status \in {"none", "OK", "Internal"}

\* When Listen comes back from a drain in time, no accepted call was cut short,
\* and every change made through the server is in the audit log.
CleanDrain ==
    server \in {"stopped", "exited"} /\ ~abrupt =>
        \A c \in Call :
            /\ ~InProgress(c) /\ call[c].at # "killed"
            /\ c \in effects =>
                  \E n \in DOMAIN call[c].audits : call[c].audits[n].decision = "allow"

\* README: "One audit log. Every read, denial and change, in one place".
AuditTrail == server = "exited" => \A c \in effects : call[c].audits # <<>>
=============================================================================
