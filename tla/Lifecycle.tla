------------------------------- MODULE Lifecycle -------------------------------
(***************************************************************************)
(* The process from its first line to its exit code: run and newStore      *)
(* (cmd/vaultlet/main.go), the merging and the checks of the configuration *)
(* (internal/config/config.go and the config.go of every adapter), the     *)
(* opening of the store (New of every adapter), New and Listen of the      *)
(* server (grpcserver/server.go), and the calls deferred by run.           *)
(*                                                                         *)
(* Of an RPC there is left what a shutdown meets: a handler, the store it  *)
(* may be inside, and for a watch the goroutine of Poll, which outlives    *)
(* the handler and for which GracefulStop does not wait.                   *)
(***************************************************************************)
EXTENDS FiniteSets, SequencesExt, TLC

CONSTANTS
    Call,           \* the RPCs that may come in
    Configuration   \* what may be found in the three places settings come from

Backend == {"bitwarden", "azure", "gcp"}

\* The settings boot looks at; the others are passed on as they are.
Setting == {"backend", "listen", "tls.cert_file", "tls.key_file",
            "bitwarden.access_token", "bitwarden.org_id", "bitwarden.project_id",
            "bitwarden.poll_interval",
            "azure.vault_url", "azure.tenant_id", "azure.client_id", "azure.client_secret",
            "azure.poll_interval",
            "gcp.project_id", "gcp.poll_interval"}

(***************************************************************************)
(* "" is what a setting is without a value.  "bad" is one that boot finds  *)
(* fault with: an address that cannot be bound, files that are no key      *)
(* pair, a token that is not accepted, a URL that is not https, an         *)
(* interval shorter than a second, zero and negative ones included.        *)
(* "garbled" does not parse.  A backend is named, or is "other".           *)
(***************************************************************************)
Choice == Backend \cup {"", "good", "bad", "garbled", "other"}

\* auth.users is a list, which only the YAML file can hold.
Rule == [namespace : {"", "*", "valid", "malformed"}, actions : SUBSET {"known", "unknown"}]
UserConfig == [username : STRING, password_hash : {"", "given"}, allow : SUBSET Rule]

Says(layer) == DOMAIN layer \subseteq Setting /\ \A s \in DOMAIN layer : layer[s] \in Choice

ASSUME LifecycleAssumption ==
    \A f \in Configuration :
        /\ f.yamlReads \in BOOLEAN /\ f.dotenvReads \in BOOLEAN
        /\ Says(f.yaml) /\ Says(f.dotenv) /\ Says(f.environment)
        /\ \A u \in f.users : /\ DOMAIN u = {"username", "password_hash", "allow"}
                              /\ u.allow \subseteq Rule

VARIABLES
    found,      \* the configuration found; a missing file says nothing
    stage,      \* what run is about to do
    defers,     \* the calls run has deferred, the last one runs first
    handle,     \* the client of the backend, if it is one that wants closing
    told,       \* the context of the signals has ended
    result,     \* what becomes of the process: exit code 0, 1 or a signal's
    abrupt,     \* Listen came back without waiting for the calls in progress
    rpc         \* what has become of every RPC

bootVars == <<found, defers, handle>>
vars == <<bootVars, stage, told, result, abrupt, rpc>>

-----------------------------------------------------------------------------
(* The configuration. *)

\* k.Load of a layer on top of those below.
Over(layer, below) ==
    [s \in DOMAIN layer \cup DOMAIN below |-> IF s \in DOMAIN layer THEN layer[s] ELSE below[s]]

Loaded(f) == Over(f.environment, Over(f.dotenv, f.yaml))

\* Mutant: .env has the last word.
LoadDotenvLast(f) ==
    LET set == Over(f.dotenv, Over(f.environment, f.yaml))
    IN  [s \in Setting |-> IF s \in DOMAIN set THEN set[s] ELSE ""]

\* Each layer overrides what came before, with an empty value too.
Load(f) == [s \in Setting |-> IF s \in DOMAIN Loaded(f) THEN Loaded(f)[s] ELSE ""]

cfg == Load(found)

Remembered(backend) ==
    [yamlReads |-> TRUE, dotenvReads |-> TRUE, users |-> {},
     yaml |-> "backend" :> backend, dotenv |-> <<>>, environment |-> <<>>]

\* The sections of the backends that are not used are decoded with the rest.
\* An interval that is set to nothing is no interval.
Unmarshals(f) ==
    \A s \in DOMAIN Loaded(f) :
        /\ Loaded(f)[s] # "garbled"
        /\ s \in {"bitwarden.poll_interval", "azure.poll_interval", "gcp.poll_interval"}
              => Loaded(f)[s] # ""

Validates ==
    /\ \A s \in {"backend", "listen", "tls.cert_file", "tls.key_file"} : cfg[s] # ""
    /\ found.users # {}
    /\ \A u \in found.users :
          /\ u.username # "" /\ u.password_hash # "" /\ u.allow # {}
          /\ \A rule \in u.allow : rule.namespace # ""

\* At least a second.
Interval(s) == cfg[s] = "good"

\* A service principal is configured in full, or not at all.
PrincipalIsWhole ==
    LET given == {s \in {"azure.tenant_id", "azure.client_id", "azure.client_secret"} : cfg[s] # ""}
    IN  Cardinality(given) \in {0, 3}

BitwardenValidates ==
    /\ \A s \in {"bitwarden.access_token", "bitwarden.project_id", "bitwarden.org_id"} :
          cfg[s] # ""
    /\ Interval("bitwarden.poll_interval")

AzureValidates ==
    /\ cfg["azure.vault_url"] = "good"
    /\ PrincipalIsWhole
    /\ Interval("azure.poll_interval")

GcpValidates == cfg["gcp.project_id"] # "" /\ Interval("gcp.poll_interval")

-----------------------------------------------------------------------------
(* run, up to Listen. *)

Keeps == UNCHANGED <<found, told, abrupt, rpc>>

\* run returns an error.  What it has deferred by then is still to come.
Fails == stage' = "returning" /\ result' = "error"
Goes(next) == stage' = next /\ UNCHANGED result
Either(ok, next) == IF ok THEN Goes(next) ELSE Fails

LoadConfig ==
    /\ stage = "load"
    /\ Either(found.yamlReads /\ found.dotenvReads /\ Unmarshals(found), "validate")
    /\ Keeps /\ UNCHANGED <<defers, handle>>

Validate ==
    /\ stage = "validate"
    /\ Either(Validates, "open")
    /\ Keeps /\ UNCHANGED <<defers, handle>>

Opens(backend) == stage = "open" /\ cfg["backend"] = backend

\* newStore, or the New it calls, returns an error: the backend has no adapter, its
\* section is refused, or its SDK cannot make a client.
OpenFails ==
    /\ stage = "open"
    /\ Fails
    /\ Keeps /\ UNCHANGED <<defers, handle>>

\* Mutant: the result of newStore is not probed for a Close.
DeferNothing == UNCHANGED defers

DeferClose == defers' = Append(defers, "close")

\* Azure's client asks the vault nothing, and its Store has no Close.
OpenAzure ==
    /\ Opens("azure") /\ AzureValidates
    /\ Goes("notify")
    /\ Keeps /\ UNCHANGED <<defers, handle>>

OpenGcp ==
    /\ Opens("gcp") /\ GcpValidates
    /\ handle' = "open"
    /\ Goes("notify") /\ DeferClose
    /\ Keeps

OpenBitwarden ==
    /\ Opens("bitwarden") /\ BitwardenValidates
    /\ handle' = "open"
    /\ Goes("login")
    /\ Keeps /\ UNCHANGED defers

\* Only Bitwarden logs in at boot, and New closes the client when it cannot.
AccessTokenLogin ==
    /\ stage = "login"
    /\ \/ Fails /\ handle' = "closed" /\ UNCHANGED defers
       \/ /\ cfg["bitwarden.access_token"] = "good"
          /\ Goes("notify") /\ DeferClose /\ UNCHANGED handle
    /\ Keeps

\* From here on a signal is caught.
NotifyContext ==
    /\ stage = "notify"
    /\ Goes("policy")
    /\ defers' = Append(defers, "stop")
    /\ Keeps /\ UNCHANGED handle

NewPolicy ==
    /\ stage = "policy"
    /\ Either(\A u \in found.users : \A rule \in u.allow :
                  rule.namespace # "malformed" /\ "unknown" \notin rule.actions,
              "server")
    /\ Keeps /\ UNCHANGED <<defers, handle>>

NewServer ==
    /\ stage = "server"
    /\ Either(cfg["tls.cert_file"] = "good" /\ cfg["tls.key_file"] = "good", "listen")
    /\ Keeps /\ UNCHANGED <<defers, handle>>

\* Another process may have the address.  From here on the configuration is not
\* looked at; the model keeps the name of the backend and forgets the rest.
Bind ==
    /\ stage = "listen"
    /\ \/ Fails /\ UNCHANGED found
       \/ /\ cfg["listen"] = "good"
          /\ Goes("serving")
          /\ found' = Remembered(cfg["backend"])
    /\ UNCHANGED <<told, abrupt, rpc, defers, handle>>

-----------------------------------------------------------------------------
(* Signals, and the end of Listen and run. *)

\* NotifyContext takes note of the first one and swallows the others.  Before it
\* is called, and after stop, a signal ends the process there and then.
Signal ==
    /\ stage # "exited"
    /\ IF \E n \in DOMAIN defers : defers[n] = "stop"
       THEN told' = TRUE /\ UNCHANGED <<stage, result, rpc>>
       ELSE /\ stage' = "exited" /\ result' = "killed" /\ UNCHANGED told
            /\ rpc' = [c \in Call |-> [rpc[c] EXCEPT !.at = "ended", !.using = FALSE]]
    /\ UNCHANGED <<bootVars, abrupt>>

\* Listen sees that the context has ended, maybe as soon as it looks.
ShutDown ==
    /\ stage = "serving" /\ told
    /\ Goes("draining")
    /\ UNCHANGED <<bootVars, told, abrupt, rpc>>

\* A handler is running.
InProgress(c) == rpc[c].at \in {"accepted", "answered", "streaming"}

\* Mutant: Listen does not wait for GracefulStop.
DrainsAtOnce ==
    /\ stage = "draining"
    /\ stage' = "returning" /\ result' = "ok"
    /\ UNCHANGED <<bootVars, told, abrupt, rpc>>

\* GracefulStop waits for the handlers, and for nothing else.
Drains ==
    /\ stage = "draining"
    /\ \A c \in Call : ~InProgress(c)
    /\ stage' = "returning" /\ result' = "ok"
    /\ UNCHANGED <<bootVars, told, abrupt, rpc>>

\* Mutant: the drain has no deadline.
NoDeadline == FALSE

\* shutdownTimeout passes.  Stop ends the contexts of the calls and waits for none.
DrainTimesOut ==
    /\ stage = "draining"
    /\ stage' = "returning" /\ result' = "ok"
    /\ abrupt' = TRUE
    /\ rpc' = [c \in Call |-> IF InProgress(c) THEN [rpc[c] EXCEPT !.over = TRUE] ELSE rpc[c]]
    /\ UNCHANGED <<bootVars, told>>

\* Serve returns an error, and so does Listen; nothing is stopped.
ServeFails ==
    /\ stage = "serving"
    /\ Fails
    /\ abrupt' = TRUE
    /\ UNCHANGED <<bootVars, told, rpc>>

\* run returns: stop, then Close.
Defer ==
    /\ stage = "returning" /\ defers # <<>>
    /\ defers' = Front(defers)
    /\ handle' = IF Last(defers) = "close" THEN "closed" ELSE handle
    /\ UNCHANGED <<found, stage, told, result, abrupt, rpc>>

\* main returns or calls os.Exit, and every goroutine is gone.
Exit ==
    /\ stage = "returning" /\ defers = <<>>
    /\ stage' = "exited"
    /\ rpc' = [c \in Call |-> [rpc[c] EXCEPT !.at = "ended", !.using = FALSE]]
    /\ UNCHANGED <<bootVars, told, result, abrupt>>

-----------------------------------------------------------------------------
(* The RPCs. *)

Idle == [at |-> "new", kind |-> "unary", using |-> FALSE, over |-> FALSE]

Changes(c, r) == rpc' = [rpc EXCEPT ![c] = r] /\ UNCHANGED <<bootVars, stage, told, result, abrupt>>

Accept(c) ==
    /\ stage = "serving"
    /\ rpc[c].at = "new"
    /\ \E kind \in {"unary", "watch"} : Changes(c, [Idle EXCEPT !.at = "accepted", !.kind = kind])

\* The client cancels, its deadline passes, or its connection breaks.
HangUp(c) ==
    /\ InProgress(c) /\ ~rpc[c].over
    /\ Changes(c, [rpc[c] EXCEPT !.over = TRUE])

\* A goroutine of the call enters the store.  A poll may do so although its context
\* has ended: the ticker may have been ready too.  Bitwarden's Store refuses then,
\* and the other backends' clients look at the context themselves.
Uses(c) ==
    /\ rpc[c].at \in {"accepted", "streaming", "orphaned"} /\ ~rpc[c].using
    /\ rpc[c].over => cfg["backend"] # "bitwarden"
    /\ Changes(c, [rpc[c] EXCEPT !.using = TRUE])

\* Poll takes its first snapshot in the handler's goroutine.
Answers(c) ==
    /\ rpc[c].using
    /\ \E at \in {rpc[c].at, "answered", "streaming"} :
          /\ (rpc[c].at = "accepted") = (at # rpc[c].at)
          /\ at = "streaming" => rpc[c].kind = "watch"
          /\ Changes(c, [rpc[c] EXCEPT !.using = FALSE, !.at = at])

\* Turned away before the store is asked, or done.
Returns(c) ==
    /\ rpc[c].at \in {"accepted", "answered"} /\ ~rpc[c].using
    /\ Changes(c, [rpc[c] EXCEPT !.at = "ended"])

\* The handler of a watch does not wait for Poll, which may be inside a List.
StreamEnds(c) ==
    /\ rpc[c].at = "streaming" /\ rpc[c].over
    /\ Changes(c, [rpc[c] EXCEPT !.at = "orphaned"])

PollEnds(c) ==
    /\ rpc[c].at = "orphaned" /\ ~rpc[c].using
    /\ Changes(c, [rpc[c] EXCEPT !.at = "ended"])

-----------------------------------------------------------------------------
Init ==
    /\ found \in Configuration
    /\ stage = "load"
    /\ defers = <<>>
    /\ handle = "none"
    /\ told = FALSE
    /\ result = "none"
    /\ abrupt = FALSE
    /\ rpc = [c \in Call |-> Idle]

Boot ==
    \/ LoadConfig \/ Validate
    \/ OpenFails \/ OpenAzure \/ OpenGcp \/ OpenBitwarden \/ AccessTokenLogin
    \/ NotifyContext \/ NewPolicy \/ NewServer \/ Bind
End == ShutDown \/ Drains \/ DrainTimesOut \/ Defer \/ Exit
RpcStep(c) ==
    \/ Accept(c) \/ HangUp(c) \/ Uses(c) \/ Answers(c) \/ Returns(c)
    \/ StreamEnds(c) \/ PollEnds(c)

Next == Boot \/ End \/ Signal \/ ServeFails \/ \E c \in Call : RpcStep(c)

(***************************************************************************)
(* The main goroutine gets on with what is local to the machine: the rest  *)
(* of boot after NotifyContext, and the way out, for which Listen has a    *)
(* timer.  Nothing is assumed of clients and backends: a watch may stay    *)
(* open and a call of the store may never come back.                       *)
(***************************************************************************)
Fairness == WF_vars(NewPolicy \/ NewServer \/ Bind) /\ WF_vars(End)

Spec == Init /\ [][Next]_vars /\ Fairness

-----------------------------------------------------------------------------
Stages == {"load", "validate", "open", "login", "notify", "policy", "server", "listen",
           "serving", "draining", "returning", "exited"}

TypeOK ==
    /\ found \in Configuration \cup {Remembered(b) : b \in Backend}
    /\ stage \in Stages
    /\ defers \in {<<>>, <<"close">>, <<"stop">>, <<"close", "stop">>}
    /\ handle \in {"none", "open", "closed"}
    /\ told \in BOOLEAN /\ abrupt \in BOOLEAN
    /\ result \in {"none", "ok", "error", "killed"}
    /\ rpc \in [Call -> [at : {"new", "accepted", "answered", "streaming", "orphaned", "ended"},
                         kind : {"unary", "watch"}, using : BOOLEAN, over : BOOLEAN]]

(* The client of the backend is closed under nobody, unless Listen did not   *)
(* wait (main.go:44).  The one exception is a poll whose watch has ended:    *)
(* GracefulStop waits for handlers, and a List of Poll may outlive its own.  *)
StoreOutlivesCalls ==
    \A c \in Call :
        (handle = "closed" /\ rpc[c].using)
            => abrupt \/ (rpc[c].kind = "watch" /\ rpc[c].at = "orphaned" /\ rpc[c].over)

(* However run comes back - boot fails at any step, Serve fails, the drain   *)
(* is over or out of time - a client that was made has been closed by then.  *)
NothingLeftOpen == stage = "exited" /\ result # "killed" => handle # "open"

\* What the last of YAML file, .env and environment to mention it says of a setting.
LastWord(s) ==
    IF s \in DOMAIN found.environment THEN found.environment[s]
    ELSE IF s \in DOMAIN found.dotenv THEN found.dotenv[s]
    ELSE IF s \in DOMAIN found.yaml   THEN found.yaml[s]
    ELSE ""

Equipped ==
    LET good(settings)  == \A s \in settings : LastWord(s) = "good"
        given(settings) == \A s \in settings : LastWord(s) # ""
        principal == {"azure.tenant_id", "azure.client_id", "azure.client_secret"}
    IN  /\ good({"listen", "tls.cert_file", "tls.key_file"})
        /\ CASE LastWord("backend") = "bitwarden" ->
                   /\ good({"bitwarden.access_token", "bitwarden.poll_interval"})
                   /\ given({"bitwarden.org_id", "bitwarden.project_id"})
             [] LastWord("backend") = "azure" ->
                   /\ good({"azure.vault_url", "azure.poll_interval"})
                   /\ given(principal) \/ \A s \in principal : ~given({s})
             [] LastWord("backend") = "gcp" ->
                   good({"gcp.poll_interval"}) /\ given({"gcp.project_id"})
             [] OTHER -> FALSE
        /\ found.users # {}
        /\ \A u \in found.users :
              /\ u.password_hash # ""
              /\ \A rule \in u.allow :
                    rule.namespace \in {"*", "valid"} /\ rule.actions \subseteq {"known"}

(* A process that serves has everything its backend needs, as the last of    *)
(* YAML file, .env and environment to mention it has it: no interval that    *)
(* time.NewTicker would panic at (poll.go:67), no service principal by       *)
(* halves ("very confusing", azure/config.go:37), no rule that would be a    *)
(* "silent denial" (policy.go:32), no user without a password.               *)
Configured == [][stage = "listen" /\ stage' = "serving" => Equipped]_vars

(* Once a signal has been caught the process ends, though watches stay open  *)
(* and the store never answers (server.go:77), and it ends with the client   *)
(* of the backend closed, unless a signal after stop kills it meanwhile.     *)
Stops == told ~> (stage = "exited" /\ (handle # "open" \/ result = "killed"))
===============================================================================
