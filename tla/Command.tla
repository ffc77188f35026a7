-------------------------------- MODULE Command --------------------------------
(***************************************************************************)
(* One command of the client, `vaultlet get`, `put`, `list` or `delete`,   *)
(* from its arguments to its exit code, and the server it talks to among   *)
(* other clients: run (cmd/vaultlet-cli/main.go), the RunE of the command, *)
(* readValue, connect, callContext and rpcError                            *)
(* (internal/adapters/driving/cli).  The command makes one RPC, Mine.      *)
(* `vaultlet watch` is in WatchStream.                                     *)
(*                                                                         *)
(* The request Mine makes is that of the command line: its method, key or  *)
(* namespace, the user of --token, --expected-version, and an empty value. *)
(***************************************************************************)
EXTENDS Server

CONSTANTS
    Mine,       \* the RPC of the command
    Options     \* the flags that all commands share

ASSUME CommandAssumption ==
    /\ Mine \in Call
    /\ \A o \in Options :
          /\ o.output \in {"text", "json", "unknown"}
          /\ o.timed \in BOOLEAN        \* --timeout is more than zero
          \* "conflicting" flags, or a --ca that is no certificate; "mismatched" is
          \* --insecure, or a certificate that does not verify.
          /\ o.transport \in {"TLS", "conflicting", "mismatched"}

VARIABLES
    options,    \* the flags
    cli,        \* where the command is
    sent,       \* the request has left for the server
    said,       \* what it reports
    exit        \* the end of the process

commandVars == <<options, cli, sent, said, exit>>
serverVars  == vars
allVars     == <<vars, commandVars>>

command == call[Mine].request

-----------------------------------------------------------------------------
(* Up to the call. *)

Ends(report, code) ==
    /\ cli' = "exited"
    /\ said' = report /\ exit' = code
    /\ UNCHANGED <<serverVars, options, sent>>

Goes(next) ==
    /\ cli' = next
    /\ UNCHANGED <<serverVars, options, sent, said, exit>>

\* validateOutput, which put and delete do not call.
OutputAccepted == command.method \in {"get", "list"} => options.output # "unknown"

ArgumentsAccepted == OutputAccepted /\ command.target # Malformed

\* readValue, from --value, a file or stdin.
ValueAccepted == command.method = "put" => command.extra # "emptyValue"

\* Or the file cannot be read.
GivesNoValue == command.method = "put"

\* What comes before the call is between the user and the command, and is one step.
\* connect does not dial yet.
MakesNoCall ==
    /\ cli = "start"
    /\ ~ArgumentsAccepted \/ ~ValueAccepted \/ GivesNoValue \/ options.transport = "conflicting"
    /\ Ends("no call", "exit 1")

Prepare ==
    /\ cli = "start"
    /\ ArgumentsAccepted /\ ValueAccepted /\ options.transport # "conflicting"
    /\ Goes("call")

-----------------------------------------------------------------------------
(* The call, and what becomes of its answer. *)

\* Statuses that leave it open whether the call has changed anything.
Unclear == {"Internal", "Canceled", "DeadlineExceeded", "Unavailable"}

\* Mutant: the status is wrapped with %w, and main finds the cancellation in it.
FailsUnlessCanceled(status) ==
    Ends(IF status \in Unclear THEN "unclear" ELSE status,
         IF status = "Canceled" THEN "exit 0" ELSE "exit 1")

\* rpcError keeps the wording of a status and not the error, so the context.Canceled
\* main looks for is not in it: a call that was interrupted has failed, too.
Fails(status) == Ends(IF status \in Unclear THEN "unclear" ELSE status, "exit 1")

Send ==
    /\ cli = "call"
    /\ options.transport = "TLS" /\ server = "serving"
    /\ cli' = "waiting" /\ sent' = TRUE
    /\ UNCHANGED <<serverVars, options, said, exit>>

Unreachable == cli = "call" /\ Fails("Unavailable")

\* The connection breaks, by itself or at the server's end.
LosesCall == cli \in {"waiting", "cut"} /\ Fails("Unavailable")

\* SIGINT or SIGTERM end main's context, of which that of the call is a child, and an
\* answer that is there by then may be taken all the same (Receive).  A signal that
\* comes before the call shows here; one that comes after it or is not the first does
\* nothing, for main calls stop when the command is back.
Interrupt == cli \in {"call", "waiting", "cut"} /\ Fails("Canceled")

DeadlinePasses ==
    /\ cli \in {"call", "waiting", "cut"}
    /\ options.timed
    /\ Fails("DeadlineExceeded")

Receive ==
    /\ cli = "waiting"
    /\ call[Mine].at = "returned"
    /\ IF call[Mine].status = "OK" THEN Goes("printing") ELSE Fails(call[Mine].status)

\* To stdout, or to the file of --out.
Prints == cli = "printing" /\ (Ends("OK", "exit 0") \/ Ends("unclear", "exit 1"))

-----------------------------------------------------------------------------
(* The server, whose end is that of its connections. *)

CutOff == cli' = (IF cli = "waiting" THEN "cut" ELSE cli)

ServerStep ==
    /\ \/ /\ \E c \in Call : (c = Mine => sent) /\ Accept(c)
          /\ UNCHANGED cli
       \/ /\ \/ \E c \in Call : HandlerStep(c) \/ StoreStep(c)
             \/ \E k \in Key : Outsider(k)
             \/ Signal \/ ServeFails \/ Drains
          /\ UNCHANGED cli
       \/ (DrainTimesOut \/ Exit) /\ CutOff
    /\ UNCHANGED <<options, sent, said, exit>>

CommandStep ==
    \/ MakesNoCall \/ Prepare
    \/ Send \/ Unreachable \/ LosesCall \/ Interrupt \/ DeadlinePasses
    \/ Receive \/ Prints

\* No command sends a page token of its own.
CommandInit ==
    /\ Init
    /\ command.extra # "pageToken"
    /\ options \in Options
    /\ cli = "start" /\ sent = FALSE
    /\ said = "nothing" /\ exit = "none"

CommandSpec == CommandInit /\ [][ServerStep \/ CommandStep]_allVars

-----------------------------------------------------------------------------
CommandTypeOK ==
    /\ options \in Options
    /\ cli \in {"start", "call", "waiting", "cut", "printing", "exited"}
    /\ sent \in BOOLEAN
    /\ exit \in {"none", "exit 0", "exit 1"}

\* What a user may conclude.  From exit code 0: the call was permitted, what it was to
\* change it has changed, once and for all, and that is in the audit log, whatever has
\* become of the server since.  From "permission denied", "not found" and the like:
\* nothing has been changed, now or later.  From a command that says it made no call:
\* the server has heard nothing.  Of any other failure, an interrupt, a deadline or a
\* connection lost, nothing follows (cmd/vaultlet-cli/main.go:33, cli/client.go:77).
ExitTells ==
    /\ exit = "exit 0" =>
          /\ authenticate(command) /\ Permitted(command)
          /\ command.method \in {"put", "delete"} => Mine \in effects
          /\ \E n \in DOMAIN call[Mine].audits : call[Mine].audits[n].outcome = "success"
    /\ said \notin {"nothing", "OK", "unclear"} => Mine \notin effects
    /\ said = "no call" => call[Mine].at = "new" /\ Mine \notin effects
===============================================================================
