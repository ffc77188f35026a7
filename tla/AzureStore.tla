------------------------------- MODULE AzureStore -------------------------------
(***************************************************************************)
(* Get, Put and Delete of the Key Vault adapter (azure/azure.go), several  *)
(* at a time, on one name.  Deleting is soft: the vault takes a while to   *)
(* move the secret to its deleted ones, and the name stays taken until it  *)
(* is purged, which Delete does when purge_on_delete is set.  Each step is *)
(* one call of the Key Vault API and what the adapter makes of its answer. *)
(***************************************************************************)
EXTENDS StoreCalls

CONSTANTS
    MaxAttempts,    \* of a purge; 30 in the code
    MaxOutside      \* bound: what others do to the name, and failures of the API

ASSUME AzureAssumption == MaxAttempts \in Nat \ {0} /\ MaxOutside \in Nat

VARIABLES
    purgeOnDelete,
    name,       \* "free", "live", "deleting" (being moved) or "deleted"
    held,       \* the value of the secret of that name, deleted or not
    outside     \* steps taken against the bound

configVars == <<writable, purgeOnDelete>>
vars == <<configVars, call, name, held, outside>>

Idle == [op |-> NoOp, at |-> "new", outcome |-> Pending, attempt |-> 0]

Secret == IF name = "live" THEN held ELSE None

Vault(state, value) == name' = state /\ held' = value
Quiet == UNCHANGED <<configVars, name, held, outside>>

Begin(c) == Begins(c) /\ Quiet

TurnAway(c) == TurnsAway(c) /\ Quiet

GetSecret(c) ==
    /\ Enters(c, "get")
    /\ \/ name = "live" /\ Ends(c, Found(held))
       \/ name # "live" /\ Ends(c, NotFound)
    /\ Quiet

-----------------------------------------------------------------------------
(* Put *)

Sets(c) ==
    /\ Enters(c, "put")
    /\ name \in {"free", "live"}
    /\ Vault("live", call[c].op.value)

\* A soft-deleted name answers 409.
SetSecret(c) ==
    \/ Sets(c) /\ Ends(c, Ok) /\ UNCHANGED <<configVars, outside>>
    \/ Enters(c, "put") /\ name \in {"deleting", "deleted"} /\ Ends(c, Failed) /\ Quiet

-----------------------------------------------------------------------------
(* Delete *)

Deletes(c) ==
    /\ Enters(c, "delete")
    /\ name = "live"
    /\ Vault("deleting", held)

\* Once the secret is deleted, all there is left to do is to purge it.
Deleted(c) ==
    /\ Deletes(c)
    /\ IF purgeOnDelete
       THEN call' = [call EXCEPT ![c].at = "purge", ![c].outcome = Ok, ![c].attempt = 1]
       ELSE Ends(c, Ok)
    /\ UNCHANGED <<configVars, outside>>

\* Mutant: a secret that is not there counts as deleted.
DeleteSecretIdempotent(c) ==
    Deleted(c) \/ (Enters(c, "delete") /\ name # "live" /\ Ends(c, Ok) /\ Quiet)

DeleteSecret(c) ==
    Deleted(c) \/ (Enters(c, "delete") /\ name # "live" /\ Ends(c, NotFound) /\ Quiet)

\* There is nothing to purge (404): someone else has purged or recovered it.
PurgesNothing(c) ==
    /\ At(c, "delete", "purge")
    /\ name \in {"free", "live"}
    /\ Ends(c, Ok)
    /\ Quiet

Purges(c) ==
    /\ At(c, "delete", "purge")
    /\ name = "deleted"
    /\ Vault("free", None)

Purged(c) == Purges(c) /\ Ends(c, Ok) /\ UNCHANGED <<configVars, outside>>

\* Mutant: after the last attempt Delete returns nil.
PurgeConflictsIgnored(c) ==
    /\ At(c, "delete", "purge")
    /\ name = "deleting"
    /\ IF call[c].attempt < MaxAttempts THEN Goes(c, "waiting") ELSE Ends(c, Ok)
    /\ Quiet

\* The vault is still moving the secret (409).
PurgeConflicts(c) ==
    /\ At(c, "delete", "purge")
    /\ name = "deleting"
    /\ IF call[c].attempt < MaxAttempts THEN Goes(c, "waiting") ELSE Ends(c, Failed)
    /\ Quiet

\* Mutant: the attempts are not counted.
RetryForEver(c) == At(c, "delete", "waiting") /\ Goes(c, "purge") /\ Quiet

\* time.After(purgeRetry)
Retry(c) ==
    /\ At(c, "delete", "waiting")
    /\ call' = [call EXCEPT ![c].at = "purge", ![c].attempt = @ + 1]
    /\ Quiet

\* ctx.Done() while it waits.
GivesUp(c) == At(c, "delete", "waiting") /\ Ends(c, Failed) /\ Quiet

-----------------------------------------------------------------------------

\* The API fails, with or without effect; the name is too long for the vault;
\* the vault forbids purging.
Fails(c) ==
    /\ outside < MaxOutside
    /\ outside' = outside + 1
    /\ Ends(c, Failed)
    /\ \/ Calls(c) /\ call[c].at # "waiting" /\ UNCHANGED <<name, held>>
       \/ Sets(c)
       \/ Deletes(c)
       \/ Purges(c)
    /\ UNCHANGED configVars

\* The vault finishes a soft delete.  Nothing makes it do so.
Settles ==
    /\ name = "deleting"
    /\ name' = "deleted"
    /\ UNCHANGED <<configVars, call, held, outside>>

\* Others set, delete, purge and recover the secret.
Outsider ==
    /\ outside < MaxOutside
    /\ outside' = outside + 1
    /\ \/ name \in {"free", "live"} /\ \E v \in Value : Vault("live", v)
       \/ name = "live" /\ Vault("deleting", held)
       \/ name = "deleted" /\ Vault("free", None)
       \/ name = "deleted" /\ Vault("live", held)
    /\ UNCHANGED <<configVars, call>>

Init ==
    /\ writable \in BOOLEAN
    /\ purgeOnDelete \in BOOLEAN
    /\ call = [c \in Call |-> Idle]
    /\ \/ name = "free" /\ held = None
       \/ name \in {"live", "deleted"} /\ held \in Value
    /\ outside = 0

Progress(c) ==
    \/ TurnAway(c) \/ GetSecret(c) \/ SetSecret(c) \/ DeleteSecret(c)
    \/ PurgesNothing(c) \/ Purged(c) \/ PurgeConflicts(c) \/ Retry(c) \/ GivesUp(c)

Next == Settles \/ Outsider \/ \E c \in Call : Begin(c) \/ Progress(c) \/ Fails(c)

\* The SDK's calls come back and timers fire.
Fairness == \A c \in Call : WF_vars(Progress(c))

Spec == Init /\ [][Next]_vars /\ Fairness

-----------------------------------------------------------------------------
(* Every variable keeps its type; a name in use has a value that is not      *)
(* empty (azure.go:116), and no purge is tried more often than it should.    *)
TypeOK ==
    /\ writable \in BOOLEAN /\ purgeOnDelete \in BOOLEAN
    /\ \/ name = "free" /\ held = None
       \/ name \in {"live", "deleting", "deleted"} /\ held \in Value
    /\ outside \in 0..MaxOutside
    /\ \A c \in Call :
          /\ call[c].op \in Op \cup {NoOp}
          /\ call[c].at \in {"new", "called", "purge", "waiting", "done"}
          /\ call[c].outcome \in Outcome
          /\ call[c].attempt \in 0..MaxAttempts

(* The adapter keeps the contract of the port: what Delete does after the    *)
(* soft delete, and a name that is not free yet, change no answer but to an  *)
(* error (azure.go:91-213).                                                  *)
Contract == INSTANCE StoreContract WITH
    Blank <- "blank",
    value <- Secret,
    call  <- [c \in Call |->
                [op |-> call[c].op, outcome |-> call[c].outcome,
                 at |-> IF Running(c) THEN "running" ELSE call[c].at]]

KeepsContract == Contract!Spec

(* With purge_on_delete, a Delete that reports success leaves a name that    *)
(* can be used again at once (azure.go:9-11): at its return no soft-deleted  *)
(* secret has it, whoever purged, recovered or deleted in the meantime.      *)
NameFree ==
    [][\A c \in Call :
          (purgeOnDelete /\ Asks(c, "delete") /\ Ending(c) /\ call'[c].outcome = Ok)
              => name' \in {"free", "live"}]_vars

(* A vault that never settles cannot hang the RPC (azure.go:196): every call *)
(* comes to an end.                                                          *)
Terminates == \A c \in Call : Running(c) ~> call[c].at = "done"
================================================================================
