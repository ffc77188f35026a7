------------------------------- MODULE GcpStore -------------------------------
(***************************************************************************)
(* Get, Put and Delete of the Secret Manager adapter (gcp/gcp.go), several *)
(* at a time, on one key.  A secret is a container of numbered versions;   *)
(* reads access the newest, "latest".  Each step is one call of the Secret *)
(* Manager API and what the adapter makes of its answer.                   *)
(***************************************************************************)
EXTENDS StoreCalls

CONSTANTS
    Blank,          \* a key that exists and cannot be read, see StoreContract
    MaxOutside      \* bound: what others do to the secret, and failures of the API

ASSUME BlankAssumption == Blank \notin Value \cup {None, Empty} /\ MaxOutside \in Nat

VARIABLES
    secret,     \* the container: create time, and number, value and state of its
                \* newest version; None when there is no container
    births,     \* containers made so far, which serves as the clock
    outside     \* steps taken against the bound

vars == <<writable, call, secret, births, outside>>

\* A container without a version has number 0.
Container ==
    [created : Nat, number : Nat, value : Value \cup {None}, enabled : BOOLEAN]

ASSUME ContainerAssumption == None \notin Container

\* created and version are what the answer's metadata is made of; version also
\* has the container the number was given in.  excused is history: whether
\* anything happened during the call that a Put need not survive.
Idle == [op |-> NoOp, at |-> "new", outcome |-> Pending, created |-> 0,
         version |-> [of |-> 0, number |-> 0], excused |-> FALSE]

Latest == secret # None /\ secret.number > 0
Version == [of |-> secret.created, number |-> secret.number]

\* The value of the key, as the contract has it.
Held == IF secret = None THEN None
        ELSE IF Latest /\ secret.enabled THEN secret.value ELSE Blank

Bound == UNCHANGED outside

Quiet == UNCHANGED <<writable, secret, births, outside>>

Begin(c) == Begins(c) /\ Quiet

TurnAway(c) == TurnsAway(c) /\ Quiet

\* The API answers NotFound.
Misses(c) == Ends(c, NotFound) /\ Quiet

\* The secret is removed, under every call in progress.
Removed(calls) ==
    [d \in Call |-> [calls[d] EXCEPT !.excused = @ \/ calls[d].at \notin {"new", "done"}]]

Failure(c) == [call EXCEPT ![c].at = "done", ![c].outcome = Failed, ![c].excused = TRUE]

-----------------------------------------------------------------------------
(* Get *)

\* A disabled or destroyed version answers FailedPrecondition.
AccessSecretVersion(c) ==
    /\ Enters(c, "get")
    /\ \/ ~Latest /\ Misses(c)
       \/ Latest /\ ~secret.enabled /\ Ends(c, Failed) /\ Quiet
       \/ /\ Latest /\ secret.enabled
          /\ call' = [call EXCEPT ![c].at = "accessed", ![c].outcome = Found(secret.value),
                                  ![c].version = Version]
          /\ Quiet

GetCreateTime(c) ==
    /\ At(c, "get", "accessed")
    /\ \/ secret = None /\ Misses(c)
       \/ /\ secret # None
          /\ call' = [call EXCEPT ![c].at = "done", ![c].created = secret.created]
          /\ Quiet

-----------------------------------------------------------------------------
(* Put *)

\* Mutant: the second GetSecret assigns to a sec of its own.
HasSecretShadowed(c) ==
    /\ secret # None
    /\ call' = [call EXCEPT ![c].at = "add",
                            ![c].created = IF call[c].at = "called" THEN secret.created ELSE @]
    /\ Quiet

HasSecret(c) ==
    /\ secret # None
    /\ call' = [call EXCEPT ![c].at = "add", ![c].created = secret.created]
    /\ Quiet

GetSecret(c) ==
    /\ Enters(c, "put")
    /\ \/ HasSecret(c)
       \/ secret = None /\ Goes(c, "create") /\ Quiet

Made == [created |-> births + 1, number |-> 0, value |-> None, enabled |-> FALSE]

Creates(c) ==
    /\ At(c, "put", "create")
    /\ secret = None
    /\ secret' = Made
    /\ births' = births + 1

\* Mutant: that a concurrent writer may have created it is forgotten.
CreateSecretFirstOnly(c) ==
    \/ /\ Creates(c)
       /\ call' = [call EXCEPT ![c].at = "add", ![c].created = births + 1]
       /\ UNCHANGED <<writable, outside>>
    \/ At(c, "put", "create") /\ secret # None /\ Ends(c, Failed) /\ Quiet

\* A secret that is there by now answers AlreadyExists.
CreateSecret(c) ==
    \/ /\ Creates(c)
       /\ call' = [call EXCEPT ![c].at = "add", ![c].created = births + 1]
       /\ UNCHANGED <<writable, outside>>
    \/ At(c, "put", "create") /\ secret # None /\ Goes(c, "again") /\ Quiet

\* Mutant: whoever created the secret is taken to have written the value.
GetAgainAndReturn(c) ==
    /\ At(c, "put", "again")
    /\ IF secret = None THEN Misses(c) ELSE Ends(c, Ok) /\ Quiet

GetSecretAgain(c) ==
    /\ At(c, "put", "again")
    /\ \/ HasSecret(c)
       \/ secret = None /\ Misses(c)

Adds(c) ==
    /\ At(c, "put", "add")
    /\ secret # None
    /\ secret' = [secret EXCEPT !.number = @ + 1, !.value = call[c].op.value, !.enabled = TRUE]

AddSecretVersion(c) ==
    \/ At(c, "put", "add") /\ secret = None /\ Misses(c)
    \/ /\ Adds(c)
       /\ call' = [call EXCEPT ![c].at = "done", ![c].outcome = Ok,
                               ![c].version = [of |-> secret.created, number |-> secret.number + 1]]
       /\ UNCHANGED <<writable, births, outside>>

-----------------------------------------------------------------------------
(* Delete *)

DeletesSecret(c) ==
    /\ Enters(c, "delete")
    /\ secret # None
    /\ secret' = None

DeleteSecret(c) ==
    \/ Enters(c, "delete") /\ secret = None /\ Misses(c)
    \/ /\ DeletesSecret(c)
       /\ call' = Removed([call EXCEPT ![c].at = "done", ![c].outcome = Ok])
       /\ UNCHANGED <<writable, births, outside>>

-----------------------------------------------------------------------------
(* The API fails, ctx is over, the key is too long for a secret ID. *)

Fails(c) ==
    /\ outside < MaxOutside
    /\ outside' = outside + 1
    /\ \/ Calls(c) /\ call' = Failure(c) /\ UNCHANGED <<writable, secret, births>>
       \/ Creates(c) /\ call' = Failure(c) /\ UNCHANGED writable
       \/ Adds(c) /\ call' = Failure(c) /\ UNCHANGED <<writable, births>>
       \/ DeletesSecret(c) /\ call' = Removed(Failure(c)) /\ UNCHANGED <<writable, births>>

\* Others make, write, disable, enable and delete the secret.
Outsider ==
    /\ outside < MaxOutside
    /\ outside' = outside + 1
    /\ \/ /\ secret = None
          /\ \E v \in Value :
                secret' = [Made EXCEPT !.number = 1, !.value = v, !.enabled = TRUE]
          /\ births' = births + 1 /\ UNCHANGED call
       \/ /\ secret # None
          /\ \E v \in Value :
                secret' = [secret EXCEPT !.number = @ + 1, !.value = v, !.enabled = TRUE]
          /\ UNCHANGED <<births, call>>
       \/ /\ Latest
          /\ secret' = [secret EXCEPT !.enabled = ~@]
          /\ UNCHANGED <<births, call>>
       \/ /\ secret # None
          /\ secret' = None /\ call' = Removed(call)
          /\ UNCHANGED births
    /\ UNCHANGED writable

Init ==
    /\ writable \in BOOLEAN
    /\ call = [c \in Call |-> Idle]
    /\ \/ secret = None /\ births = 0
       \/ \E v \in Value : secret = [created |-> 1, number |-> 1, value |-> v, enabled |-> TRUE]
          /\ births = 1
    /\ outside = 0

Step(c) ==
    \/ Begin(c) \/ TurnAway(c)
    \/ AccessSecretVersion(c) \/ GetCreateTime(c)
    \/ GetSecret(c) \/ CreateSecret(c) \/ GetSecretAgain(c) \/ AddSecretVersion(c)
    \/ DeleteSecret(c) \/ Fails(c)

Next == Outsider \/ \E c \in Call : Step(c)

Spec == Init /\ [][Next]_vars

-----------------------------------------------------------------------------
(* Every variable keeps its type; in particular no version is without a      *)
(* value, whatever a client sends, since Secret Manager would keep it (the   *)
(* guards of gcp.go:164-169).                                                *)
TypeOK ==
    /\ writable \in BOOLEAN
    /\ secret \in Container \cup {None}
    /\ Latest => secret.value \in Value
    /\ births \in Nat /\ outside \in 0..MaxOutside
    /\ \A c \in Call :
          /\ call[c].op \in Op \cup {NoOp}
          /\ call[c].at \in {"new", "called", "accessed", "create", "again", "add", "done"}
          /\ call[c].outcome \in Outcome
          /\ call[c].created \in Nat
          /\ call[c].version \in [of : Nat, number : Nat]
          /\ call[c].excused \in BOOLEAN

(* The adapter keeps the contract of the port: although every operation but  *)
(* Delete takes several API calls, each takes effect and answers as if at one *)
(* moment (gcp.go:133-272).                                                  *)
Contract == INSTANCE StoreContract WITH
    value <- Held,
    call  <- [c \in Call |->
                [op |-> call[c].op, outcome |-> call[c].outcome,
                 at |-> IF Running(c) THEN "running" ELSE call[c].at]]

KeepsContract == Contract!Spec

(* Concurrent Puts of a new key all succeed, whoever creates the secret, as  *)
(* the comment at gcp.go:189 says: only a failure of the API or the removal  *)
(* of the secret while the Put runs makes one fail.                          *)
RacingPutsSucceed ==
    \A c \in Call :
        (call[c].at = "done" /\ ~call[c].excused /\ Asks(c, "put")
            /\ Verdict(call[c].op) = Pending) => call[c].outcome = Ok

Answered(c) ==
    /\ call[c].at = "done"
    /\ call[c].outcome \in {Ok} \cup {Found(v) : v \in Value}
    /\ ~Asks(c, "delete")

(* The metadata of an answer speaks of one revision: the create time is that *)
(* of the secret the version belongs to, though they come from two API calls *)
(* (gcp.go:151, 176 and 192), as long as the secret is not removed in        *)
(* between.                                                                  *)
OneRevision ==
    \A c \in Call : (Answered(c) /\ ~call[c].excused) => call[c].created = call[c].version.of
================================================================================
