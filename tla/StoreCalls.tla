------------------------------ MODULE StoreCalls ------------------------------
(***************************************************************************)
(* What the adapters' Get, Put and Delete of one key have in common: the   *)
(* calls in progress, how one begins, is turned away before the backend is *)
(* asked, and ends.  Every call of the backend's API is a step of its own  *)
(* in the modules that extend this one, so calls of the same or of other   *)
(* replicas of the server come in between.                                 *)
(***************************************************************************)
EXTENDS Integers, FiniteSets

CONSTANTS
    Call,       \* calls of the port, by any number of replicas
    Value,      \* the values of secrets
    Empty,      \* a value of no bytes
    None        \* no value

ASSUME CallAssumption == Empty \notin Value /\ None \notin Value \cup {Empty}

VARIABLES
    writable,   \* allow_writes
    call        \* what has become of every call

NoOp == [kind |-> "none", value |-> None]

Op == [kind : {"get", "delete"}, value : {None}]
         \cup [kind : {"put"}, value : Value \cup {Empty}]

\* What a call comes to: the value found, or how it ended.
Found(v)   == [kind |-> "found", value |-> v]
Ended(how) == [kind |-> how, value |-> None]

Pending  == Ended("pending")
Ok       == Ended("ok")
NotFound == Ended("notFound")   \* wraps ports.ErrNotFound
ReadOnly == Ended("readOnly")   \* wraps ports.ErrReadOnly
Failed   == Ended("failed")     \* any other error

Outcome == {Found(v) : v \in Value} \cup {Pending, Ok, NotFound, ReadOnly, Failed}

Asks(c, kind)  == call[c].op.kind = kind
Running(c)     == call[c].at \notin {"new", "done"}
Ending(c)      == Running(c) /\ call'[c].at = "done"

At(c, kind, stage) == Asks(c, kind) /\ call[c].at = stage

Goes(c, stage)   == call' = [call EXCEPT ![c].at = stage]
Ends(c, outcome) == call' = [call EXCEPT ![c].at = "done", ![c].outcome = outcome]

\* What becomes of an operation before the backend is asked.
Verdict(o) ==
    IF o.kind \in {"put", "delete"} /\ ~writable THEN ReadOnly
    ELSE IF o.kind = "put" /\ o.value = Empty THEN Failed
    ELSE Pending

Begins(c) ==
    /\ call[c].at = "new"
    /\ \E o \in Op : call' = [call EXCEPT ![c].op = o, ![c].at = "called"]

TurnsAway(c) ==
    /\ call[c].at = "called"
    /\ Verdict(call[c].op) # Pending
    /\ Ends(c, Verdict(call[c].op))

\* The call has got as far as its first question to the backend.
Enters(c, kind) == At(c, kind, "called") /\ Verdict(call[c].op) = Pending

\* The backend may be asked on behalf of c.
Calls(c) == Running(c) /\ (call[c].at = "called" => Verdict(call[c].op) = Pending)
================================================================================
