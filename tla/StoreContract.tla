----------------------------- MODULE StoreContract -----------------------------
(***************************************************************************)
(* What a caller of ports.SecretStore may rely on, for one key: a Get, Put *)
(* or Delete takes effect at one moment between its call and its return,   *)
(* and the answer is that of the moment: the value the key had,            *)
(* ErrNotFound when there was none.  Any call may fail instead, whether or *)
(* not it has taken effect.                                                *)
(*                                                                         *)
(* Blank is a key that exists without a value that can be read: one being  *)
(* written for the first time, or whose newest version is disabled.  For a *)
(* Get it is not there; a Put or Delete finds it.                          *)
(***************************************************************************)
CONSTANTS Call, Value, Empty, None, Blank

VARIABLES
    value,      \* the key's: a member of Value, None or Blank
    writable,
    call        \* op, at ("new", "running", "done") and outcome of every call

vars == <<value, writable, call>>

C == INSTANCE StoreCalls

Init ==
    /\ value \in Value \cup {None, Blank}
    /\ writable \in BOOLEAN
    /\ call = [c \in Call |-> [op |-> C!NoOp, at |-> "new", outcome |-> C!Pending]]

Begin(c) ==
    /\ call[c].at = "new"
    /\ \E o \in C!Op : call' = [call EXCEPT ![c].op = o, ![c].at = "running"]
    /\ UNCHANGED <<value, writable>>

\* The call meets the key as it is, with outcome r.  A Get may do so again.
GetMeets(c, r) ==
    /\ C!Asks(c, "get")
    /\ r = IF value \in Value THEN C!Found(value) ELSE C!NotFound
    /\ UNCHANGED value

\* A Put may find the key gone while it is writing.
PutMeets(c, r) ==
    /\ C!Asks(c, "put") /\ writable /\ call[c].op.value \in Value
    /\ call[c].outcome = C!Pending
    /\ \/ r = C!Ok /\ value' = call[c].op.value
       \/ r = C!NotFound /\ value = None /\ UNCHANGED value

DeleteMeets(c, r) ==
    /\ C!Asks(c, "delete") /\ writable
    /\ call[c].outcome = C!Pending
    /\ r = IF value = None THEN C!NotFound ELSE C!Ok
    /\ value' = None

\* Now, and the call goes on or returns; what it did may be lost on the way.
Act(c) ==
    /\ C!Running(c)
    /\ \E r \in C!Outcome :
          /\ GetMeets(c, r) \/ PutMeets(c, r) \/ DeleteMeets(c, r)
          /\ \/ call' = [call EXCEPT ![c].outcome = r]
             \/ C!Ends(c, r)
             \/ C!Ends(c, C!Failed)
    /\ UNCHANGED writable

\* A Put may make the key first and write its value later, or never.
Prepare(c) ==
    /\ C!Running(c) /\ C!Asks(c, "put") /\ writable /\ call[c].op.value \in Value
    /\ call[c].outcome = C!Pending
    /\ value = None /\ value' = Blank
    /\ UNCHANGED call \/ C!Ends(c, C!Failed)
    /\ UNCHANGED writable

Return(c) ==
    /\ C!Running(c)
    /\ \/ C!Ends(c, C!Failed)
       \/ call[c].outcome # C!Pending /\ C!Ends(c, call[c].outcome)
       \/ ~writable /\ call[c].op.kind # "get" /\ C!Ends(c, C!ReadOnly)
    /\ UNCHANGED <<value, writable>>

\* The backend is not the server's alone.
Elsewhere ==
    /\ value' \in Value \cup {None, Blank}
    /\ UNCHANGED <<writable, call>>

Next == Elsewhere \/ \E c \in Call : Begin(c) \/ Act(c) \/ Prepare(c) \/ Return(c)

Spec == Init /\ [][Next]_vars
================================================================================
