----------------------------- MODULE BitwardenStore -----------------------------
(***************************************************************************)
(* The operations of the Bitwarden adapter (bitwarden/bitwarden.go),       *)
(* several at a time: Get, Put and Delete of one key, and List of a        *)
(* namespace that holds the key and may hold others.  Bitwarden addresses  *)
(* secrets by UUID, so every operation first lists the project to find the *)
(* objects by their names; nothing keeps an object as it was when the next *)
(* call comes, and nothing keeps two objects from bearing one name.  Get,  *)
(* Put and Delete look for the name as text, List parses what it finds, so *)
(* they differ on names that people wrote.  Each step is one call of the   *)
(* SDK and what the adapter makes of its answer.                           *)
(***************************************************************************)
EXTENDS StoreCalls

CONSTANTS
    Object,         \* UUIDs; bound: so many objects at a time
    Name,           \* names of objects, in the project the store is scoped to or not
    KeyName,        \* the name of the key, key.String()
    Spelling,       \* the names that ParseKey reads as the key: "a/b", "/a/b", "a//b"
    Note,           \* notes people may keep with a secret
    NoNote,         \* the note of a secret the adapter creates
    MaxOutside      \* bound: what people do in Bitwarden, and failures of the SDK

ASSUME BitwardenAssumption ==
    /\ IsFiniteSet(Object) /\ NoNote \in Note /\ MaxOutside \in Nat
    /\ KeyName \in Spelling /\ Spelling \subseteq Name

VARIABLES
    objects,    \* of the project; None where there is none
    outside,    \* steps taken against the bound
    during      \* history: what the project has been while a call was running

vars == <<writable, call, objects, outside, during>>

\* Nobody moves an object to another project; one outside the store's has a name
\* that is no spelling of the key.
Secret == [name : Name, value : Value, note : Note]
Projects == [Object -> Secret \cup {None}]

\* ids: what a List has found so far, then what it returns for the key.
Idle == [op |-> NoOp, at |-> "new", outcome |-> Pending,
         id |-> None, note |-> NoNote, created |-> FALSE, ids |-> {}]

ListOp == [kind |-> "list", value |-> None]

Exists(i) == objects[i] # None

Named(project, names) == {i \in Object : project[i] # None /\ project[i].name \in names}

\* The objects of a project that bear the key's own name: resolveID compares texts.
Bearers(project) == Named(project, {KeyName})

\* Those that List shows under the key: ParseKey trims separators.
Shown(project) == Named(project, Spelling)

Become(i, secret) == objects' = [objects EXCEPT ![i] = secret]
\* History: what a call could have seen.
Observe ==
    during' = [c \in Call |->
                 IF call'[c].at \notin {"new", "done"} THEN during[c] \cup {objects'}
                 ELSE during[c]]

Quiet == UNCHANGED <<writable, objects, outside>> /\ Observe

Begin(c) ==
    /\ \/ Begins(c)
       \/ call[c].at = "new" /\ call' = [call EXCEPT ![c].op = ListOp, ![c].at = "called"]
    /\ Quiet

TurnAway(c) == TurnsAway(c) /\ Quiet

\* Mutant: the name is not compared.
MatchesAnyName == {i \in Object : Exists(i)}

Matches == Bearers(objects)

\* resolveID; which of several comes first in the list is Bitwarden's affair.
Resolve(c) ==
    /\ call[c].at = "called" /\ ~Asks(c, "list") /\ Verdict(call[c].op) = Pending
    /\ \/ \E i \in Matches :
             call' = [call EXCEPT ![c].at = "resolved", ![c].id = i]
       \/ /\ Matches = {}
          /\ IF Asks(c, "put") THEN Goes(c, "create") ELSE Ends(c, NotFound)
    /\ Quiet

\* The object is gone by now; the SDK's error is not ErrNotFound.
IsGone(c) ==
    /\ call[c].at \in {"resolved", "update"}
    /\ ~Exists(call[c].id)
    /\ Ends(c, Failed)
    /\ Quiet

Get(c) ==
    /\ At(c, "get", "resolved")
    /\ Exists(call[c].id)
    /\ Ends(c, Found(objects[call[c].id].value))
    /\ Quiet

-----------------------------------------------------------------------------
(* Put *)

Creates(c) ==
    /\ At(c, "put", "create")
    /\ \E i \in Object :
          /\ ~Exists(i)
          /\ Become(i, [name |-> KeyName, value |-> call[c].op.value, note |-> NoNote])

Create(c) ==
    /\ Creates(c)
    /\ call' = [call EXCEPT ![c].at = "done", ![c].outcome = Ok, ![c].created = TRUE]
    /\ UNCHANGED <<writable, outside>> /\ Observe

ReadNote(c) ==
    /\ At(c, "put", "resolved")
    /\ Exists(call[c].id)
    /\ call' = [call EXCEPT ![c].at = "update", ![c].note = objects[call[c].id].note]
    /\ Quiet

\* Mutant: Update is given no note, as Create is.
UpdatesWithoutNote(c) ==
    /\ At(c, "put", "update")
    /\ Exists(call[c].id)
    /\ Become(call[c].id, [name |-> KeyName, value |-> call[c].op.value, note |-> NoNote])

\* Every field is replaced, the name included.
Updates(c) ==
    /\ At(c, "put", "update")
    /\ Exists(call[c].id)
    /\ Become(call[c].id, [name |-> KeyName, value |-> call[c].op.value, note |-> call[c].note])

Update(c) == Updates(c) /\ Ends(c, Ok) /\ UNCHANGED <<writable, outside>> /\ Observe

-----------------------------------------------------------------------------
(* Delete *)

Deletes(c) ==
    /\ At(c, "delete", "resolved")
    /\ Exists(call[c].id)
    /\ Become(call[c].id, None)

Delete(c) == Deletes(c) /\ Ends(c, Ok) /\ UNCHANGED <<writable, outside>> /\ Observe

-----------------------------------------------------------------------------
(* List *)

\* The identifiers of the project, by the keys their names are read as.  An object
\* of another key may or may not lie within the namespace.
ListNames(c) ==
    /\ At(c, "list", "called")
    /\ \E others \in SUBSET {i \in Object : Exists(i) /\ i \notin Shown(objects)} :
          LET ids == Shown(objects) \cup others
          IN  call' = [call EXCEPT ![c].ids = ids,
                                   ![c].at = IF ids = {} THEN "done" ELSE "fetch",
                                   ![c].outcome = IF ids = {} THEN Ok ELSE @]
    /\ Quiet

\* Mutant: the name found by the first call is kept, the second asked for dates only.
GetByIDsUnnamed(c) ==
    /\ At(c, "list", "fetch")
    /\ call' = [call EXCEPT ![c].at = "done", ![c].outcome = Ok,
                            ![c].ids = {i \in @ : Exists(i)}]
    /\ Quiet

\* GetByIDS: the name is parsed again, the namespace is not compared again.  Of the
\* objects that are gone by now the SDK says nothing, or it fails for all.
GetByIDs(c) ==
    /\ At(c, "list", "fetch")
    /\ \/ call' = [call EXCEPT ![c].at = "done", ![c].outcome = Ok,
                               ![c].ids = @ \cap Shown(objects)]
       \/ \E i \in call[c].ids : ~Exists(i) /\ Ends(c, Failed)
    /\ Quiet

-----------------------------------------------------------------------------

\* Mutant: whatever error resolveID returns, Put goes on to create.
FailsIntoCreate(c) ==
    /\ outside < MaxOutside
    /\ outside' = outside + 1
    /\ Calls(c)
    /\ IF Asks(c, "put") /\ call[c].at = "called" THEN Goes(c, "create") ELSE Ends(c, Failed)
    /\ UNCHANGED <<writable, objects>> /\ Observe

\* The SDK fails, with or without effect, or ctx was over at the start.
Fails(c) ==
    /\ outside < MaxOutside
    /\ outside' = outside + 1
    /\ Ends(c, Failed)
    /\ \/ Calls(c) /\ UNCHANGED objects
       \/ Creates(c)
       \/ Updates(c)
       \/ Deletes(c)
    /\ UNCHANGED writable /\ Observe

\* People create, rename, annotate and remove objects.
Outsider ==
    /\ outside < MaxOutside
    /\ outside' = outside + 1
    /\ \E i \in Object :
          \/ /\ ~Exists(i)
             /\ \E secret \in Secret : Become(i, secret)
          \/ /\ Exists(i)
             /\ \/ Become(i, None)
                \/ \E n \in Name \ {objects[i].name} : Become(i, [objects[i] EXCEPT !.name = n])
                \/ \E n \in Note \ {objects[i].note} : Become(i, [objects[i] EXCEPT !.note = n])
    /\ UNCHANGED <<writable, call>> /\ Observe

Init ==
    /\ writable \in BOOLEAN
    /\ call = [c \in Call |-> Idle]
    /\ objects \in Projects
    /\ Cardinality(Bearers(objects)) <= 1
    /\ outside = 0
    /\ during = [c \in Call |-> {}]

Step(c) ==
    \/ Begin(c) \/ TurnAway(c) \/ Resolve(c) \/ IsGone(c)
    \/ ListNames(c) \/ GetByIDs(c)
    \/ Get(c) \/ Create(c) \/ ReadNote(c) \/ Update(c) \/ Delete(c) \/ Fails(c)

Next == Outsider \/ \E c \in Call : Step(c)

Spec == Init /\ [][Next]_vars

-----------------------------------------------------------------------------
(* Every variable keeps its type; in particular no object is ever without a  *)
(* value (bitwarden.go:118).                                                 *)
TypeOK ==
    /\ writable \in BOOLEAN
    /\ objects \in Projects
    /\ outside \in 0..MaxOutside
    /\ \A c \in Call :
          /\ call[c].op \in Op \cup {ListOp, NoOp}
          /\ call[c].at \in {"new", "called", "resolved", "create", "update", "fetch", "done"}
          /\ call[c].outcome \in Outcome
          /\ call[c].id \in Object \cup {None}
          /\ call[c].note \in Note
          /\ call[c].ids \subseteq Object
          /\ during[c] \subseteq Projects

(* A value that Get returns was that of an object which bore the key's name  *)
(* while the Get ran, though the object may be renamed, rewritten or removed *)
(* between the listing and the read (bitwarden.go:54-59).                    *)
FoundIsHeld ==
    \A c \in Call : \A v \in Value :
        call[c].outcome = Found(v) =>
            \E i \in Object :
                /\ \E p \in during[c] : i \in Bearers(p)
                /\ \E p \in during[c] : p[i] # None /\ p[i].value = v

(* Absence is never made up: when an operation reports NotFound, or a Put    *)
(* creates an object, there was a moment of the call at which no object bore *)
(* the key's name (bitwarden.go:79-92 and 127-146).  One of another spelling *)
(* may have been there, which a List shows under the key.  Twins come from   *)
(* Puts that overlap, and from people, alone.                                *)
AbsentWhenTold ==
    \A c \in Call :
        (call[c].outcome = NotFound \/ call[c].created) => \E p \in during[c] : Bearers(p) = {}

(* What a List says of the key was so while it ran, although the names are   *)
(* read in one call and the metadata in another (bitwarden.go:181 and 207):  *)
(* every object it lists under the key had, at some moment, a name that      *)
(* ParseKey reads as the key, and none that had such names all along is left *)
(* out.  The name need not be the one Get looks for (bitwarden.go:87 against *)
(* 194 and 214): List shows a key that Get does not find.                    *)
ListedIsHeld ==
    \A c \in Call :
        (Asks(c, "list") /\ call[c].outcome = Ok) =>
            /\ \A i \in call[c].ids : \E p \in during[c] : i \in Shown(p)
            /\ \A i \in Object : (\A p \in during[c] : i \in Shown(p)) => i \in call[c].ids

(* The note a Put writes is carried across (bitwarden.go:148): it was that   *)
(* of the object at some moment of the Put.  It need not be the one the       *)
(* object has when it is overwritten, for it is read a call earlier.          *)
NoteCarried ==
    [][\A c \in Call :
          (At(c, "put", "update") /\ Ending(c) /\ objects' # objects)
              => \E p \in during[c] :
                    /\ p[call[c].id] # None
                    /\ p[call[c].id].note = objects'[call[c].id].note]_vars

(* A Delete that reports success has removed the secret ("DeleteSecret       *)
(* removes a secret", vaultlet.proto:35): no object bears its name any more. *)
DeleteRemoves ==
    [][\A c \in Call :
          (Asks(c, "delete") /\ Ending(c) /\ call'[c].outcome = Ok)
              => Bearers(objects') = {}]_vars
================================================================================
