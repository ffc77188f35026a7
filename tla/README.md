# Verification of vaultlet

vaultlet is a gRPC server that puts one access model, one watch stream and one
audit log in front of a secret backend (Bitwarden Secrets Manager, Azure Key
Vault, Google Secret Manager). This directory holds TLA+ models of it, the TLC
runs that check them and the TLAPS proofs about them. Every definition that
stands for code is listed in `PROJECT.json` under `map`, with its lines.

## The system

| Component | State it keeps | Operations | What makes it correct |
| --- | --- | --- | --- |
| `watch.Poll` (`adapters/driven/watch/poll.go`) | `seen`, and per poll `metas`, `present`, `gone`; one goroutine per subscription, an unbuffered channel | first List, replay, IN_SYNC, tick, diff, deletions, emit | a subscriber's copy follows the backend: told only what was true, misses nothing, each change once and in order; the goroutine ends with its ctx |
| Watch stream (`Service.Watch`, `filterEvents`, `WatchSecrets`) | a second goroutine and channel, the stream's buffer | admit, deny, filter, send, give up | nothing lost, repeated or reordered between three goroutines; only visible keys pass; IN_SYNC always passes; a clean end is told from a broken one |
| Policy (`app/policy.go`, `domain/key.go`) | rules per principal, compiled at boot | `allows`, `canList`, `canWatch` | grants inherit downwards; the gates for List and Watch let in whoever may see something |
| Unary RPCs (`auth.go`, `handlers.go`, `service.go`, `audit.go`) | none of their own; concurrent calls on one store | authenticate, refuse, admit, call the store, audit, map to a status | nobody acts or learns without a grant; one audit record per decided call, in accord with the status; a listing is exact although the store changes while it is read |
| Lifecycle (`cmd/vaultlet/main.go`, `server.go`) | how far boot has come, the deferred calls, the drain deadline | open the store, log in, bind, serve, signal, drain, time out, close, exit | a drain in time cuts nothing short; the process stops even if the backend hangs; the store is closed when its callers are done, and always |
| Configuration (`config.go`, and one per adapter) | none after boot | merge YAML, `.env` and environment, validate | a server that serves has what its backend needs, whichever layer it came from |
| Adapters (`gcp`, `azure`, `bitwarden`) | none of their own; several backend calls per operation | Get, Put, List, Delete, Watch | versions identify revisions, names and keys correspond one to one, races between the steps of a Put or Delete do no harm |
| Keys and name codecs (`domain/key.go`, `name.go`) | none | parse, encode, decode | a key has one written form; decoding is the inverse of encoding |
| CLI (`adapters/driving/cli`, `cmd/vaultlet-cli`) | none after a command; the context of its signals | get, put, list, delete, watch | the exit code tells what has become of the secret |
| AWS adapter, logging, generated code | none | | not modelled, see below |

A call goes CLI or other client → gRPC → interceptors → handler → `Service` → adapter →
backend and back. A watch adds two goroutines between adapter and handler, each
handing on over an unbuffered channel; all of them share the stream's ctx, and
nothing but ctx and the closing of a channel tells one that another has ended.
Three replicas run against one backend, and people edit secrets in the
backend's own UI, so the backend changes at any moment.

The hard part is concurrency: a List is not a snapshot, it reads secret after
secret while they change; a poll may fail; any of three goroutines may be
parked with an event in its hands when ctx ends; a write may have taken effect
when its answer is an error or the process ends. The places are listed in
`PROJECT.json` under `hazards`, with the properties that watch over them.

## Modules

| Module | Models |
| --- | --- |
| `PollLoop` | `watch.Poll` up to the channel it emits on, and the backend it lists |
| `Poller` | `PollLoop` with one subscriber that applies every event to a copy |
| `WatchContract` | what `WatchSecrets` promises, without a word of polling |
| `PollLoopInvariant` | the assumptions about the backend and the inductive invariant of the loop |
| `PollerInvariant`, `Poller_proofs` | the invariant of loop and subscriber; theorems about `PollLoop` and `Poller` |
| `Namespaces`, `Policy` | `domain.Namespace`, `app.Policy` and the filters of `Service` |
| `WatchStream` | `PollLoop` behind `filterEvents`, the handler, the stream and `vaultlet watch` |
| `WatchStream_proofs` | theorems about `WatchStream` |
| `Server` | the unary calls, several at a time, and what a shutdown does to them |
| `Command` | `Server`, and a command of the CLI that makes one of its calls |
| `Server_proofs` | theorems about `Policy`, `Server` and `Command` |
| `Lifecycle`, `Lifecycle_proofs` | configuration, boot, signals, shutdown and exit of the process; theorems about it |
| `KeyCodec`, `KeyCodec_proofs` | how keys are read and written, and the codecs of Secret Manager and Key Vault; theorems about them |
| `StoreContract` | what `ports.SecretStore` promises about one key |
| `StoreCalls` | what the adapters' Get, Put and Delete have in common |
| `GcpStore`, `AzureStore`, `BitwardenStore` | the adapters, one step per call of the backend's API |
| `GcpStore_proofs`, `AzureStore_proofs`, `BitwardenStore_proofs` | theorems about them |
| `MCPoller`, `MCPollerGcp`, `MCWatchStream`, `MCServer`, `MCCommand`, `MCLifecycle`, `MCGcpStore`, `MCAzureStore`, `MCBitwardenStore`, `MCKeyCodec` | the instances TLC checks |

Operators whose comment begins with "Mutant:" are never used by a
specification. They are bugs one could make in that place, kept to show that the
properties notice them; `PROJECT.json` says which property notices which.

### PollLoop, Poller

A backend object is an *item*; `KeyOf` gives the key it decodes to, and
`VersionOf` the `domain.Version` an adapter reads off a revision. A revision has
a number `rev` that never repeats and the number `num` the backend gives it,
which starts again when an object is deleted and created anew. An item can be
written, removed (deleted, or its newest version disabled), restored (recovered
or enabled again, the same revision) and recreated, up to `MaxWrites` times in
all.

`pc` says where the goroutine is: `idle` before `Poll` is called, `snapshot` and
`list` in a List (whose items are read one by one, `ListReads`), `replay`,
`wait` in the select of ticker and ctx, `diff`, `gone`, `closed`, and `rejected`
when `Poll` returned an error. `pending` is the event the goroutine is parked on
in `emit`; while there is one, the loop does nothing else. `Taken` is the receive that
completes the send: the subscriber's in `Poller`, the filter's in `WatchStream`. `Apply` and
`Suits` say what an event does to a receiver's copy and which event fits it. Order within a
listing is left open (any `r \in metas`), which covers the sorted order the adapters return;
deletions come in the order of the keys, as the code sorts them.

Ticker and ctx may both be ready, and Go then picks either. `Tick` is modelled
only while ctx lasts: on an ended ctx List fails and the loop returns
(`poll.go:78-81`), which is where `Stop` goes at once.

`window[i]` and `recent[i]` are history: the values item `i` has had since the
last successful List began, and since the last List began. The properties are
stated with them. *Honest*: an event tells a value from the window. *CaughtUp*:
when Poll rests, every value the subscriber holds lies in the window, so whatever
was over when the List began has been reported. `WatchContract` says the same in
the abstract, and `KeepsContract` (refinement: `kept` and `window` of `Poller` for `view`
and `window` of the contract) shows `Poller` implements it. The subscriber's variables
`kept` and `announced` are `view` and `synced` of the client in `WatchStream`; they have
names of their own because the proofs about the stream build on those about `Poller`.

### Policy, WatchStream, Server, Command

Rules only grant, so the slice of rules is a set. A namespace is a sequence of
opaque segments.

`WatchStream` puts the real receivers on Poll's channel: `filter` is the
goroutine of `filterEvents` (receiving, parked on its send with `passing`, or
done), `handler` the gRPC handler (with `sending` in `Send`), `wire` the
responses the flow-control window lets in flight. The client is `vaultlet watch`:
`client` is `reading` until the command exits, with 0 or 1, and `view` is the copy of
one that applies what is printed. `hungUp` says who ended ctx from outside, the user
(`client`) or the connection (`transport`), for the exit code depends on it;
`StreamEnds` is gRPC ending ctx once the handler has returned.

In `Server` a call is a record that runs through `accepted`, `store`, `written` (the
write has taken effect, the adapter is not back), `answered`, `returned`, or
`killed` when the process ends first. The store is the set of keys that hold a
secret, a listing reads it key by key, and `Outsider` changes it behind the
server. `always` and `ever` are history: what was there throughout a listing and
at some moment of it. The steps from the interceptor to the call of the store
read nothing another goroutine can change (users and policy are fixed at boot),
so they are one action for each way they can end.

In `Server`, `server` goes from `serving` by a signal to `draining`, from there to `stopped`
(`Listen` is back) when every handler has ended or `shutdownTimeout` has passed,
and to `exited` with the process. `Stop` waits for no handler, so calls in
progress may go on until the exit. What else belongs to boot and exit is in
`Lifecycle`.

`Command` adds a `get`, `put`, `list` or `delete` of the CLI, which makes the call
`Mine`. `cli` is where it is: `start`, `call` (nothing sent), `waiting`, `cut` (the
server closed the connection), `printing`, `exited`; `said` what it reports, with
`unclear` for every failure from which nothing follows, and `exit` its exit code. What
comes before the call concerns nobody else and is one step, and so are the end of a
context and the command's noticing it: an answer that arrives first is `Receive`
taken first. `sent` is a request on its way: the server may accept it after the
command has gone, and the write it asks for may take effect then.

### Lifecycle

`stage` is the statement of `run` that comes next, from `load` through `serving` to
`exited`; `defers` the calls deferred so far, run in reverse by `Defer`; `handle` the
client of the backend (Azure's needs no closing); `told` whether the context of the
signals has ended; `abrupt` whether `Listen` came back without waiting. `found` is
what lies in the YAML file, `.env` and the environment. A setting is `""`, `good`,
`bad` (boot finds fault with it) or `garbled` (does not parse); `Load` merges the
layers, an empty value overriding like any other. `auth.users` is a list and can only
come from the YAML file. Once the address is bound the configuration has no more
part in what happens, and `found` is reduced to the name of the backend.

`rpc` has of a call what a shutdown meets: a handler that runs, or for a watch
`streaming`, or `orphaned` when the handler is gone and the goroutine of Poll is not
yet; `using`, it is inside the store; `over`, its ctx has ended.

### KeyCodec

A text is a sequence of characters and a behaviour spells one out, so the states are
the inputs. The same text is taken for a key (`ParseKey`, `String`, `NewKey`) and for a
name found in a backend (`decodeID`, `decodeName`). A codec is a table of the
characters it escapes and one pair of loops, for the two of the code differ in their
tables only. A loop is a recursive function of the position it has reached (`upto`) over an
operator for one round of it (`SplitOn`, `DecodeOn`). The references are said of the whole
text: `Grammatical` is the grammar in the comment of `key.go` (12-17), with the limits;
`WellEdged` is what the regular expressions ask for besides (28-29); `WellFormed`, both of
them, is the form in which keys are written. `Canonical` is about that form.

### StoreContract and the adapters

`StoreContract` is an atomic store with one key: a call takes effect at one moment
between its begin and its return and answers as of that moment, or fails, with
effect or without. `GcpStore` and `AzureStore` implement it (`KeepsContract`), with
the outcome a call has fixed so far as the contract's. Where a call spans several
API calls the moment is `AccessSecretVersion`, `AddSecretVersion`, `DeleteSecret`
or, in Azure, the soft delete; a Get that finds the secret gone at its second call
takes effect there.

`call[c]` is one call on the key: `op`, where it stands (`at`), the `outcome` so far,
and the local variables of the Go method that live across an API call. Calls may be
of one replica or of several; the adapters keep no state that would tell them apart.
A step is one API call and what the method makes of its answer. `Fails` is an API
call that fails, before or after it took effect, a ctx that is over, or a key too long
to encode; `Outsider` is whoever else edits the backend. How the backends behave is
taken from the calls and comments of the adapters and the fakes of their tests, and
marked external in the map.

`GcpStore`: a container with the number, value and state of its newest version;
`created` is its create time. `Blank` in the contract is a container without a
readable version, which a Put in progress makes and a failed one leaves behind.
`AzureStore`: a name is `free`, `live`, `deleting` or `deleted`; `Settles` ends the
soft delete and is under no fairness. `BitwardenStore`: the objects of the project
(those `inProject` leaves), each with its name, value and note. `KeyName` is the key as it
is written, `Spelling` the names that `ParseKey` reads as the key, `/a/b` and `a//b` among
them: Get, Put and Delete look for the first (`Bearers`, `bitwarden.go:87`), List shows the
objects of any (`Shown`, 194 and 214).
It does not implement the contract, since two objects may bear one name and a
renamed object is still read; `FoundIsHeld`, `AbsentWhenTold`, `ListedIsHeld` and
`NoteCarried` say what is left of it, over `during`, the states of the project while a
call ran. A List is its two calls, one for the names (what they are read as decides over
`ids`) and one for the objects of these.

## Runs

| Run | Question | Result |
| --- | --- | --- |
| `MCPoller` | does the poll loop keep the contract, tell the truth, miss nothing? | holds |
| `MCPollerGcp` | does the copy converge when versions are Secret Manager's numbers? | violated |
| `MCWatchStream` | is the pipeline of a whole call lossless, authorized, audited, and its end told truly by the exit code? | holds |
| `MCWatchStreamLive` | do its goroutines end, does IN_SYNC arrive, does the client converge? | holds |
| `MCCommand` | do concurrent unary calls keep to the policy, list exactly, audit once, drain cleanly; is an exit code to be believed? | holds |
| `MCServerKilled` | is every change in the audit log when the process has ended? | violated |
| `MCLifecycle` | does the server serve only when equipped, close its store after its calls, and stop when told to? | holds |
| `MCGcpStore` | is every call on a Secret Manager key atomic to its caller, do concurrent Puts succeed? | holds |
| `MCAzureStore` | the same contract for Key Vault; is a purged name free, does Delete end? | holds |
| `MCBitwardenStore` | were the values, listings and absences reported ever true? | holds |
| `MCBitwardenStoreTwins` | does a Delete that succeeds remove the secret? | violated |
| `MCKeyCodec` | has a key one written form, do codecs invert, which foreign names pass for keys? | holds |

Bounds. `MCPoller` has two items and three changes (`MaxWrites`), some 75,000
states. Two items are the fewest for a List to be torn between them, and every
clause of the invariant speaks of one or two items; three changes are enough to
write, delete and recreate an item, and to change the other during the same List.
`MCWatchStream` has two items in sibling namespaces, two changes, two requests
(everything, and `a`) besides a malformed one, a window of one response, and
policies under which the caller sees both secrets, only the second, neither
though it holds list on the one and watch on the other, or is refused. Its live
run has one change and one request, for the cost of the temporal check.
`MCCommand` has a command out of thirteen (every method, granted and not, every reason
to refuse but a page token, which no command sends, an unknown user, a wrong password)
and the call of another client out of six, which write, delete, list or are refused; two
keys, one outside change, two policies, and flags under which the command makes its
call, never makes it, or cannot reach the server. Two calls suffice for one to change
what the other lists. `MCServerKilled` has two writes, which are symmetric.
`MCLifecycle` starts from a sound YAML file for each backend and varies one setting in
file, `.env` and environment at once; besides, service principals given in part, lists
of users with every flaw, files that do not read; and has two RPCs, each a unary call
or a watch. `MCGcpStore` has three calls, the fewest for a Put to lose the race to
create and then the secret, two values and three steps of others or failures;
`MCAzureStore` two calls and three steps of others, and purges three times at most
instead of thirty, which leaves room for a first, a middle and a last attempt;
`MCBitwardenStore` two calls, two objects, so that there may be twins, three names (the
key's, another spelling of it, and one that is neither) and two steps of others; what is
there at the start has a note (`MCInit`), as objects the adapter creates have not.
`MCKeyCodec` has all texts of up to six of eight characters: a letter, its
capital, two digits that occur in escapes, and every character with a part in the
grammar. Two namespace levels, segments and names of three, and names of eight and
seven in the backends put every limit within reach. `CHECK_DEADLOCK` is off
everywhere: a stream that has ended, a process that has exited and calls that are done
stop.

Fairness. Go runs a goroutine that can go on: weak fairness of the poller, filter,
handler, shutdown. A subscriber receives while ctx lasts; once it has ended nothing
is assumed of it, for the handler may be gone. A backend polled for ever answers
some poll (strong fairness of `PollSucceeds`): without it no event would ever come,
which the code accepts ("a poll that fails is logged and skipped"). Nothing makes
the backend change or ctx end. `Server` and `Command` state no fairness. In `Lifecycle`
the main goroutine gets on with what is local, the rest of boot once signals are
caught and the way out, for which `Listen` has a timer; nothing is assumed of clients
and backends, so a watch may stay open and a call of the store never come back. In
`AzureStore` every call of the SDK comes back, with whatever answer, and timers
fire (weak fairness of `Progress`); the vault may never settle.

### What the violations show

* `MCPollerGcp`. The Version is the number in the version's resource name
  (`gcp.go:284`), and Secret Manager starts from 1 in a secret created anew. A
  secret deleted and recreated between two polls compares equal (`poll.go:92`):
  its new value is never announced. `domain/secret.go:15` demands that equal
  Versions mean the same revision.
* `MCServerKilled`. The audit record is written after the store is back. A drain
  that times out after 10 s, or a failing Serve, ends the process with changes
  made and not recorded; an Azure Delete may purge for 30 s. `README.md:14`
  promises every change in the audit log. `CleanDrain`, in `MCCommand`, shows that
  a drain in time leaves no such gap.
* `MCBitwardenStoreTwins`. Two Puts of a new key that overlap both create an object
  (`bitwarden.go:127-130`). Delete removes one of them and reports success; the other
  is what the next Get finds. A watch reports such a key UPDATED at every poll, for
  the objects replace each other in `seen` (`poll.go:91`). `BitwardenNoTwins` proves that
  overlapping Puts and people are the only ways to get there, and that with neither a
  Delete that succeeds has removed every object of the key's name.

Where a property of a passing run is weaker than one might expect, that is what the
code gives. `OneRevision` leaves out a secret removed during the call: then version
and create time may be of two secrets. `NoteCarried` speaks of some moment of the Put:
an edit of the note between `Get` and `Update` (`bitwarden.go:149-154`) is lost.
`Blank` in the contract lets a Delete succeed on a container without a version, which
Get and List call not found. And `StatusOf` in `Server` has no UNAVAILABLE, which the
proto promises for a backend that cannot be reached (`vaultlet.proto:20`): handlers
answer INTERNAL to every error they do not know (`handlers.go:74`).

`StoreOutlivesCalls` excepts calls a drain did not wait for, and a List of a poll whose
watch has ended: `GracefulStop` waits for handlers, and the goroutine of Poll is none.
With a watch open no drain ends in time (`server.go:71`), so each takes its 10 s and cuts
short what is still in progress. A signal before `NotifyContext` or after `stop` kills
without a `Close`, which `Stops` and `NothingLeftOpen` leave out.

`Canonical` is not the grammar of the documentation, for the code is not. The comment of
`key.go` (16-17), and in the same words `README.md:115-116` of the repository, admit segments
that begin or end with a hyphen and names that begin with `_`, `-` or `.`; the regular
expressions (28-29) do not, so that `-a/a`, `a-/a` and `a/_a` are of the grammar and `ParseKey`
rejects them. `Canonical` says so: of the texts of the grammar, those of the regular
expressions are keys and the others are none. In the other direction `ParseKey` accepts what
is not of the grammar, `a//b` or `/a/b` (`key.go:76`), and puts it into the one written form.

That it does has consequences where people have named secrets. `Skipped` leaves two kinds of foreign names that are taken for a
key whose own name differs, so that List shows a key that Get looks for elsewhere: in
Secret Manager and Key Vault those with separators at the ends, such as `-1a-1b`, and in Key
Vault those with capitals, `a-1B` (`gcp/name.go:49`, `azure/name.go:57`). Bitwarden needs no
codec and has the same anomaly: List reads names with `ParseKey` (`bitwarden.go:194`, 214) and
`resolveID` compares them with the key's own (87), so for an object named `/a/b` or `a//b` List
and Watch show `a/b`, Get answers NotFound, Delete too, and Put creates a second object, which
List then shows besides the first. The comment there (191-193) has names that do not follow
the grammar skipped as "not ours to report". `ListedIsHeld` therefore claims a name that
`ParseKey` reads as the key and not the key's own, and `FoundIsHeld`, `AbsentWhenTold` and
`DeleteRemoves` are about the key's own. `BitwardenOneSpelling` proves that such names come
from people alone. `ExitTells` has nothing
to say of a command that was interrupted, ran out of time or lost its connection: the
server may accept its request after it is gone.

### What reading showed besides

These need no run to be seen, and none is spent on them.

* `created_at` is the container's (`gcp.go:295`), the same for all versions of a secret,
  though the proto tells clients to order by it (`vaultlet.proto:62`).
* `stop` is deferred in the CLI (`cmd/vaultlet-cli/main.go:31`), so a second interrupt is
  swallowed until the command is back, although the comment above it has it "kill us
  outright, even if a command is ignoring cancellation". `vaultlet put` reading a terminal
  is such a command (`put.go:98`).
* `main.go:34` ends an interrupted command with exit code 0, but `rpcError` drops the error
  it reports (`client.go:79`): an interrupted get, put, list or delete exits with 1. This is
  what keeps `ExitTells` true, and the mutant `FailsUnlessCanceled` what would come of
  `%w` in that place.
* `-o` is validated by get, list and watch only: a put or delete with an unknown format
  goes ahead and prints text.
* `--expected-version` promises ABORTED (`put.go:76`, `vaultlet.proto:19`); the server answers
  UNIMPLEMENTED, which `TODO.md:64` says.
* `README.md:210` of the repository writes `projectid` where the tag is `project_id`
  (`bitwarden/config.go:15`), and a name that appears twice in `auth.users` is no error: the last
  password counts, and the grants of both (`auth.go:28`).

## Proofs

Every safety invariant and every action property of a passing run is proved for every
value of the constants: any number of secrets, keys, calls, objects, values, changes and
purges, any policy, any configuration that may be found, texts of any length over any
alphabet and any limits on them.
So are `TypeOK`, of every module that has one, and the refinements of `WatchContract` and
`StoreContract`. Each proof has an inductive invariant, which TLC checked on the instance of
the runs before it was proved (`IInv` in `MCPoller`, the others with that run's bounds); one
lemma per action or kind of action shows that it is preserved, and the theorems follow from
it. `PROJECT.json` lists them all.

Assumptions are named, and TLC evaluates each of them in a run. Most give constants their
types (`KeyAssumption`, `BoundAssumption`, `ServerAssumption`, `StreamAssumption`,
`CommandAssumption`, `LifecycleAssumption`, `DepthAssumption`, `AzureAssumption`,
`BitwardenAssumption`, which also has the objects finitely many) or keep the tokens for
"nothing" apart from what they stand beside (`NoneAssumption`, `CallAssumption`,
`BlankAssumption`, `ContainerAssumption`). `CodecAssumption` says of characters what is so in
ASCII: letters, digits and separators are apart, and each letter has a capital of its own.
Two say something of the world:
`OneObjectPerKey` and `VersionsIdentify` are what an adapter owes the poller. `MCPollerGcp`
shows what becomes of the properties without the second, and `MCBitwardenStoreTwins` that
the Bitwarden adapter does not keep the first; nor does it where people have named an object
`/a/b` beside one named `a/b`. So `Silent`, `CopyConverges` and `Converges` of the passing runs say
nothing of two objects under one key, nor of versions that are used again. They are behind the theorems about `Poller` and
`WatchStream`, and no others.

**The loop** (first half of `Poller_proofs`). That a subscriber is caught up when Poll rests follows from
what the diff has done so far, that from what the List has read so far, and that from what the
items were while it read. `PollInv` states this stage by stage: `Offers` (what can be pending
where), `Windows` (the backend's value is in both windows, and the later window is part of the
earlier), `Metas` (a List has one true value of every item it has read, or the item was absent),
`Filed` (`seen` files a revision under its key), `Progress` (each item is caught up or still in
`metas`, or in `gone`), `Behind` (`seen` is older than what the next List may show), and
`Honest`. Nothing in it speaks of a receiver, so it serves both compositions: `PollKeeps` has it
preserved by the loop, the backend, the end of ctx and `Taken`, and `LoopOffers` says what else
one needs to know of a step of the loop, namely that it is silent, gives up, announces
IN_SYNC, or puts one event on offer that fits `seen` and is filed there.

**One subscriber** (`Poller_proofs`). `IInv` adds that the copy and `seen` differ by the event on
offer (`Replica`), where IN_SYNC has been received (`InSyncTold`) and that the event fits the copy
(`Fits`). From it come `PollerTypeOK`, `Replica`, `Honest`, `CaughtUp`, `InSyncOnce`, the action
property `Discipline`, and `Implements`: the initial state maps to one of `WatchContract`'s, and
every step to a step or a stutter. `MirrorTheorem` is what `CopyConverges` comes to when nothing
has changed since a List that succeeded: the copy is exactly what the backend holds, with nothing
left over. `SteadyTheorem` says that it stays so, whatever errors later polls meet and without an
event being sent, until the backend changes.

**The whole stream** (`WatchStream_proofs`). `Pipeline` relates two goroutines' hands, the buffer
and the copy of the client key by key, as a path through the events on their way (`Leads`); the
lemmas about it say how it fares when an event joins at the end, leaves at the front, or is
withheld. It is not inductive: who holds an event depends on where the three goroutines are
(`Stations`), and whether ctx has ended (`Endings`, with `CleanEnd`). `Order`, the invariant behind
`ClientDiscipline`, says of every event still on its way, and not only of the next, that it
fits what the client will hold when it gets there, and where IN_SYNC stands among them. It
has to go on to the end of the call, when some events never arrive, so it
speaks of those that still may (`Deliverable`). Also proved: `TypeOK`, `Authorized`, `Accounted`.
`StreamCaughtUp` carries `CaughtUp` to the far end: when Poll rests and nothing is on its way,
the client knows it is in sync and has, of what it may see, what the backend holds.
`StreamWindsDown` gives the variant behind `NoLeak`: once ctx has ended, each step of the
call's goroutines moves Poll on to a later stage (`StagesLeft`), or takes from the set of what
is left to do in this one (`WorkLeft`), or leaves Poll alone and shortens the way of filter and
handler (`HopsLeft`), and nobody else's step undoes any of it.

**The unary calls** (`Server_proofs`). Grants inherit downwards (`Inheritance`), the gates of List
and Watch turn nobody away who may see a key (`GatesAdmit`), and List's gate admits only those
who may list something in reach (`ListGateIsTight`). The same does not hold of Watch's: it admits
a caller who holds list in one place and watch in another and sees nothing, one of the policies of
`MCWatchStream`. `ServerInv` is the story of each call: what has reached the store was let through
(`Through`), a call that changed the store is not answered as if it had not (`Changed`), a
returned call has its audit record (`Recorded`), a listing in progress has what it
has read (`Listed`); and `Ending`, when calls may be cut. `Authorized`, `ExactListing`, `Accounted`
and `CleanDrain` follow. `CommandIsServer` shows that `Command` takes no step `Server` does not, so
all of this holds beside a command of the CLI, and `CommandInv` adds what the command knows of its
call, which gives `ExitTells`.

**The process** (`Lifecycle_proofs`). `LifeInv`: what is deferred at each stage of boot
(`Deferred`), which calls may be inside the store (`Placed`), when no handler runs (`Drained`),
and what boot has found good so far (`Vetted`). From it `StoreOutlivesCalls`, `NothingLeftOpen`
and `Configured`. `LifecycleForward` is the part of `Stops` that needs no fairness: every step of
main's own and every failure brings main nearer to its exit, and no step of a call, a client or
a signal sets it back.

**The adapters.** `GcpInv` says what a call has learned of the container and that it stays
true until the container is removed (`Informed`); `RacingPutsSucceed` and `OneRevision` are part of
it. `AzureInv` needs only what each call is doing; `NameFree` follows from the guards
of the steps that end a Delete. `GcpKeepsContract` and `AzureKeepsContract` go through the actions one
by one: the API call where a call takes effect is the contract's step, the others stutter.
`BitwardenInv` has what a call goes by, an object found, a note read, the absence of any
object, true at a moment of that call and not necessarily now; from it `FoundIsHeld`,
`AbsentWhenTold`, `ListedIsHeld` and `NoteCarried`. `AzureBounded` counts the steps a call has
left (`StepsLeft`), at most twice the purge attempts. `BitwardenNoTwins` is the counterpart of
`MCBitwardenStoreTwins`: if no two Puts overlap and nobody else edits the project, there are no
twins, and then `DeleteRemoves` does hold. Both conditions are needed, as the run shows of the
first; Deletes, Gets, Lists and calls that fail halfway may overlap with anything.
`BitwardenOneSpelling`: in a project that only the adapters change and that has no other
spelling of the key to begin with, List shows under the key what Get goes by, for Create and
Update write no other name.

**The codecs** (`KeyCodec_proofs`). The library's induction theorems have an operator for a
parameter, which the backends of TLAPS used for these proofs cannot instantiate. `Induction` says the same of a set of numbers
and follows from the least number that is not in it; `SeqInduction` says it of a set of texts.
With these, `LoopExists` and `LoopsAgree` give the recursive functions their values round by
round, and lemmas say what each loop computes: `SplitPlaces`, which character of which segment
each character of a text becomes, and with it that `ParseNamespace` accepts what is well
formed and nothing else (`NamespaceIsWellFormed`, `WellFormedIsNamespace`); `ReadEscape` and `EscapeRead`, that
decoding undoes escaping and the other way round. From these, for a text of any length, what
`ParseKey` accepts is written well formed, what is well formed is parsed and written as it was
read, and what only the comment's grammar admits is rejected, because a text without
separators to trim would be written as it was read (`ReadAsWritten`; all in `KeysAreCanonical`), the codecs invert (`NamesRoundTrip`), and foreign
names are no keys, but for the kinds named above (`ForeignNamesAreSkipped`).

Model-checked only: liveness (`CopyConverges`, `Converges`, `Silent`, `NoLeak`, `Announced`,
`Stops`, `Terminates`), which needs fairness and ENABLED. What these rest on besides fairness
is proved, for all but `Announced`: that the copy is right wherever it comes to rest
(`MirrorTheorem`, `SteadyTheorem`, `StreamCaughtUp`), and that every step brings the end nearer
(`StreamWindsDown`, `LifecycleForward`, `AzureBounded`). The properties of the three runs that
find a violation are refuted, and so not proved either; `BitwardenNoTwins` says under which
conditions one of them holds.

## Plan

Done: all modules above, and the proofs above. To come: the order of what one client reads
and what another does, with `Server` and `PollLoop` over one store, and a theorem that a Put
that has returned is seen by the next poll.

## Not modelled

The AWS adapter has no operations yet. The logging interceptors keep no state and change
no answer. Generated code is generated. Of the CLI, how output is rendered; of secrets,
redaction and defensive copies, which concern memory and not states. The bytes of values,
TLS, bcrypt and the wording of messages are data the properties do not tell apart. Time is
not modelled: a tick or a deadline may come whenever it is waited for, so the length of
the poll interval and dropped ticks do not show.
