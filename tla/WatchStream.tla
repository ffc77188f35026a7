------------------------------ MODULE WatchStream ------------------------------
(***************************************************************************)
(* One WatchSecrets call from end to end: the gRPC handler                 *)
(* (grpcserver/handlers.go), Service.Watch and the goroutine of            *)
(* filterEvents (app/service.go), the goroutine of watch.Poll (PollLoop),  *)
(* and at the other end of the HTTP/2 stream the client, `vaultlet watch`  *)
(* (cli/watch.go), whose copy of the secrets is that of whoever reads its  *)
(* output.  The goroutines hand events on over unbuffered channels and     *)
(* share one ctx; the stream buffers up to WireSize responses.             *)
(***************************************************************************)
EXTENDS PollLoop, Policy

CONSTANTS
    NsOf(_),        \* the namespace of a key
    Caller,         \* the principal the interceptor authenticated
    PolicyChoices,  \* the policies the server may have been configured with
    NsChoices,      \* the namespaces the client may ask for
    Malformed,      \* stands for a namespace that does not parse
    WireSize        \* bound: responses the flow-control window lets in flight

ASSUME StreamAssumption ==
    /\ PolicyChoices \subseteq Policies
    /\ NsChoices \subseteq Namespace
    /\ Caller \in Principal
    /\ Malformed \notin Namespace
    /\ \A k \in Key : NsOf(k) \in Namespace
    /\ \A ns \in NsChoices, i \in Item : Contains(ns, NsOf(KeyOf(i)))
    /\ WireSize \in Nat \ {0}

VARIABLES
    policy,     \* compiled at boot, never changed
    request,    \* the namespace of the WatchSecretsRequest
    handler,    \* where the handler is, and the status it returned
    sending,    \* the event the handler is in Send with
    filter,     \* where the goroutine of filterEvents is
    passing,    \* the event it is parked on
    audits,     \* the audit records of this call
    wire,       \* responses on their way to the client
    hungUp,     \* who ended the call from outside: the client, or the transport
    client,     \* the client process: reading, or its exit code
    view,       \* the client's copy, built from the stream alone
    synced      \* the client has received IN_SYNC

serviceVars == <<filter, passing, audits>>
handlerVars == <<handler, sending>>
clientVars  == <<client, view, synced>>
callVars    == <<policy, request>>
vars == <<pollVars, callVars, serviceVars, handlerVars, wire, hungUp, clientVars>>

-----------------------------------------------------------------------------
(* The handler up to the loop, and Service.Watch, which it calls. *)

Return(status) == handler' = [at |-> "returned", status |-> status]

Audit(decision, outcome) ==
    audits' = Append(audits, [action |-> "watch", decision |-> decision, outcome |-> outcome])

RefuseMalformed ==
    /\ handler.at = "call"
    /\ request = Malformed
    /\ Return("InvalidArgument")
    /\ UNCHANGED <<pollVars, callVars, sending, serviceVars, wire, hungUp, clientVars>>

\* Mutant: the policy is asked about list only.
AdmittedToList == canList(policy, Caller, request)

Admitted == canWatch(policy, Caller, request)

Deny ==
    /\ handler.at = "call"
    /\ request # Malformed
    /\ ~Admitted
    /\ Audit("deny", "denied")
    /\ Return("PermissionDenied")
    /\ UNCHANGED <<pollVars, callVars, sending, filter, passing, wire, hungUp, clientVars>>

\* The store's Watch is watch.Poll.  It runs in the handler's goroutine until
\* the first List is over.
Admit ==
    /\ handler.at = "call"
    /\ request # Malformed
    /\ Admitted
    /\ Subscribe \/ SubscribeTooLate
    /\ handler' = [handler EXCEPT !.at = "subscribing"]
    /\ UNCHANGED <<callVars, sending, serviceVars, wire, hungUp, clientVars>>

WatchFails ==
    /\ handler.at = "subscribing"
    /\ pc = "rejected"
    /\ Audit("allow", "error")
    /\ Return("Internal")
    /\ UNCHANGED <<pollVars, callVars, sending, filter, passing, wire, hungUp, clientVars>>

WatchStarts ==
    /\ handler.at = "subscribing"
    /\ pc \notin {"snapshot", "rejected"}
    /\ Audit("allow", "success")
    /\ filter' = "receiving"
    /\ handler' = [handler EXCEPT !.at = "ranging"]
    /\ UNCHANGED <<pollVars, callVars, sending, passing, wire, hungUp, clientVars>>

-----------------------------------------------------------------------------
(* filterEvents. *)

\* Mutant: the key is checked against the request but not against the policy.
PassesUnchecked(event) ==
    event # InSync => Contains(request, NsOf(KeyOf(event.meta.item)))

\* Mutant: IN_SYNC, which carries no key, is filtered out.
PassesKeysOnly(event) ==
    event # InSync /\ visible(policy, Caller, request, NsOf(KeyOf(event.meta.item)))

Passes(event) ==
    event # InSync => visible(policy, Caller, request, NsOf(KeyOf(event.meta.item)))

\* The receive from Poll's channel, which lets the poller go on; the event is
\* dropped or the goroutine parks on out with it.
FilterReceives ==
    /\ filter = "receiving"
    /\ Taken
    /\ IF Passes(pending)
       THEN filter' = "parked" /\ passing' = pending
       ELSE UNCHANGED <<filter, passing>>
    /\ UNCHANGED <<callVars, handlerVars, audits, wire, hungUp, clientVars>>

\* Poll has closed its channel, or ctx ends while the goroutine is parked.
FilterEnds ==
    /\ \/ filter = "receiving" /\ pc = "closed"
       \/ filter = "parked" /\ ctxDone
    /\ filter' = "done"
    /\ passing' = NoEvent
    /\ UNCHANGED <<pollVars, callVars, handlerVars, audits, wire, hungUp, clientVars>>

-----------------------------------------------------------------------------
(* The handler's loop over the filtered channel. *)

HandlerReceives ==
    /\ handler.at = "ranging"
    /\ filter = "parked"
    /\ handler' = [handler EXCEPT !.at = "sending"]
    /\ sending' = passing
    /\ filter' = "receiving"
    /\ passing' = NoEvent
    /\ UNCHANGED <<pollVars, callVars, audits, wire, hungUp, clientVars>>

\* The range ends because the channel was closed.
HandlerEnds ==
    /\ handler.at = "ranging"
    /\ filter = "done"
    /\ Return("OK")
    /\ UNCHANGED <<pollVars, callVars, sending, serviceVars, wire, hungUp, clientVars>>

\* Send returns once the stream has taken the response.
SendSucceeds ==
    /\ handler.at = "sending"
    /\ Len(wire) < WireSize
    /\ wire' = Append(wire, sending)
    /\ handler' = [handler EXCEPT !.at = "ranging"]
    /\ sending' = NoEvent
    /\ UNCHANGED <<pollVars, callVars, serviceVars, hungUp, clientVars>>

\* Mutant: every failed Send is taken for a client that hung up.
SendFailsAlwaysOK ==
    /\ handler.at = "sending"
    /\ Return("OK")
    /\ sending' = NoEvent
    /\ UNCHANGED <<pollVars, callVars, serviceVars, wire, hungUp, clientVars>>

\* Mutant: a failed Send is logged and the loop goes on.
SendFailsCarriesOn ==
    /\ handler.at = "sending"
    /\ handler' = [handler EXCEPT !.at = "ranging"]
    /\ sending' = NoEvent
    /\ UNCHANGED <<pollVars, callVars, serviceVars, wire, hungUp, clientVars>>

\* Send fails because ctx has ended, or for a reason of its own.
SendFails ==
    /\ handler.at = "sending"
    /\ Return(IF ctxDone THEN "OK" ELSE "Internal")
    /\ sending' = NoEvent
    /\ UNCHANGED <<pollVars, callVars, serviceVars, wire, hungUp, clientVars>>

-----------------------------------------------------------------------------
(* gRPC and the client, both external. *)

\* The user interrupts the client; or the server stops or the connection breaks,
\* and no status gets through any more.  Either way ctx ends.
HangUp ==
    /\ CtxEnds
    /\ client = "reading"
    /\ hungUp' \in {"client", "transport"}
    /\ UNCHANGED <<callVars, serviceVars, handlerVars, wire, clientVars>>

\* When the handler has returned gRPC ends the stream's ctx.
StreamEnds ==
    /\ handler.at = "returned"
    /\ CtxEnds
    /\ UNCHANGED <<callVars, serviceVars, handlerVars, wire, hungUp, clientVars>>

\* Recv, and printEvent.
ClientReceives ==
    /\ client = "reading"
    /\ wire # <<>>
    /\ wire' = Tail(wire)
    /\ view' = Apply(Head(wire), view)
    /\ synced' = (synced \/ Head(wire) = InSync)
    /\ UNCHANGED <<pollVars, callVars, serviceVars, handlerVars, hungUp, client>>

\* printEvent fails, for lack of space say; the connection is closed.
PrintFails ==
    /\ client = "reading"
    /\ wire # <<>>
    /\ wire' = Tail(wire)
    /\ CtxEnds
    /\ hungUp' = "client"
    /\ client' = "exit 1"
    /\ UNCHANGED <<callVars, serviceVars, handlerVars, view, synced>>

\* Recv returns an error: that of the client's own ctx, that of the connection, or,
\* when all responses have been read, the status of the handler.
ClientEnds ==
    /\ client = "reading"
    /\ \/ hungUp = "client" /\ client' = "exit 0"
       \/ hungUp = "transport" /\ client' = "exit 1"
       \/ /\ hungUp # "transport" /\ handler.at = "returned" /\ wire = <<>>
          /\ client' = IF handler.status = "OK" THEN "exit 0" ELSE "exit 1"
    /\ UNCHANGED <<pollVars, callVars, serviceVars, handlerVars, wire, hungUp, view, synced>>

-----------------------------------------------------------------------------
Init ==
    /\ PollInit
    /\ policy \in PolicyChoices
    /\ request \in NsChoices \cup {Malformed}
    /\ handler = [at |-> "call", status |-> "none"]
    /\ sending = NoEvent
    /\ filter = "off"
    /\ passing = NoEvent
    /\ audits = <<>>
    /\ wire = <<>>
    /\ hungUp = "nobody"
    /\ client = "reading"
    /\ view = [k \in Key |-> NoRev]
    /\ synced = FALSE

\* What Poll does by itself; it is called by Admit.
PollStep ==
    /\ LoopStep
    /\ pc # "idle"
    /\ UNCHANGED <<callVars, serviceVars, handlerVars, wire, hungUp, clientVars>>

ServiceStep == Admit \/ Deny \/ WatchFails \/ WatchStarts
FilterStep  == FilterReceives \/ FilterEnds
HandlerStep == RefuseMalformed \/ HandlerReceives \/ HandlerEnds \/ SendSucceeds
Environment ==
    /\ BackendStep
    /\ UNCHANGED <<callVars, serviceVars, handlerVars, wire, hungUp, clientVars>>

Next ==
    \/ PollStep \/ ServiceStep \/ FilterStep \/ HandlerStep \/ SendFails
    \/ HangUp \/ StreamEnds \/ ClientReceives \/ PrintFails \/ ClientEnds \/ Environment

(***************************************************************************)
(* Go runs every goroutine that can go on; a Send that waits for the       *)
(* window returns when ctx ends; the client reads while it stays.  A       *)
(* backend that is polled for ever answers again and again.                *)
(***************************************************************************)
Fairness ==
    /\ WF_vars(PollStep)
    /\ SF_vars(PollStep /\ PollSucceeds)
    /\ WF_vars(ServiceStep)
    /\ WF_vars(FilterStep)
    /\ WF_vars(HandlerStep)
    /\ WF_vars(ctxDone /\ SendFails)
    /\ WF_vars(StreamEnds)
    /\ WF_vars(~ctxDone /\ ClientReceives)

Spec == Init /\ [][Next]_vars /\ Fairness

-----------------------------------------------------------------------------
TypeOK ==
    /\ PollTypeOK
    /\ policy \in PolicyChoices
    /\ request \in NsChoices \cup {Malformed}
    /\ handler.at \in {"call", "subscribing", "ranging", "sending", "returned"}
    /\ handler.status \in {"none", "OK", "InvalidArgument", "PermissionDenied", "Internal"}
    /\ sending \in Event \cup {NoEvent}
    /\ filter \in {"off", "receiving", "parked", "done"}
    /\ passing \in Event \cup {NoEvent}
    /\ wire \in Seq(Event)
    /\ hungUp \in {"nobody", "client", "transport"}
    /\ client \in {"reading", "exit 0", "exit 1"}
    /\ view \in [Key -> Revision \cup {NoRev}]
    /\ synced \in BOOLEAN

\* The keys the caller may both list and watch within the namespace asked for.
Visible ==
    {k \in Key : request # Malformed /\ visible(policy, Caller, request, NsOf(k))}

Maybe(event) == IF event = NoEvent THEN <<>> ELSE <<event>>
InFlight == wire \o Maybe(sending) \o Maybe(passing) \o Maybe(pending)

\* Event e is about key k.
Concerns(e, k) == e # InSync /\ KeyOf(e.meta.item) = k

\* A copy that holds v under k holds w there once the first n events of es have
\* been applied to it in turn: w is what the last of them about k tells, or v.
Leads(v, es, n, k, w) ==
    \/ w = v /\ \A m \in 1..n : ~Concerns(es[m], k)
    \/ \E m \in 1..n :
          /\ Concerns(es[m], k)
          /\ w = Told(es[m])
          /\ \A later \in m+1..n : ~Concerns(es[later], k)

\* While nobody has given up, the client's copy and the events in the stream, the
\* handler, the filter and the poller, applied in that order, make up Poll's seen
\* map of the visible keys: three goroutines and a buffer lose, repeat or reorder
\* nothing.
Pipeline ==
    /\ handler.at \in {"subscribing", "ranging", "sending"}
    /\ filter # "done"
    /\ client = "reading"
    /\ pc # "closed"
    => \A k \in Visible : Leads(view[k], InFlight, Len(InFlight), k, seen[k])

\* No metadata of a secret the caller may not both list and watch gets past the
\* filter, though Poll sees the whole namespace.
Authorized ==
    /\ \A k \in Key \ Visible : view[k] = NoRev
    /\ \A e \in {sending, passing} \cup {wire[n] : n \in 1..Len(wire)} :
          e \notin {NoEvent, InSync} => KeyOf(e.meta.item) \in Visible

\* A call the policy refuses never reaches the backend, and every call leaves
\* exactly one audit record, which tells how the call went.
Accounted ==
    /\ pc # "idle" => canWatch(policy, Caller, request)
    /\ handler.at \in {"call", "subscribing"} => audits = <<>>
    /\ handler.at \in {"ranging", "sending"} => Len(audits) = 1
    /\ handler.at = "returned" =>
          \/ handler.status = "InvalidArgument" /\ audits = <<>>
          \/ /\ Len(audits) = 1
             /\ (audits[1].decision = "deny") = (handler.status = "PermissionDenied")
             /\ audits[1].outcome = "error" => handler.status = "Internal"

\* The handler reports a clean end only of a stream that was ended from outside, and
\* the command exits with 0 only if it was the user who ended it: a watch that is
\* lost, for whatever reason, never looks as if nothing had happened.
CleanEnd ==
    /\ handler.status = "OK" => hungUp # "nobody"
    /\ client = "exit 0" => hungUp = "client"

\* What the client receives fits what it holds, and no live change comes before
\* IN_SYNC or is ADDED, UPDATED and DELETED out of turn.
ClientDiscipline ==
    [][ ClientReceives =>
          LET e == Head(wire)
          IN  IF e = InSync THEN ~synced
              ELSE /\ Suits(e, view[KeyOf(e.meta.item)])
                   /\ e.type = "added" \/ synced ]_vars

\* When the call's ctx has ended the handler returns and both goroutines end.
NoLeak ==
    ctxDone ~> /\ handler.at = "returned"
               /\ filter \in {"off", "done"}
               /\ pc \in {"idle", "rejected", "closed"}

\* IN_SYNC gets to every client that stays, also to one that may see nothing.
Announced == <>(handler.at = "returned" \/ ctxDone \/ synced)

\* When the backend stays as it is, the copy of a client that stays becomes, and
\* remains, the visible part of what the backend holds.
Converges ==
    <>[](\/ handler.at = "returned"
         \/ ctxDone
         \/ {view[k] : k \in Key} \ {NoRev} =
               {Value(i) : i \in {j \in Item : KeyOf(j) \in Visible}} \ {NoRev})
=============================================================================
