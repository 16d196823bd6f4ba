--------------------------- MODULE ControlSession ---------------------------
(***************************************************************************)
(* The control sessions of one executor ID: how the dispatcher's transport *)
(* publishes, registers, renews, retires and joins the owner of a session  *)
(* (internal/dispatcher/transport/rpc), the registry entry beside it       *)
(* (executor_registry.go), the enrolment that admits it, and the binding   *)
(* the executor holds of it (internal/executor/transport/rpc).             *)
(*                                                                         *)
(* Sessions are numbered in the order the executor starts them: it starts  *)
(* one only after the last has joined locally (Node.reserve).  The         *)
(* dispatcher may still be ending earlier ones.                            *)
(*                                                                         *)
(* A deadline is the ticks left until it; both ends' clocks run alike.     *)
(* One step is one section under BidiServer.mu, Dispatcher.mu,             *)
(* SessionOwner.mu or BidiClient.mu, one transaction, or one wait ending.  *)
(***************************************************************************)
EXTENDS Naturals, FiniteSets

CONSTANTS
  MaxSessions,   \* bound on sessions
  LeaseDuration, \* in ticks
  RequestTimeout,\* of a renewal, and of the probe that serves it
  Certs,         \* node certificates the executor may present
  Enforced,      \* enrolment is enforced
  MaxWork,       \* bound on ordinary mutations, renewals among them
  MaxForks,      \* bound on their continuations
  MaxChanges     \* bound on the administrator's changes, a shutdown among them

ASSUME SessionAssumption ==
  /\ MaxSessions \in Nat /\ MaxWork \in Nat /\ MaxForks \in Nat /\ MaxChanges \in Nat
  /\ LeaseDuration \in Nat /\ RequestTimeout \in 1..LeaseDuration
  /\ 0 \notin Certs /\ Enforced \in BOOLEAN

Sessions == 1..MaxSessions
Renewals == 1..MaxWork

VARIABLES
  \* SessionOwner.
  st,        \* st[s]: none, active, registered or retired
  refs,      \* refs[s]: mutations admitted and not finished
  drained,   \* drained[s]: mutationsDrained is closed
  deadline, sequence,  \* of s's lease
  lapsed,    \* ticks for which s has been registered though its certificate is not
             \* bound or its executor has gone
  \* BidiServer: the current client, its lane and the offers.
  client, lane, current, preds, offers, confirmed,
  \* handleSession: its phase, the predecessors it waits for, whether it holds its
  \* setup mutation, whether its context is cancelled.
  handler, waits, setup, cancelled,
  \* Other handlers: BindSession, renewals with the time left for the probe, and the
  \* ordinary mutations held and made.
  bind, renewal, probe, held, made,
  \* The dispatcher: the registry's entry, and the two flags of Close.
  entry, closing, closed,
  \* Enrolment: the certificate bound to the ID, and the one s presented.
  bound, cert, changes,
  \* BidiClient: its phase, deadline, last renewal, whether that is awaited, and the
  \* deadline it would give.
  phase, until, sent, awaited, offer

owner      == <<st, refs, drained>>
lease      == <<deadline, sequence, lapsed>>
transport  == <<client, lane, current, preds, offers, confirmed>>
invocation == <<handler, waits, setup, cancelled>>
calls      == <<bind, renewal, probe, held, made>>
dispatcher == <<entry, closing, closed>>
enrolment  == <<bound, cert, changes>>
executor   == <<phase, until, sent, awaited, offer>>
vars == <<owner, lease, transport, invocation, calls, dispatcher, enrolment, executor>>

Handler == {"none", "admitted", "waits", "connecting", "confirming", "serving", "closing",
            "leaving", "draining", "ended"}
Bind == {"none", "sent", "confirmed", "acked"}
Renewal == {"none", "sent", "probing", "probed", "acked"}

TypeOK ==
  /\ st \in [Sessions -> {"none", "active", "registered", "retired"}]
  /\ refs \in [Sessions -> Nat] /\ drained \in [Sessions -> BOOLEAN]
  /\ deadline \in [Sessions -> 0..LeaseDuration] /\ sequence \in [Sessions -> 0..MaxWork]
  /\ client \in Sessions \cup {0} /\ lane \in BOOLEAN /\ current \in Sessions \cup {0}
  /\ preds \subseteq Sessions /\ offers \subseteq Sessions
  /\ confirmed \in [Sessions -> BOOLEAN]
  /\ handler \in [Sessions -> Handler] /\ waits \in [Sessions -> SUBSET Sessions]
  /\ setup \in [Sessions -> BOOLEAN] /\ cancelled \in [Sessions -> BOOLEAN]
  /\ bind \in [Sessions -> Bind] /\ renewal \in [Sessions \X Renewals -> Renewal]
  /\ probe \in [Sessions \X Renewals -> 0..RequestTimeout]
  /\ held \in [Sessions -> Nat] /\ made \in 0..(MaxWork + MaxForks)
  /\ entry \in Sessions \cup {0} /\ closing \in BOOLEAN /\ closed \in BOOLEAN
  /\ bound \in Certs \cup {0} /\ cert \in [Sessions -> Certs \cup {0}]
  /\ lapsed \in [Sessions -> 0..(LeaseDuration + RequestTimeout - 1)] /\ changes \in Nat
  /\ phase \in [Sessions -> {"none", "offered", "armed", "negotiated", "closed"}]
  /\ until \in [Sessions -> 0..LeaseDuration] /\ sent \in [Sessions -> 0..MaxWork]
  /\ awaited \in [Sessions -> BOOLEAN] /\ offer \in [Sessions -> 0..LeaseDuration]

Init ==
  /\ st = [s \in Sessions |-> "none"] /\ refs = [s \in Sessions |-> 0]
  /\ drained = [s \in Sessions |-> FALSE]
  /\ deadline = [s \in Sessions |-> 0] /\ sequence = [s \in Sessions |-> 0]
  /\ client = 0 /\ lane = FALSE /\ current = 0 /\ preds = {} /\ offers = {}
  /\ confirmed = [s \in Sessions |-> FALSE]
  /\ handler = [s \in Sessions |-> "none"] /\ waits = [s \in Sessions |-> {}]
  /\ setup = [s \in Sessions |-> FALSE] /\ cancelled = [s \in Sessions |-> FALSE]
  /\ bind = [s \in Sessions |-> "none"]
  /\ renewal = [p \in Sessions \X Renewals |-> "none"]
  /\ probe = [p \in Sessions \X Renewals |-> 0]
  /\ held = [s \in Sessions |-> 0] /\ made = 0
  /\ entry = 0 /\ closing = FALSE /\ closed = FALSE
  /\ bound \in Certs \cup {0} /\ cert = [s \in Sessions |-> 0]
  /\ lapsed = [s \in Sessions |-> 0] /\ changes = 0
  /\ phase = [s \in Sessions |-> "none"] /\ until = [s \in Sessions |-> 0]
  /\ sent = [s \in Sessions |-> 0] /\ awaited = [s \in Sessions |-> FALSE]
  /\ offer = [s \in Sessions |-> 0]

-----------------------------------------------------------------------------
(* SessionOwner and its mutations.  *)

Active(s) == st[s] \in {"active", "registered"}
Available(s) == st[s] = "registered" /\ deadline[s] > 0

\* The lease of a retired owner is never read again: it is left at 0.
Retired(s) == [t \in Sessions |-> IF t = s THEN "retired" ELSE st[t]]
Drained(s) == [t \in Sessions |-> drained[t] \/ (t = s /\ refs[t] = 0)]
NoLease(s) ==
  /\ deadline' = [t \in Sessions |-> IF t = s THEN 0 ELSE deadline[t]]
  /\ sequence' = [t \in Sessions |-> IF t = s THEN 0 ELSE sequence[t]]
  /\ lapsed' = [t \in Sessions |-> IF t = s THEN 0 ELSE lapsed[t]]

Retires(s) == st' = Retired(s) /\ drained' = Drained(s) /\ UNCHANGED refs /\ NoLease(s)

\* A mutation is admitted: the caller has checked the state it needs.
Reserves(s) == refs' = [refs EXCEPT ![s] = @ + 1] /\ UNCHANGED <<st, drained>>

Finishes(s) ==
  /\ refs' = [refs EXCEPT ![s] = @ - 1]
  /\ drained' = [drained EXCEPT ![s] = @ \/ (refs[s] = 1 /\ st[s] = "retired")]
  /\ UNCHANGED st

\* retireLocked, of the current client: the owner moves to the predecessors of
\* its lane, which are swept.
retireLocked(s) ==
  /\ Retires(s)
  /\ preds' = {p \in preds \cup {s} : ~ drained'[p]}

\* RemoveClient: only the exact current owner is retired.
RemoveClient(s) ==
  \/ /\ client = s /\ retireLocked(s) /\ client' = 0 /\ lane' = TRUE
     /\ current' = IF current = s THEN 0 ELSE current
  \/ client # s /\ UNCHANGED <<owner, lease, client, lane, current, preds>>

\* Ordinary work: a request, a stream frame or a call of this dispatcher.
AdmitMutation(s) ==
  /\ Available(s) /\ made < MaxWork /\ Reserves(s)
  /\ held' = [held EXCEPT ![s] = @ + 1] /\ made' = made + 1
  /\ UNCHANGED <<bind, renewal, probe>>
  /\ UNCHANGED <<lease, transport, invocation, dispatcher, enrolment, executor>>

\* A continuation of work in flight; retirement does not refuse it.
Fork(s) ==
  /\ held[s] > 0 /\ made < MaxWork + MaxForks /\ Reserves(s)
  /\ held' = [held EXCEPT ![s] = @ + 1] /\ made' = made + 1
  /\ UNCHANGED <<bind, renewal, probe>>
  /\ UNCHANGED <<lease, transport, invocation, dispatcher, enrolment, executor>>

Finish(s) ==
  /\ held[s] > 0 /\ Finishes(s) /\ held' = [held EXCEPT ![s] = @ - 1]
  /\ UNCHANGED <<bind, renewal, probe, made>>
  /\ UNCHANGED <<lease, transport, invocation, dispatcher, enrolment, executor>>

-----------------------------------------------------------------------------
(* handleSession: negotiation, registration and teardown.  *)

At(s, h) == handler' = [handler EXCEPT ![s] = h]
Unbinding == UNCHANGED <<waits, setup, cancelled>>

\* Bound: the certificate of the session is the one enrolled.
Enrolled(c) == Enforced => bound = c

\* Admit: the token it presents was issued for the ID and is spent, which binds the
\* certificate, or the recorded binding decides.
admitNode(c) ==
  \/ Enforced /\ bound # c /\ changes < MaxChanges /\ changes' = changes + 1 /\ bound' = c
  \/ Enrolled(c) /\ UNCHANGED <<changes, bound>>

\* The executor starts a session once the last has joined locally.  Its connection is
\* accepted and offered a binding, it answers Hello, and its identity is admitted; a
\* connection that fails before leaves nothing behind.
Hello(s) ==
  /\ phase[s] = "none" /\ (\A t \in Sessions : t < s => phase[t] = "closed") /\ ~ closed
  /\ cert' \in {[cert EXCEPT ![s] = c] : c \in Certs} /\ admitNode(cert'[s])
  /\ phase' = [phase EXCEPT ![s] = "offered"] /\ At(s, "admitted") /\ offers' = offers \cup {s}
  /\ UNCHANGED <<until, sent, awaited, offer, waits, setup, cancelled>>
  /\ UNCHANGED <<client, lane, current, preds, confirmed>>
  /\ UNCHANGED <<owner, lease, calls, dispatcher>>

\* The connection or the transport ends before the owner is published.
HelloFails(s) ==
  /\ handler[s] = "admitted" /\ At(s, "ended") /\ Unbinding
  /\ offers' = offers \ {s} /\ UNCHANGED <<client, lane, current, preds, confirmed>>
  /\ UNCHANGED <<owner, lease, calls, dispatcher, enrolment, executor>>

\* registerExecutor publishes the owner and retires the one it replaces, and the setup
\* mutation is admitted; a retirement between the two ends the handler as one after.
Publish(s) ==
  /\ handler[s] = "admitted" /\ ~ closed /\ At(s, "waits") /\ client' = s /\ current' = s /\ lane' = TRUE
  /\ st' = [Retired(client) EXCEPT ![s] = "active"] /\ drained' = Drained(client)
  /\ preds' = IF client = 0 THEN preds ELSE {p \in preds \cup {client} : ~ drained'[p]}
  /\ refs' = [refs EXCEPT ![s] = 1] /\ setup' = [setup EXCEPT ![s] = TRUE]
  /\ NoLease(client) /\ UNCHANGED <<waits, cancelled, offers, confirmed>>
  /\ UNCHANGED <<calls, dispatcher, enrolment, executor>>

\* Mutant: it waits for its predecessors' retirement only.
waitPredecessorsRetired(s) ==
  /\ handler[s] = "waits"
  /\ IF client # s \/ ~ Active(s) THEN At(s, "closing")
     ELSE (\A p \in preds : st[p] = "retired") /\ At(s, "connecting")
  /\ UNCHANGED <<waits, preds, setup, cancelled, client, lane, current, offers, confirmed>>
  /\ UNCHANGED <<owner, lease, calls, dispatcher, enrolment, executor>>

\* Looks, waits for the predecessors found, and looks again.
waitPredecessors(s) ==
  /\ handler[s] = "waits" /\ \A p \in waits[s] : drained[p]
  /\ LET left == {p \in preds : ~ drained[p]} IN
     IF client # s \/ ~ Active(s) THEN At(s, "closing") /\ waits' = [waits EXCEPT ![s] = {}] /\ UNCHANGED preds
     ELSE /\ preds' = left /\ waits' = [waits EXCEPT ![s] = left]
          /\ handler' = [handler EXCEPT ![s] = IF left = {} THEN "connecting" ELSE "waits"]
  /\ UNCHANGED <<setup, cancelled, client, lane, current, offers, confirmed>>
  /\ UNCHANGED <<owner, lease, calls, dispatcher, enrolment, executor>>

\* Its wait, or its wait for the confirmation, or its service, ends with its context.
Interrupted(s) ==
  /\ \/ handler[s] = "waits" /\ (cancelled[s] \/ st[s] = "retired")
     \/ handler[s] \in {"confirming", "serving"} /\ cancelled[s]
  /\ At(s, "closing") /\ waits' = [waits EXCEPT ![s] = {}]
  /\ UNCHANGED <<setup, cancelled>>
  /\ UNCHANGED <<owner, lease, transport, calls, dispatcher, enrolment, executor>>

\* RegisterExecutor commits the entry for an active owner, or fails.
OnExecutorConnected(s) ==
  /\ handler[s] = "connecting"
  /\ \/ st[s] = "active" /\ ~ closing /\ entry' = s /\ At(s, "confirming")
     \/ At(s, "closing") /\ UNCHANGED entry
  /\ Unbinding /\ UNCHANGED <<closing, closed>>
  /\ UNCHANGED <<owner, lease, transport, calls, enrolment, executor>>

\* The offer is confirmed: MarkRegistered, if this is still the current owner; then
\* the setup mutation is finished.
MarkRegistered(s) ==
  /\ handler[s] = "confirming" /\ confirmed[s]
  /\ \/ /\ client = s /\ ~ cancelled[s] /\ st[s] = "active" /\ At(s, "serving")
        /\ st' = [st EXCEPT ![s] = "registered"] /\ refs' = [refs EXCEPT ![s] = @ - 1]
        /\ deadline' = [deadline EXCEPT ![s] = LeaseDuration]
        /\ setup' = [setup EXCEPT ![s] = FALSE]
     \/ /\ client # s \/ cancelled[s] \/ st[s] = "retired"
        /\ At(s, "closing") /\ UNCHANGED <<st, refs, deadline, setup>>
  /\ UNCHANGED <<drained, sequence, lapsed, waits, cancelled>>
  /\ UNCHANGED <<transport, calls, dispatcher, enrolment, executor>>

Published(s) == handler[s] \in {"waits", "connecting", "confirming", "serving"}

Abandons(s) ==
  /\ Published(s) /\ ~ cancelled[s]
  /\ RemoveClient(s) /\ cancelled' = [cancelled EXCEPT ![s] = TRUE]
  /\ UNCHANGED <<offers, confirmed, handler, waits, setup>>
  /\ UNCHANGED <<calls, dispatcher, enrolment, executor>>

\* Mutant: the watcher does not look at its owner.
WatchStop(s) == closed /\ Abandons(s)

\* The watcher of a published owner: it is retired, or the transport stops.
Watch(s) == (st[s] = "retired" \/ closed) /\ Abandons(s)

\* The watcher sees the end of the connection, which nothing promises it will.
ConnLost(s) == Abandons(s)

\* Teardown.  The client is removed ...
Leave(s) ==
  /\ handler[s] = "closing" /\ ~ (cancelled[s] /\ client # s) /\ RemoveClient(s)
  /\ cancelled' = [cancelled EXCEPT ![s] = TRUE]
  /\ UNCHANGED <<handler, waits, setup, offers, confirmed>>
  /\ UNCHANGED <<calls, dispatcher, enrolment, executor>>

\* ... everything of the connection is joined, and the setup mutation finished; nothing
\* reads the confirmation any more ...
Join(s) ==
  /\ handler[s] = "closing" /\ cancelled[s] /\ client # s /\ At(s, "leaving")
  /\ IF setup[s] THEN Finishes(s) ELSE UNCHANGED owner
  /\ setup' = [setup EXCEPT ![s] = FALSE] /\ UNCHANGED <<waits, cancelled>>
  /\ confirmed' = [confirmed EXCEPT ![s] = FALSE] /\ UNCHANGED <<client, lane, current, preds, offers>>
  /\ UNCHANGED <<lease, calls, dispatcher, enrolment, executor>>

EntryLeft(s) == entry' = IF entry = s THEN 0 ELSE entry

\* ... the registry drops the entry if it is still this session's ...
OnExecutorDisconnected(s) ==
  /\ handler[s] = "leaving" /\ EntryLeft(s) /\ At(s, "draining") /\ Unbinding
  /\ UNCHANGED <<closing, closed>>
  /\ UNCHANGED <<owner, lease, transport, calls, enrolment, executor>>

\* sweepLaneLocked: what keeps a lane.
LaneIsKept(left, open) == current # 0 \/ left # {} \/ \E o \in open : st[o] # "none"

\* ... and once its work has drained the offer and the lane are forgotten.
Forget(s) ==
  /\ handler[s] = "draining" /\ drained[s] /\ At(s, "ended") /\ Unbinding
  /\ offers' = offers \ {s} /\ preds' = {p \in preds : ~ drained[p]}
  /\ lane' = (lane /\ LaneIsKept(preds', offers'))
  /\ UNCHANGED <<client, current, confirmed>>
  /\ UNCHANGED <<owner, lease, calls, dispatcher, enrolment, executor>>

-----------------------------------------------------------------------------
(* BindSession.  *)

Binds(s, b) == bind' = [bind EXCEPT ![s] = b] /\ UNCHANGED <<renewal, probe, held, made>>

\* confirmLease: the binding is armed by sending Bind, with the deadline counted
\* from then.
BindSent(s) ==
  /\ phase[s] = "offered" /\ Binds(s, "sent")
  /\ phase' = [phase EXCEPT ![s] = "armed"] /\ until' = [until EXCEPT ![s] = LeaseDuration]
  /\ UNCHANGED <<sent, awaited, offer>>
  /\ UNCHANGED <<owner, lease, transport, invocation, dispatcher, enrolment>>

\* confirm: the offer is published and its owner current.  A setup mutation holds
\* the owner while the offer is confirmed and its activation awaited; an owner
\* retired between the two looks at it is refused like one retired before.
Confirm(s) ==
  /\ bind[s] = "sent" /\ ~ closed /\ client = s /\ Active(s)
  /\ Reserves(s) /\ Binds(s, "confirmed") /\ confirmed' = [confirmed EXCEPT ![s] = TRUE]
  /\ UNCHANGED <<client, lane, current, preds, offers>>
  /\ UNCHANGED <<lease, invocation, dispatcher, enrolment, executor>>

ConfirmRefused(s) ==
  /\ bind[s] = "sent" /\ (closed \/ s \notin offers \/ (client # s /\ st[s] # "none"))
  /\ Binds(s, "none")
  /\ UNCHANGED <<owner, lease, transport, invocation, dispatcher, enrolment, executor>>

\* Activated and available, or retired, or its caller has gone.
ConfirmAnswer(s) ==
  /\ bind[s] = "confirmed" /\ Finishes(s)
  /\ \/ Available(s) /\ Binds(s, IF phase[s] = "armed" THEN "acked" ELSE "none")
     \/ /\ st[s] = "retired" \/ (st[s] = "registered" /\ ~ Available(s)) \/ phase[s] = "closed"
        /\ Binds(s, "none")
  /\ UNCHANGED <<lease, transport, invocation, dispatcher, enrolment, executor>>

\* Mutant: the answer restarts the lease.
NegotiatedAnew(s) ==
  /\ bind[s] = "acked" /\ phase[s] = "armed" /\ until[s] > 0 /\ Binds(s, "none")
  /\ phase' = [phase EXCEPT ![s] = "negotiated"] /\ until' = [until EXCEPT ![s] = LeaseDuration]
  /\ UNCHANGED <<sent, awaited, offer>>
  /\ UNCHANGED <<owner, lease, transport, invocation, dispatcher, enrolment>>

\* The pending deadline is promoted; the answer does not restart it.
Negotiated(s) ==
  /\ bind[s] = "acked" /\ phase[s] = "armed" /\ until[s] > 0 /\ Binds(s, "none")
  /\ phase' = [phase EXCEPT ![s] = "negotiated"] /\ UNCHANGED <<until, sent, awaited, offer>>
  /\ UNCHANGED <<owner, lease, transport, invocation, dispatcher, enrolment>>

-----------------------------------------------------------------------------
(* Renewal.  *)

Renews(s, q, r) == renewal' = [renewal EXCEPT ![<<s, q>>] = r] /\ UNCHANGED <<bind, held, made>>

Leased(s) == phase[s] = "negotiated" /\ until[s] > 0

RenewSend(s) ==
  /\ Leased(s) /\ ~ awaited[s] /\ made < MaxWork
  /\ sent' = [sent EXCEPT ![s] = @ + 1] /\ awaited' = [awaited EXCEPT ![s] = TRUE]
  /\ offer' = [offer EXCEPT ![s] = LeaseDuration]
  /\ renewal' = [renewal EXCEPT ![<<s, sent[s] + 1>>] = "sent"] /\ made' = made + 1
  /\ UNCHANGED <<bind, probe, held, phase, until>>
  /\ UNCHANGED <<owner, lease, transport, invocation, dispatcher, enrolment>>

stillEnrolled(s) == Enrolled(cert[s])

\* renewLease: admitted as ordinary work of the current client, still enrolled, and
\* the probe is sent.
RenewAdmitted(s, q) ==
  /\ renewal[<<s, q>>] = "sent" /\ ~ closed /\ client = s /\ Available(s) /\ stillEnrolled(s)
  /\ Reserves(s) /\ Renews(s, q, "probing") /\ probe' = [probe EXCEPT ![<<s, q>>] = RequestTimeout]
  /\ UNCHANGED <<lease, transport, invocation, dispatcher, enrolment, executor>>

\* ProbeSession, served by the executor under its own lease.
ProbeSession(s, q) ==
  /\ renewal[<<s, q>>] = "probing" /\ Leased(s) /\ Renews(s, q, "probed") /\ UNCHANGED probe
  /\ UNCHANGED <<owner, lease, transport, invocation, dispatcher, enrolment, executor>>

\* commitLease's conditions, with the caller's.
Commits(s, q) ==
  /\ client = s /\ ~ closed /\ probe[<<s, q>>] > 0
  /\ q > sequence[s] /\ Available(s)

CommitLease(s, q) ==
  /\ renewal[<<s, q>>] = "probed" /\ Commits(s, q) /\ Finishes(s)
  /\ Renews(s, q, IF awaited[s] /\ sent[s] = q THEN "acked" ELSE "none")
  /\ deadline' = [deadline EXCEPT ![s] = LeaseDuration]
  /\ sequence' = [sequence EXCEPT ![s] = q] /\ UNCHANGED lapsed
  /\ probe' = [probe EXCEPT ![<<s, q>>] = 0] /\ UNCHANGED <<transport, invocation, dispatcher, enrolment, executor>>

\* A renewal that is not admitted, or not probed or committed in time.
RenewFails(s, q) ==
  /\ \/ renewal[<<s, q>>] = "sent" /\ UNCHANGED owner
     \/ renewal[<<s, q>>] \in {"probing", "probed"} /\ Finishes(s)
  /\ Renews(s, q, "none") /\ probe' = [probe EXCEPT ![<<s, q>>] = 0]
  /\ UNCHANGED <<lease, transport, invocation, dispatcher, enrolment, executor>>

\* The answer in time, or none: a lost answer never renews.  The new deadline is counted
\* from the sending.
RenewReturns(s) ==
  /\ awaited[s] /\ awaited' = [awaited EXCEPT ![s] = FALSE]
  /\ \/ /\ renewal[<<s, sent[s]>>] = "acked" /\ Leased(s)
        /\ offer[s] + RequestTimeout > LeaseDuration
        /\ until' = [until EXCEPT ![s] = offer[s]]
     \/ UNCHANGED until
  /\ renewal' = [renewal EXCEPT ![<<s, sent[s]>>] = IF @ = "acked" THEN "none" ELSE @]
  /\ offer' = [offer EXCEPT ![s] = 0] /\ UNCHANGED <<phase, sent, bind, probe, held, made>>
  /\ UNCHANGED <<owner, lease, transport, invocation, dispatcher, enrolment>>

-----------------------------------------------------------------------------
(* The ends of sessions, the administrator, and time. *)

\* The executor revokes its binding: an expired lease, a lost connection, its own end.
\* What it kept of the session, and the answers it would have read, go with it.
Stop(s) ==
  /\ phase[s] \notin {"none", "closed"}
  /\ phase' = [phase EXCEPT ![s] = "closed"] /\ awaited' = [awaited EXCEPT ![s] = FALSE]
  /\ until' = [until EXCEPT ![s] = 0] /\ offer' = [offer EXCEPT ![s] = 0]
  /\ sent' = [sent EXCEPT ![s] = 0]
  /\ bind' = [bind EXCEPT ![s] = IF @ = "acked" THEN "none" ELSE @]
  /\ renewal' = [p \in Sessions \X Renewals |->
       IF p[1] = s /\ renewal[p] = "acked" THEN "none" ELSE renewal[p]]
  /\ UNCHANGED <<probe, held, made>>
  /\ UNCHANGED <<owner, lease, transport, invocation, dispatcher, enrolment>>

\* expireOwner under Dispatcher.mu; the transport follows.
ExpireOwner(s) ==
  /\ ~ closing /\ entry = s /\ st[s] = "registered" /\ deadline[s] = 0
  /\ Retires(s) /\ entry' = 0 /\ UNCHANGED <<closing, closed>>
  /\ UNCHANGED <<transport, invocation, calls, enrolment, executor>>

ExpiryRemoves(s) ==
  /\ client = s /\ st[s] = "retired" /\ RemoveClient(s) /\ UNCHANGED <<offers, confirmed>>
  /\ UNCHANGED <<invocation, calls, dispatcher, enrolment, executor>>

\* Dispatcher.Close retires what is registered, then closes the transport.
Close ==
  /\ ~ closing /\ changes < MaxChanges /\ changes' = changes + 1
  /\ closing' = TRUE /\ entry' = 0 /\ UNCHANGED <<closed, bound, cert>>
  /\ IF entry # 0 THEN Retires(entry) ELSE UNCHANGED <<owner, lease>>
  /\ UNCHANGED <<transport, invocation, calls, executor>>

CloseTransport ==
  /\ closing /\ ~ closed /\ closed' = TRUE /\ UNCHANGED <<entry, closing>>
  /\ IF client # 0 THEN RemoveClient(client) ELSE UNCHANGED <<owner, lease, client, lane, current, preds>>
  /\ UNCHANGED <<offers, confirmed>>
  /\ UNCHANGED <<invocation, calls, enrolment, executor>>

\* Revoke and Bind.  A session that has its standing again starts a new count.
Administer ==
  /\ Enforced /\ changes < MaxChanges /\ changes' = changes + 1
  /\ bound' \in (Certs \cup {0}) \ {bound} /\ UNCHANGED cert
  /\ lapsed' = [s \in Sessions |->
       IF bound' = cert[s] /\ phase[s] # "closed" THEN 0 ELSE lapsed[s]]
  /\ UNCHANGED <<deadline, sequence>>
  /\ UNCHANGED <<owner, transport, invocation, calls, dispatcher, executor>>

\* The count stops at the first tick a lease never survives.
Overdue == LeaseDuration + RequestTimeout - 1

Less(n) == IF n = 0 THEN 0 ELSE n - 1

Tick ==
  /\ deadline' = [s \in Sessions |-> Less(deadline[s])]
  /\ until' = [s \in Sessions |-> Less(until[s])] /\ offer' = [s \in Sessions |-> Less(offer[s])]
  /\ probe' = [p \in Sessions \X Renewals |-> Less(probe[p])]
  /\ lapsed' = [s \in Sessions |->
       IF st[s] # "registered" \/ (Enrolled(cert[s]) /\ phase[s] # "closed") THEN 0
       ELSE IF lapsed[s] = Overdue THEN Overdue ELSE lapsed[s] + 1]
  /\ UNCHANGED <<sequence, bind, renewal, held, made, bound, cert, changes, phase, sent, awaited>>
  /\ UNCHANGED <<owner, transport, invocation, dispatcher>>

-----------------------------------------------------------------------------
HandlerStep(s) ==
  \/ HelloFails(s) \/ Publish(s) \/ waitPredecessors(s)
  \/ Interrupted(s) \/ OnExecutorConnected(s) \/ MarkRegistered(s)
  \/ Leave(s) \/ Join(s) \/ OnExecutorDisconnected(s) \/ Forget(s)

ConfirmStep(s) == Confirm(s) \/ ConfirmRefused(s) \/ ConfirmAnswer(s)

RenewStep(s, q) ==
  RenewAdmitted(s, q) \/ ProbeSession(s, q) \/ CommitLease(s, q) \/ RenewFails(s, q)

Next ==
  \/ \E s \in Sessions :
       \/ Hello(s) \/ HandlerStep(s) \/ Watch(s) \/ ConfirmStep(s)
       \/ BindSent(s) \/ Negotiated(s) \/ RenewSend(s) \/ RenewReturns(s) \/ Stop(s)
       \/ AdmitMutation(s) \/ Fork(s) \/ Finish(s)
       \/ ConnLost(s) \/ ExpireOwner(s) \/ ExpiryRemoves(s)
       \/ \E q \in Renewals : RenewStep(s, q)
  \/ Close \/ CloseTransport \/ Administer \/ Tick

Spec == Init /\ [][Next]_vars

\* What the dispatcher's goroutines do for a session: its handler and watcher, the
\* requests admitted on it, and the expiry loop.
SessionStep(s) ==
  \/ HandlerStep(s) \/ Watch(s) \/ ConfirmStep(s) \/ Finish(s) \/ ExpireOwner(s)
  \/ \E q \in Renewals : RenewStep(s, q)

\* Time passes and those goroutines run, one fairness for all of a session: each makes
\* finitely many steps, and admitted work finishes because retirement cancels its
\* context and every call it makes has a timeout.
Fairness == WF_vars(Tick) /\ \A s \in Sessions : WF_vars(SessionStep(s))

FairSpec == Spec /\ Fairness

-----------------------------------------------------------------------------
(* Properties. *)

Renewing(s) == {q \in Renewals : renewal[<<s, q>>] \in {"probing", "probed"}}

\* Work admitted as ordinary: what a replacement's registration waits for.
Ordinary(s) == held[s] > 0 \/ Renewing(s) # {}

\* A replacement registers, and does ordinary work, only after every earlier session of
\* its executor ID has drained: the work of two sessions is never in flight together,
\* however late the teardown of the first (waitPredecessors, handleSession).
OrdinaryWorkIsSerial ==
  \A s, t \in Sessions : s # t /\ Ordinary(s) => ~ Ordinary(t) /\ ~ Available(t)

Holders(s) ==
  held[s] + Cardinality(Renewing(s)) + (IF setup[s] THEN 1 ELSE 0)
    + (IF bind[s] = "confirmed" THEN 1 ELSE 0)

\* MutationsDrained is closed exactly when the owner is retired and no request, setup,
\* bind or renewal that was admitted on it, forks included, is unfinished, in whatever
\* order retirement and the last Finish come (SessionOwner.Retire, Mutation.Finish).
DrainedIsExact ==
  \A s \in Sessions : drained[s] <=> st[s] = "retired" /\ Holders(s) = 0

\* Until its owner is retired, an executor never believes in its lease longer than the
\* dispatcher grants it, though answers are late, lost or overtaken: it counts from its
\* request, the dispatcher from the commit (renewOnce, confirmLease, commitLease).
LeaseIsNested ==
  \A s \in Sessions : st[s] = "registered" /\ phase[s] = "negotiated" => until[s] <= deadline[s]

\* The registry lists every registered owner, so that expiry and Close find it: no
\* teardown of an earlier session takes the entry of a later one (RegisterExecutor,
\* OnExecutorDisconnected).
RegisteredIsListed == \A s \in Sessions : st[s] = "registered" => entry = s

\* A session that waits for its predecessors finds the lane it reads, whatever sessions
\* of the same ID are forgotten meanwhile (waitPredecessors, sweepLaneLocked).
LaneIsThere == \A s \in Sessions : handler[s] = "waits" /\ client = s => lane

\* A session whose certificate is no longer enrolled, or whose executor has gone, keeps
\* its authority for less than a lease and a probe: only a renewal already past its
\* check, or its probe, extends it, once (renewLease, commitLease, Revoke).
LapsedIsBounded ==
  \A s \in Sessions : Available(s) => lapsed[s] < Overdue

\* A session that is retired, or is registered when its executor goes, ends: its lease
\* runs out even if its connection never reports an end, and the joins of its teardown
\* wait for nothing that waits for it, replacement and shutdown included (expireOwner,
\* handleSession).
SessionsEnd ==
  \A s \in Sessions :
    (st[s] = "retired" \/ (st[s] = "registered" /\ phase[s] = "closed")) ~> handler[s] = "ended"

-----------------------------------------------------------------------------
(* What the run checks, one property per question. *)

\* The sessions of one executor ID follow one another: they are listed, drained and
\* joined in order, and their ordinary work never overlaps.
SessionsAreSerial ==
  TypeOK /\ OrdinaryWorkIsSerial /\ DrainedIsExact /\ RegisteredIsListed /\ LaneIsThere

\* Authority ends: the executor's belief before the dispatcher's grant, and both
\* within a bound once the certificate or the executor is gone.
AuthorityEnds == LeaseIsNested /\ LapsedIsBounded

=============================================================================
