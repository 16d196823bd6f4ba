-------------------------- MODULE BandwidthDelivery --------------------------
(***************************************************************************)
(* How a change of one destination's shares or policy reaches the          *)
(* executors: the dispatcher captures a snapshot per executor under its    *)
(* lock, delivers it in a chain per session, and retries what was not      *)
(* acknowledged on the session's heartbeat (internal/dispatcher:           *)
(* rpc_handlers.go, destination_policy.go, executor_registry.go); the      *)
(* executor fences what it receives by revision (internal/executor:        *)
(* rpc_handlers.go).                                                       *)
(*                                                                         *)
(* One step is one critical section of the dispatcher's mutex, one wait or *)
(* call of a delivery, or one request at an executor.  Calls may time out  *)
(* and their requests still arrive; sessions end at any moment, and so     *)
(* does the dispatcher.                                                    *)
(***************************************************************************)
EXTENDS Naturals, FiniteSets

CONSTANTS
  Executors,    \* executor identities
  Works,        \* slots 1..n for the changes under way at once
  Versions,     \* bandwidth versions executors announce: 0 (legacy), 1, 2
  Requests,     \* policy changes operators ask for: a kind and whether it expires
  MaxSessions,  \* bound on the sessions of one executor
  MaxChanges,   \* bound on allocations and policy changes
  MaxFaults     \* bound on timeouts, failed publications and failed writes

ASSUME DeliveryAssumption ==
  /\ IsFiniteSet(Executors) /\ Works \subseteq Nat /\ "none" \notin Executors
  /\ Versions \subseteq Nat /\ Requests \subseteq [kind : {"deny", "limit"}, exp : BOOLEAN]
  /\ MaxSessions \in Nat /\ MaxChanges \in Nat /\ MaxFaults \in Nat

VARIABLES
  \* The dispatcher's database.
  event,     \* the destination's latest recorded policy event
  lapsed,    \* the expiry of that event has passed
  \* The dispatcher's memory, under d.mu.
  policy,    \* the policy in force: kind, whether it expires, its revision
  held,      \* <<e, s>>: session s of executor e holds an allocation there
  entry,     \* entry[e]: e's registry entry
  due,       \* the revision the expiry sweep read as due, 0 when none
  \* Sessions and deliveries.
  sess,      \* sess[e]: e's latest session
  live,      \* live[e]: that session is available
  work,      \* work[w]: a change on its way to its recipients
  del,       \* del[w][e]: its delivery to e
  net,       \* Bandwidth requests on the wire
  \* The executors: one object per session.
  exec,      \* exec[e]: revisions received, acknowledged and published, limits set
  changes, faults

disk     == <<event, lapsed>>
registry == <<policy, held, entry, due>>
session  == <<sess, live>>
sending  == <<work, del, net>>
vars     == <<disk, registry, session, sending, exec, changes, faults>>

Kinds == {"allow", "limit", "deny"}
\* What a snapshot says of the destination: how it is divided and its policy.  An
\* executor without an allocation there is told nothing of it.
Snapshots == [share : Nat, kind : Kinds]
Events    == [kind : Kinds, exp : BOOLEAN, rev : Nat]

NoWork     == [st |-> "idle", kind |-> "none", org |-> "none", err |-> FALSE]
NoDelivery == [st |-> "none", sess |-> 0, rev |-> 0, after |-> 0,
               snap |-> [share |-> 0, kind |-> "allow"]]
NoEntry    == [sess |-> 0, version |-> 0, pending |-> FALSE, rev |-> 0, tail |-> 0]
NewExecutor == [rev |-> 0, applied |-> 0, published |-> 0, snap |-> [share |-> 0, kind |-> "allow"]]

WorkStates     == {"idle", "charged", "sending", "retiring"}
WorkKinds      == {"none", "allocate", "exit", "deny", "limit", "expire", "reconcile", "reclaim"}
DeliveryStates == {"none", "wait", "call", "answered", "acked", "failed"}

TypeOK ==
  /\ event \in Events /\ lapsed \in BOOLEAN /\ policy \in Events
  /\ held \subseteq Executors \X Nat
  /\ entry \in [Executors -> [sess : Nat, version : Nat, pending : BOOLEAN, rev : Nat, tail : Nat]]
  /\ due \in Nat /\ sess \in [Executors -> Nat] /\ live \in [Executors -> BOOLEAN]
  /\ work \in [Works -> [st : WorkStates, kind : WorkKinds, org : Executors \cup {"none"},
                         err : BOOLEAN]]
  /\ del \in [Works -> [Executors -> [st : DeliveryStates, sess : Nat, rev : Nat, after : Nat,
                                      snap : Snapshots]]]
  /\ net \subseteq [to : Executors, sess : Nat, rev : Nat, wire : Nat, snap : Snapshots]
  /\ exec \in [Executors -> [rev : Nat, applied : Nat, published : Nat, snap : Snapshots]]
  /\ changes \in Nat /\ faults \in Nat

-----------------------------------------------------------------------------
(* What the dispatcher reads under its lock.                                *)

Holds(h, e) == \E s \in 0..MaxSessions : <<e, s>> \in h

\* Fairshare: the executors with an allocation on the destination.
Fairshare(h) == {e \in Executors : Holds(h, e)}

\* allocationSnapshot for e, with the destination's policy p.
Snapshot(e, h, p) ==
  IF Holds(h, e) THEN [share |-> Cardinality(h), kind |-> p.kind]
  ELSE [share |-> 0, kind |-> "allow"]

\* A new change takes the first slot that is free.
Free(w) == work[w] = NoWork /\ \A v \in Works : v < w => work[v] # NoWork

Registered(e) == entry[e].sess # 0
ordered(e) == entry[e].version >= 1
Open(d) == d.st \in {"wait", "call", "answered"}

\* The delivery e's next one has to wait for is still running.
Running(e, s, rev) == \E w \in Works : Open(del[w][e]) /\ del[w][e].sess = s /\ del[w][e].rev = rev

\* The entry of a recipient: reconciliation is owed, under a new revision.
Bumped(en) == [en EXCEPT !.pending = TRUE, !.rev = @ + 1]

\* A recipient's session admits the delivery: any available one, and the session
\* the change came from even when it has ended since.
Admits(e, org) == Registered(e) /\ (live[e] \/ e = org)

\* captureFairshareAfter: under one lock, a revision and a snapshot for every
\* executor holding an allocation (h and p are the books the change leaves), its
\* delivery chained behind the session's previous one.  A recipient that admits
\* nothing fails the work and stays pending.
Capture(w, org, kind, h, p, to) ==
  /\ entry' = [e \in Executors |->
       IF e \in to /\ Registered(e)
       THEN LET b == Bumped(entry[e]) IN IF Admits(e, org) THEN [b EXCEPT !.tail = b.rev] ELSE b
       ELSE entry[e]]
  /\ del' = [del EXCEPT ![w] = [e \in Executors |->
       IF e \in to /\ Admits(e, org)
       THEN [st |-> "wait", sess |-> entry[e].sess, rev |-> entry[e].rev + 1,
             after |-> entry[e].tail, snap |-> Snapshot(e, h, p)]
       ELSE NoDelivery]]
  /\ work' = [work EXCEPT ![w] = [st |-> "sending", kind |-> kind, org |-> org,
                                  err |-> \E e \in to : ~Admits(e, org)]]

-----------------------------------------------------------------------------
Init ==
  /\ event = [kind |-> "allow", exp |-> FALSE, rev |-> 0] /\ lapsed = FALSE
  /\ policy = event /\ held = {} /\ due = 0
  /\ entry = [e \in Executors |-> NoEntry]
  /\ sess = [e \in Executors |-> 0] /\ live = [e \in Executors |-> FALSE]
  /\ work = [w \in Works |-> NoWork]
  /\ del = [w \in Works |-> [e \in Executors |-> NoDelivery]]
  /\ net = {} /\ exec = [e \in Executors |-> NewExecutor] /\ changes = 0 /\ faults = 0

(* Sessions. *)

\* No mutation of e's sessions is left: neither a change it made nor a delivery.
Drained(e) ==
  \A w \in Works : work[w].org # e /\ (work[w].st = "sending" => del[w][e].st = "none")

\* RegisterExecutor: the predecessors drained, and a fresh entry and executor
\* object begin at revision zero.
Register(e, v) ==
  /\ ~live[e] /\ sess[e] < MaxSessions /\ Drained(e)
  /\ sess' = [sess EXCEPT ![e] = @ + 1] /\ live' = [live EXCEPT ![e] = TRUE]
  /\ entry' = [entry EXCEPT ![e] = [NoEntry EXCEPT !.sess = sess[e] + 1, !.version = v]]
  /\ UNCHANGED <<disk, policy, held, due, sending, exec, changes, faults>>

\* With a session end its requests and the executor object that served it.
Ended(E) ==
  /\ live' = [e \in Executors |-> live[e] /\ e \notin E]
  /\ net' = {m \in net : m.to \notin E}
  /\ exec' = [e \in Executors |-> IF e \in E THEN NewExecutor ELSE exec[e]]

\* The session ends: lease expiry, a broken connection, a replacement.  What was
\* admitted on it is cancelled and still has to return.
Retire(e) ==
  /\ live[e] /\ Ended({e})
  /\ UNCHANGED <<disk, registry, sess, work, del, changes, faults>>

\* OnExecutorDisconnected, or the watchdog: the entry of an ended session goes.
OnExecutorDisconnected(e) ==
  /\ ~live[e] /\ Registered(e) /\ entry' = [entry EXCEPT ![e] = NoEntry]
  /\ UNCHANGED <<disk, policy, held, due, session, sending, exec, changes, faults>>

-----------------------------------------------------------------------------
(* Changes of the allocation.                                               *)

\* OnDebugletAllocate charges an admitted run; a denied destination refuses it.
OnDebugletAllocate(w, e) ==
  /\ Free(w) /\ live[e] /\ changes < MaxChanges /\ policy.kind # "deny"
  /\ <<e, sess[e]>> \notin held /\ held' = held \cup {<<e, sess[e]>>}
  /\ work' = [work EXCEPT ![w] = [st |-> "charged", kind |-> "allocate", org |-> e, err |-> FALSE]]
  /\ changes' = changes + 1
  /\ UNCHANGED <<disk, policy, entry, due, session, del, net, exec, faults>>

\* OnDebugletExit releases the run of the session that reports it.
OnDebugletExit(w, e) ==
  /\ Free(w) /\ live[e] /\ <<e, sess[e]>> \in held
  /\ held' = held \ {<<e, sess[e]>>}
  /\ work' = [work EXCEPT ![w] = [st |-> "charged", kind |-> "exit", org |-> e, err |-> FALSE]]
  /\ UNCHANGED <<disk, policy, entry, due, session, del, net, exec, changes, faults>>

\* sweepEndedWindows releases a charge whose window ended without a report.
Reclaim(w, e) ==
  /\ Free(w)
  /\ \E s \in 1..MaxSessions : <<e, s>> \in held /\ held' = held \ {<<e, s>>}
  /\ work' = [work EXCEPT ![w] = [st |-> "charged", kind |-> "reclaim", org |-> "none", err |-> FALSE]]
  /\ UNCHANGED <<disk, policy, entry, due, session, del, net, exec, changes, faults>>

\* sendFairshare: the change is captured in a critical section of its own.
CaptureCharged(w) ==
  /\ work[w].st = "charged"
  /\ Capture(w, work[w].org, work[w].kind, held, policy, Fairshare(held))
  /\ UNCHANGED <<disk, policy, held, due, session, net, exec, changes, faults>>

\* reconcileFairshare, at the end of a heartbeat: send the current snapshot again
\* while the session's latest one is not acknowledged.  An executor sends its next
\* heartbeat when the previous one has been answered.
reconcileFairshare(w, e) ==
  /\ Free(w) /\ live[e] /\ Registered(e) /\ entry[e].pending
  /\ \A v \in Works : ~(work[v].kind = "reconcile" /\ work[v].org = e)
  /\ Capture(w, e, "reconcile", held, policy, {e})
  /\ UNCHANGED <<disk, policy, held, due, session, net, exec, changes, faults>>

-----------------------------------------------------------------------------
(* Changes of the policy: recorded, applied and captured under one lock.    *)

\* recordDestinationPolicy and applyDestinationPolicyLocked: the next revision of
\* the destination becomes the policy in force.
Record(kind, exp) ==
  LET recorded == [kind |-> kind, exp |-> exp, rev |-> event.rev + 1]
  IN /\ event' = recorded /\ policy' = recorded /\ lapsed' = FALSE

\* SetDestinationPolicy by an operator, with or without an expiry.
SetDestinationPolicy(w, req) ==
  /\ Free(w) /\ changes < MaxChanges /\ changes' = changes + 1
  /\ Record(req.kind, req.exp) /\ Capture(w, "none", req.kind, held, policy', Fairshare(held))
  /\ UNCHANGED <<held, due, session, net, exec, faults>>

\* A write that fails records and applies nothing.
SetDestinationPolicyFails ==
  /\ faults < MaxFaults /\ changes < MaxChanges
  /\ changes' = changes + 1 /\ faults' = faults + 1
  /\ UNCHANGED <<disk, registry, session, sending, exec>>

\* The expiry of the latest event passes.
Lapse ==
  /\ event.exp /\ ~lapsed /\ lapsed' = TRUE
  /\ UNCHANGED <<event, registry, session, sending, exec, changes, faults>>

\* expireDestinationPolicies reads what is due and unlocks.
ExpiryRead ==
  /\ due = 0 /\ policy.exp /\ lapsed /\ \A w \in Works : work[w].kind # "expire"
  /\ due' = policy.rev
  /\ UNCHANGED <<disk, policy, held, entry, session, sending, exec, changes, faults>>

\* A nonzero expect records the event only while it is the revision after expect.
Expected(expect) == event.rev = expect

\* The sweep records the return to the default, unless its policy was superseded or
\* the write fails, when the next tick finds it due again.
ExpiryChange(w) ==
  /\ due # 0 /\ Free(w) /\ due' = 0
  /\ \/ /\ Expected(due) /\ Record("allow", FALSE)
        /\ Capture(w, "none", "expire", held, policy', Fairshare(held))
        /\ UNCHANGED faults
     \/ ~Expected(due) /\ UNCHANGED <<disk, policy, entry, work, del, faults>>
     \/ faults < MaxFaults /\ faults' = faults + 1 /\ UNCHANGED <<disk, policy, entry, work, del>>
  /\ UNCHANGED <<held, session, net, exec, changes>>

-----------------------------------------------------------------------------
(* send: one delivery of work w to executor e.                              *)

\* (mutant) the session's tail is read after this delivery became it.
TurnBehindItself(w, e) == ~Running(e, del[w][e].sess, del[w][e].rev)

\* The previous delivery of this session has returned.
Turn(w, e) == ~Running(e, del[w][e].sess, del[w][e].after)

\* A legacy peer is sent no revision.
wireRevision(w, e) == IF ordered(e) THEN del[w][e].rev ELSE 0

\* The call leaves once it is this delivery's turn.
Call(w, e) ==
  /\ del[w][e].st = "wait" /\ live[e] /\ Registered(e) /\ Turn(w, e)
  /\ del' = [del EXCEPT ![w][e].st = "call", ![w][e].after = 0]
  /\ net' = net \cup {[to |-> e, sess |-> del[w][e].sess, rev |-> del[w][e].rev,
                       wire |-> wireRevision(w, e), snap |-> del[w][e].snap]}
  /\ UNCHANGED <<disk, registry, session, work, exec, changes, faults>>

\* What the sender keeps of a delivery whose call is over.
Returned(d, st) == [NoDelivery EXCEPT !.st = st, !.sess = d.sess, !.rev = d.rev]

\* The delivery fails: its session ended, or its deadline passed while it waited
\* or called.  The request of a call may be lost or arrive later.
Cancelled(w, e) ==
  /\ del[w][e].st \in {"wait", "call"} /\ del' = [del EXCEPT ![w][e] = Returned(@, "failed")]
  /\ \/ ~live[e] /\ UNCHANGED faults
     \/ live[e] /\ faults < MaxFaults /\ faults' = faults + 1
  /\ \/ UNCHANGED net
     \/ net' = {m \in net : ~(m.to = e /\ m.sess = del[w][e].sess /\ m.rev = del[w][e].rev)}
  /\ UNCHANGED <<disk, registry, session, work, exec, changes>>

\* The answer reaches the call, if it still waits for it.
Answer(m, ok) ==
  del' = [w \in Works |-> [e \in Executors |->
    IF e = m.to /\ del[w][e].st = "call" /\ del[w][e].sess = m.sess /\ del[w][e].rev = m.rev
    THEN Returned(del[w][e], IF ok THEN "answered" ELSE "failed")
    ELSE del[w][e]]]

\* (mutant) the executor applies whatever arrives.
SupersededNever(e, m) == FALSE

\* The executor has received a newer snapshot.
Superseded(e, m) == m.wire < exec[e].rev

\* The revision an executor answers with acknowledges this request's.
Covers(e, m) == exec[e].applied >= m.rev

\* The snapshot is acknowledged when publishLimitsLocked reports no failure.
Applies(ok) == ok

\* applyBandwidth: a superseded snapshot changes nothing and is answered with the
\* revision applied; another one is received, its limits and denials are set and
\* published to the running connections.
applyBandwidth(m) ==
  /\ m \in net /\ net' = net \ {m}
  /\ \/ Superseded(m.to, m) /\ Answer(m, Covers(m.to, m)) /\ UNCHANGED <<exec, faults>>
     \/ /\ ~Superseded(m.to, m)
        /\ \E ok \in BOOLEAN :
             /\ ok \/ faults < MaxFaults
             /\ faults' = (IF ok THEN faults ELSE faults + 1) /\ Answer(m, Applies(ok))
             /\ exec' = [exec EXCEPT ![m.to] =
                  [rev |-> m.wire, snap |-> m.snap, published |-> IF ok THEN m.wire ELSE @.published,
                   applied |-> IF Applies(ok) THEN m.wire ELSE @.applied]]
  /\ UNCHANGED <<disk, registry, session, work, changes>>

\* (mutant) any acknowledgement settles the session.
CurrentAlways(w, e) == entry[e].sess = del[w][e].sess

\* The acknowledgement is for this session's current snapshot.
Current(w, e) == entry[e].sess = del[w][e].sess /\ entry[e].rev = del[w][e].rev

\* A policy change asks for an acknowledgement a legacy peer cannot give.
requireOrdered(w) == work[w].kind \in {"deny", "limit", "expire"}

\* The answer is taken under the lock: it settles reconciliation when current.
Acknowledged(w, e) ==
  /\ del[w][e].st = "answered"
  /\ \/ /\ ~(requireOrdered(w) /\ ~ordered(e)) /\ del' = [del EXCEPT ![w][e] = Returned(@, "acked")]
        /\ entry' = [entry EXCEPT ![e].pending = @ /\ ~Current(w, e)]
     \/ requireOrdered(w) /\ ~ordered(e) /\ del' = [del EXCEPT ![w][e] = Returned(@, "failed")]
        /\ UNCHANGED entry
  /\ UNCHANGED <<disk, policy, held, due, session, work, net, exec, changes, faults>>

Joined(w) == work[w].st = "sending" /\ \A e \in Executors : ~Open(del[w][e])

\* Every delivery returned: the change is over.  A denial looks at its recipients
\* once more first.
SendReturns(w) ==
  /\ Joined(w) /\ work[w].kind # "deny"
  /\ work' = [work EXCEPT ![w] = NoWork]
  /\ del' = [del EXCEPT ![w] = [e \in Executors |-> NoDelivery]]
  /\ UNCHANGED <<disk, registry, session, net, exec, changes, faults>>

\* The recipient has acknowledged this denial or a later snapshot, and its version
\* revokes traffic before it acknowledges.
Confirmed(w, e) ==
  ~(entry[e].pending \/ entry[e].rev < del[w][e].rev) /\ entry[e].version >= 2

\* The captured sessions that did not confirm a denial, still registered.
Stale(w) ==
  {e \in Executors : /\ del[w][e].st # "none" /\ entry[e].sess = del[w][e].sess
                     /\ ~Confirmed(w, e)}

\* changeDestinationPolicy after a denial: the unconfirmed sessions are listed
\* under the lock ...
ListStale(w) ==
  /\ Joined(w) /\ work[w].kind = "deny"
  /\ work' = [work EXCEPT ![w].st = "retiring"]
  /\ del' = [del EXCEPT ![w] = [e \in Executors |->
                IF e \in Stale(w) THEN del[w][e] ELSE NoDelivery]]
  /\ UNCHANGED <<disk, registry, session, net, exec, changes, faults>>

\* ... and retired outside it, exactly these and no successor.
RemoveClient(w, e) ==
  /\ work[w].st = "retiring" /\ del[w][e].st # "none"
  /\ Ended({x \in {e} : sess[e] = del[w][e].sess})
  /\ del' = [del EXCEPT ![w][e] = NoDelivery]
  /\ UNCHANGED <<disk, registry, sess, work, changes, faults>>

\* SetDestinationPolicy returns from a denial.
DenyReturns(w) ==
  /\ work[w].st = "retiring" /\ \A e \in Executors : del[w][e].st = "none"
  /\ work' = [work EXCEPT ![w] = NoWork]
  /\ UNCHANGED <<disk, registry, session, del, net, exec, changes, faults>>

\* restoreDestinationPoliciesLocked: one that expired meanwhile has no effect, and
\* is left to the sweep.
Restored == IF event.exp /\ lapsed THEN [event EXCEPT !.kind = "allow"] ELSE event

\* The dispatcher restarts: every session and charge is gone, the recorded policy
\* governs again.
Restart ==
  /\ \E e \in Executors : live[e]
  /\ policy' = Restored
  /\ held' = {} /\ due' = 0 /\ entry' = [e \in Executors |-> NoEntry]
  /\ Ended(Executors) /\ work' = [w \in Works |-> NoWork]
  /\ del' = [w \in Works |-> [e \in Executors |-> NoDelivery]]
  /\ UNCHANGED <<disk, sess, changes, faults>>

-----------------------------------------------------------------------------
SessionStep(e) == (\E v \in Versions : Register(e, v)) \/ Retire(e) \/ OnExecutorDisconnected(e)

ChangeStep(w) ==
  \/ \E e \in Executors : OnDebugletAllocate(w, e) \/ OnDebugletExit(w, e) \/ Reclaim(w, e)
  \/ \E req \in Requests : SetDestinationPolicy(w, req)
  \/ ExpiryChange(w)

SendStep(w) ==
  \/ CaptureCharged(w) \/ SendReturns(w) \/ ListStale(w) \/ DenyReturns(w)
  \/ \E e \in Executors : Call(w, e) \/ Acknowledged(w, e) \/ RemoveClient(w, e)

Next ==
  \/ \E e \in Executors : SessionStep(e)
  \/ \E w \in Works : ChangeStep(w) \/ SendStep(w)
  \/ \E w \in Works, e \in Executors : reconcileFairshare(w, e) \/ Cancelled(w, e)
  \/ \E m \in net : applyBandwidth(m)
  \/ SetDestinationPolicyFails \/ Lapse \/ ExpiryRead \/ Restart

Spec == Init /\ [][Next]_vars

\* Deliveries proceed and are bounded by their deadlines, executors answer, live
\* sessions send heartbeats and the expiry loop ticks.
Fairness ==
  /\ \A w \in Works : WF_vars(SendStep(w))
  /\ \A e \in Executors : SF_vars(\E w \in Works : reconcileFairshare(w, e))
  /\ SF_vars(\E w \in Works : ExpiryChange(w)) /\ WF_vars(ExpiryRead)
  /\ WF_vars(\E m \in net : applyBandwidth(m))
  /\ WF_vars(\E w \in Works, e \in Executors : ~live[e] /\ Cancelled(w, e))

FairSpec == Spec /\ Fairness

-----------------------------------------------------------------------------
(* Properties.                                                              *)

\* The dispatcher's belief is right: a session it holds for reconciled, with no
\* change waiting for its capture, has exactly the destination's current share and
\* policy in force, however its deliveries were delayed, lost or reordered.
ReconciledIsCurrent ==
  \A e \in Executors :
    live[e] /\ ordered(e) /\ ~entry[e].pending /\ <<e, sess[e]>> \in held
      /\ (\A w \in Works : work[w].st # "charged")
    => exec[e].snap = Snapshot(e, held, policy) /\ exec[e].published = entry[e].rev

\* When a denial has returned, with or without an error, and is still the policy,
\* no live session has an allocation there without enforcing the denial.
DenialIsEnforced ==
  policy.kind = "deny" /\ (\A w \in Works : work[w].kind # "deny") =>
    \A e \in Executors :
      live[e] /\ <<e, sess[e]>> \in held => entry[e].version >= 2 /\ exec[e].snap.kind = "deny"

\* Within a session an executor never goes back to an older snapshot, and what it
\* calls applied only grows.
NeverBack ==
  \A e \in Executors :
    live'[e] /\ sess'[e] = sess[e] /\ entry[e].version >= 1 =>
      exec'[e].rev >= exec[e].rev /\ exec'[e].applied >= exec[e].applied

\* An allocation that is answered without an error is in force: every executor
\* sharing the destination has published the snapshot captured for it or a later
\* one, unless its session ended meanwhile.
AllocationIsDelivered ==
  \A w \in Works :
    /\ work[w].kind = "allocate" /\ Joined(w) /\ work'[w] = NoWork /\ ~work[w].err
    /\ \A e \in Executors : del[w][e].st # "failed"
    => \A e \in Executors :
         del[w][e].st = "acked" /\ live[e] /\ entry[e].sess = del[w][e].sess /\ ordered(e)
           => exec[e].published >= del[w][e].rev

\* The sweep ends the policy it found expired and no other: an operator's later
\* change is never undone by it.
ExpiryEndsItsPolicy ==
  event' # event /\ event'.kind = "allow" => event.exp /\ lapsed

\* A session owed a snapshot gets it, or ends.
PendingIsReconciled ==
  \A e \in Executors : live[e] /\ entry[e].pending ~> ~live[e] \/ ~entry[e].pending

\* An expired policy gives way.
ExpiredGivesWay == lapsed ~> ~lapsed

-----------------------------------------------------------------------------
(* What the run checks, one property per question. *)

\* What the dispatcher believes of a session is so: reconciled means current, denied
\* means enforced (captureFairshare, sendFairshare, denyDestination).
BeliefIsRight == TypeOK /\ ReconciledIsCurrent /\ DenialIsEnforced

\* No step takes back what was delivered, answered or decided (applyBandwidth,
\* Allocate, the expiry sweep).
NothingGoesBack == [][NeverBack /\ AllocationIsDelivered /\ ExpiryEndsItsPolicy]_vars

\* What is owed is done: snapshots arrive and expired policies end.
OwedIsDone == PendingIsReconciled /\ ExpiredGivesWay

=============================================================================
