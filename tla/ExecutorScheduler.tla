-------------------------- MODULE ExecutorScheduler --------------------------
(***************************************************************************)
(* The executor's run scheduler: the in-memory admission core              *)
(* (internal/executor/scheduler/memory), the SQLite rows behind it         *)
(* (internal/executor/scheduler/sqlite) and the control session that owns  *)
(* one core at a time (internal/executor/session.go, node.go).             *)
(*                                                                         *)
(* One step is one critical section of the core's mutex, one SQL           *)
(* statement, one callback or one channel operation: the places where two  *)
(* goroutines can interleave.  A crash may fall between any two steps; it  *)
(* keeps the rows and nothing else.                                        *)
(***************************************************************************)
EXTENDS Naturals, FiniteSets

CONSTANTS
  Runs,                \* run identities (scheduler.Spec.DebugletID)
  Callers,             \* concurrent cancel/read handlers
  StartTime,           \* StartTime[r]: when r becomes due; 0 stands for a nil start time
  MaxTime,             \* bound on the clock
  MaxSessions,         \* bound on the number of control sessions
  MaxNotifiers,        \* bound on handlers between an unlock and their notify()
  MaxQueuedRuns,       \* scheduler.QueueLimits.Runs
  OnFailedRegistered,  \* whether RegisterFailed was called (the daemon always does)
  ResumeBinding        \* FALSE: the daemon's restore policy, which accepts no stored
                       \* binding; TRUE: a policy under which a session resumes one

ASSUME SchedulerAssumption ==
  /\ IsFiniteSet(Runs) /\ IsFiniteSet(Callers)
  /\ StartTime \in [Runs -> Nat]
  /\ MaxTime \in Nat /\ MaxSessions \in Nat /\ MaxNotifiers \in Nat
  /\ MaxQueuedRuns \in Nat
  /\ OnFailedRegistered \in BOOLEAN /\ ResumeBinding \in BOOLEAN
  /\ "none" \notin Callers /\ "canceled" \notin Callers /\ "session" \notin Callers

VARIABLES
  \* The database: what a crash keeps.
  rowBinding,  \* rowBinding[r]: binding stored with r's canonical row, 0 when there is none
  rowStarted,  \* rowStarted[r]: the row's started_at marker is set
  ran,         \* ran[r]: times the start callback ran r's body since its row was stored
  \* The control session.
  sess,        \* number of sessions opened so far; names the current one
  stage,       \* "none", "new", "restoring", "serving" or "stopped"
  lease,       \* the transport's admission guard
  stopping,    \* Session.Stop ran: the session context is cancelled
  \* The admission core (MemoryStorage).
  phase,       \* phase[r]: the phase of r's owner, "none" when it has none
  binding,     \* binding[r]: the binding its spec was accepted under
  cause,       \* cause[r]: the cancellation cause it committed to
  ctx,         \* ctx[r]: why its operation context is done
  attempt,     \* attempt[r]: its finalization attempt
  cleanupErr,  \* cleanupErr[r]: completion.CleanupErr is not nil
  tq,          \* ids in the timed queue
  busy,        \* reservations, callbacks, finalizers and reads in flight
  closed, draining,
  shut,        \* Shutdown: "no", "join" (waiting), "clean" or "dirty" (returned)
  toSignal,    \* owners Shutdown has still to signal
  toEmit,      \* rows Restore has still to import
  \* Its goroutines.
  job,         \* job[r]: where the goroutine working for r's owner is
  pc,          \* pc[c]: where cancel or read handler c is
  target,      \* target[c]: the run it asks for
  bound,       \* bound[c]: the binding its absent-owner read compares
  answer,      \* answer[c]: the result it got
  loop,        \* where StartLoop is
  timer,       \* deadline the sleeping loop armed, NoTimer when none
  hint,        \* the one-slot wakeup channel is full
  notifiers,   \* handlers that unlocked and have not called notify() yet
  now          \* the clock

\* One owner record and one handler per run and caller, field by field.
owner   == <<phase, binding, cause, ctx, attempt, cleanupErr>>
call    == <<pc, target, bound, answer>>
db      == <<rowBinding, rowStarted, ran>>
session == <<sess, stage, lease, stopping>>
core    == <<owner, tq, busy, closed, draining, shut, toSignal, toEmit>>
routine == <<job, call, loop, timer, hint, notifiers, now>>
vars    == <<db, session, core, routine>>

Phases == {"none", "persisting", "queued", "cancelPending", "active",
           "finalizing", "completed"}
\* A cause is the caller that chose it, or Shutdown's context.Canceled.
Causes == Callers \cup {"none", "canceled"}
Jobs   == {"none", "persist", "persisted", "refused", "failed", "delete",
           "deleted", "kept", "readMarker", "writeMarker", "checkCause",
           "body", "failing", "returned", "finalize", "finalized", "unfinalized"}
Answers == {"none", "notFound", "closed", "mismatch", "started", "ok", "err",
            "timeout", "read"}
NoTimer == MaxTime + 1

\* The binding a session negotiates: a fresh one, unless the policy resumes.
Binding(s) == IF ResumeBinding THEN 1 ELSE s

\* An attempt is open until its done channel closes; closed, it keeps its result:
\* no error, an error, or an error of the row's removal, which may be retried.
Attempts == {"none", "open", "ok", "err", "finalErr"}

TypeOK ==
  /\ rowBinding \in [Runs -> Nat] /\ rowStarted \in [Runs -> BOOLEAN]
  /\ ran \in [Runs -> Nat]
  /\ sess \in Nat /\ stage \in {"none", "new", "restoring", "serving", "stopped"}
  /\ lease \in {"unarmed", "pending", "ready", "lost"} /\ stopping \in BOOLEAN
  /\ phase \in [Runs -> Phases] /\ binding \in [Runs -> Nat]
  /\ cause \in [Runs -> Causes] /\ ctx \in [Runs -> Causes \cup {"session"}]
  /\ attempt \in [Runs -> Attempts] /\ cleanupErr \in [Runs -> BOOLEAN]
  /\ tq \subseteq Runs
  /\ busy \in Nat /\ closed \in BOOLEAN /\ draining \in BOOLEAN
  /\ shut \in {"no", "join", "clean", "dirty"}
  /\ toSignal \subseteq Runs /\ toEmit \subseteq Runs
  /\ job \in [Runs -> Jobs]
  /\ pc \in [Callers -> {"idle", "signal", "wait", "inspect"}]
  /\ target \in [Callers -> Runs \cup {"none"}] /\ bound \in [Callers -> Nat]
  /\ answer \in [Callers -> Answers]
  /\ loop \in {"off", "starting", "drain", "check", "arm", "sleep", "ended"}
  /\ timer \in Nat /\ hint \in BOOLEAN /\ notifiers \in Nat /\ now \in Nat

-----------------------------------------------------------------------------
(* Guards and small steps shared by the actions.                            *)

\* A live lease for the binding, the Bind acknowledgement pending or received.
CommitUpload(b) == lease \in {"pending", "ready"} /\ b = Binding(sess)

\* A live lease for the binding, fully negotiated.
CommitLease(b) == lease = "ready" /\ b = Binding(sess)

loopRunning == loop \in {"drain", "check", "arm", "sleep"}

NoOwners == \A r \in Runs : phase[r] = "none"

IsDrained == draining /\ ~closed /\ NoOwners /\ busy = 0

\* Due entries come first: the queue's head has the earliest start time.
IsHead(r) == r \in tq /\ \A q \in tq : StartTime[r] <= StartTime[q]

\* A new owner record for a run that has none: every other field is zero.
newOwner(r, b, ph) ==
  /\ phase' = [phase EXCEPT ![r] = ph] /\ binding' = [binding EXCEPT ![r] = b]
  /\ UNCHANGED <<cause, ctx, attempt, cleanupErr>>

\* delete(m.owners, id).
Retire(r) ==
  /\ phase' = [phase EXCEPT ![r] = "none"] /\ binding' = [binding EXCEPT ![r] = 0]
  /\ cause' = [cause EXCEPT ![r] = "none"] /\ ctx' = [ctx EXCEPT ![r] = "none"]
  /\ attempt' = [attempt EXCEPT ![r] = "none"]
  /\ cleanupErr' = [cleanupErr EXCEPT ![r] = FALSE]

\* Handler c returns a.
Answer(c, a) ==
  /\ pc' = [pc EXCEPT ![c] = "idle"] /\ target' = [target EXCEPT ![c] = "none"]
  /\ bound' = [bound EXCEPT ![c] = 0] /\ answer' = [answer EXCEPT ![c] = a]

\* Handler c goes on to p, for run r and binding b.
Proceed(c, p, r, b) ==
  /\ pc' = [pc EXCEPT ![c] = p] /\ target' = [target EXCEPT ![c] = r]
  /\ bound' = [bound EXCEPT ![c] = b] /\ answer' = [answer EXCEPT ![c] = "none"]

\* c holds r's attempt and has not seen it close.
Joined(c, r) == pc[c] \in {"signal", "wait"} /\ target[c] = r /\ answer[c] = "none"

\* (mutant) close(a.done) is forgotten.
PublishForgotten(r, a) == UNCHANGED call

\* close(a.done) with result a: every handler joined to r's attempt gets it; one
\* that has not reached its select yet finds it there.
Publish(r, a) ==
  /\ answer' = [c \in Callers |-> IF Joined(c, r) THEN a ELSE answer[c]]
  /\ pc' = [c \in Callers |-> IF Joined(c, r) /\ pc[c] = "wait" THEN "idle" ELSE pc[c]]
  /\ target' = [c \in Callers |->
                  IF Joined(c, r) /\ pc[c] = "wait" THEN "none" ELSE target[c]]
  /\ UNCHANGED bound

\* Where the goroutine of deleteQueued begins.
deleteQueuedEntry == IF OnFailedRegistered THEN "failed" ELSE "delete"

\* The operation context of a running owner is cancelled.
CtxDone(r) == ctx[r] # "none" \/ stopping

-----------------------------------------------------------------------------
Init ==
  /\ rowBinding = [r \in Runs |-> 0] /\ rowStarted = [r \in Runs |-> FALSE]
  /\ ran = [r \in Runs |-> 0]
  /\ sess = 0 /\ stage = "none" /\ lease = "unarmed" /\ stopping = FALSE
  /\ phase = [r \in Runs |-> "none"] /\ binding = [r \in Runs |-> 0]
  /\ cause = [r \in Runs |-> "none"] /\ ctx = [r \in Runs |-> "none"]
  /\ attempt = [r \in Runs |-> "none"] /\ cleanupErr = [r \in Runs |-> FALSE]
  /\ tq = {} /\ busy = 0 /\ closed = FALSE /\ draining = FALSE /\ shut = "no"
  /\ toSignal = {} /\ toEmit = {}
  /\ job = [r \in Runs |-> "none"] /\ pc = [c \in Callers |-> "idle"]
  /\ target = [c \in Callers |-> "none"] /\ bound = [c \in Callers |-> 0]
  /\ answer = [c \in Callers |-> "none"]
  /\ loop = "off" /\ timer = NoTimer /\ hint = FALSE /\ notifiers = 0 /\ now = 0

(* The session around the core. *)

\* NewSession: the node is free, and a fresh core and transport are built.
NewSession ==
  /\ stage = "none" /\ sess < MaxSessions
  /\ sess' = sess + 1 /\ stage' = "new" /\ lease' = "unarmed" /\ stopping' = FALSE
  /\ UNCHANGED <<db, core, routine>>

\* Session.Run enters Restore: the core counts the database read.
RestoreBegin ==
  /\ stage = "new" /\ ~stopping /\ ~closed
  /\ stage' = "restoring" /\ busy' = busy + 1
  /\ toEmit' = {r \in Runs : rowBinding[r] # 0 /\ ResumeBinding
                              /\ rowBinding[r] = Binding(sess)}
  /\ UNCHANGED <<db, sess, lease, stopping, owner, tq, closed, draining, shut,
                 toSignal, routine>>

\* emit: one eligible row becomes a queued owner.  Every other row stays
\* quarantined: stored, and owned by nobody.
RestoreEmit(r) ==
  /\ stage = "restoring" /\ r \in toEmit /\ ~stopping /\ ~closed /\ phase[r] = "none"
  /\ newOwner(r, rowBinding[r], "queued")
  /\ tq' = tq \cup {r} /\ toEmit' = toEmit \ {r} /\ hint' = TRUE
  /\ UNCHANGED <<db, session, busy, closed, draining, shut, toSignal, job, call,
                 loop, timer, notifiers, now>>

\* (mutant) the failing path of Restore keeps its reservation.
RestoreEndLeaky ==
  /\ stage = "restoring" /\ toEmit' = {}
  /\ stage' = "stopped" /\ stopping' = TRUE /\ lease' = "lost"
  /\ UNCHANGED <<db, sess, owner, tq, busy, closed, draining, shut, toSignal, routine>>

\* Restore returns.  With everything imported the session listens; a failed
\* read, a closed core or a cancelled context stops it instead.
RestoreEnd ==
  /\ stage = "restoring" /\ busy' = busy - 1 /\ toEmit' = {}
  /\ \/ toEmit = {} /\ ~stopping /\ stage' = "serving" /\ UNCHANGED <<lease, stopping>>
     \/ stage' = "stopped" /\ stopping' = TRUE /\ lease' = "lost"
  /\ UNCHANGED <<db, sess, owner, tq, closed, draining, shut, toSignal, routine>>

\* confirmLease sends Bind: Upload may commit from here on.
LeaseArm ==
  /\ stage = "serving" /\ ~stopping /\ lease = "unarmed" /\ lease' = "pending"
  /\ UNCHANGED <<db, sess, stage, stopping, core, routine>>

\* The Bind acknowledgement arrived in time.
LeaseReady ==
  /\ lease = "pending" /\ lease' = "ready"
  /\ UNCHANGED <<db, sess, stage, stopping, core, routine>>

\* Expiry, transport failure or Stop: eligibility is revoked for good.
LeaseLost ==
  /\ stage = "serving" /\ lease # "lost" /\ lease' = "lost"
  /\ UNCHANGED <<db, sess, stage, stopping, core, routine>>

\* Session.Stop: revoke the transport, cancel the session context.
Stop ==
  /\ stage # "none" /\ ~stopping
  /\ lease' = "lost" /\ stopping' = TRUE
  /\ UNCHANGED <<db, sess, stage, core, routine>>

\* The core, with its owners and handlers, is dropped.
DropCore ==
  /\ phase' = [r \in Runs |-> "none"] /\ binding' = [r \in Runs |-> 0]
  /\ cause' = [r \in Runs |-> "none"] /\ ctx' = [r \in Runs |-> "none"]
  /\ attempt' = [r \in Runs |-> "none"] /\ cleanupErr' = [r \in Runs |-> FALSE]
  /\ tq' = {} /\ closed' = FALSE /\ draining' = FALSE /\ shut' = "no"
  /\ pc' = [c \in Callers |-> "idle"] /\ target' = [c \in Callers |-> "none"]
  /\ bound' = [c \in Callers |-> 0] /\ answer' = [c \in Callers |-> "none"]
  /\ loop' = "off" /\ timer' = NoTimer /\ hint' = FALSE
  /\ stage' = "none" /\ lease' = "unarmed" /\ stopping' = FALSE

\* cleanup joined storage, transport handlers and Run, and Shutdown was clean:
\* the node is released.  After a failed Shutdown it never is.
Release ==
  /\ shut = "clean" /\ stage # "restoring" /\ ~loopRunning /\ loop # "starting"
  /\ notifiers = 0 /\ \A c \in Callers : pc[c] = "idle"
  /\ DropCore
  /\ UNCHANGED <<db, sess, busy, toSignal, toEmit, job, notifiers, now>>

\* The process dies: the rows survive, every goroutine and owner is gone.
Crash ==
  /\ stage # "none" /\ DropCore
  /\ busy' = 0 /\ toSignal' = {} /\ toEmit' = {}
  /\ job' = [r \in Runs |-> "none"] /\ notifiers' = 0
  /\ UNCHANGED <<db, sess, now>>

-----------------------------------------------------------------------------
(* Admission.                                                               *)

\* insert, first critical section: reserve the owner under the Insert guard.
Insert(r) ==
  /\ stage = "serving" /\ ~closed /\ ~draining /\ phase[r] = "none"
  /\ CommitUpload(Binding(sess)) /\ notifiers < MaxNotifiers
  /\ newOwner(r, Binding(sess), "persisting")
  /\ job' = [job EXCEPT ![r] = "persist"] /\ busy' = busy + 1
  /\ UNCHANGED <<db, session, tq, closed, draining, shut, toSignal, toEmit, call,
                 loop, timer, hint, notifiers, now>>

\* (mutant) the write's error is swallowed.
PersistSwallowed(r) ==
  /\ job[r] = "persist" /\ job' = [job EXCEPT ![r] = "persisted"]
  /\ UNCHANGED <<db, session, core, call, loop, timer, hint, notifiers, now>>

\* persist: one bounded INSERT, outside the lock.  A stored identity violates
\* UNIQUE, a full queue inserts nothing, and the write may fail or time out.
Persist(r) ==
  /\ job[r] = "persist"
  /\ \/ /\ rowBinding[r] = 0
        /\ Cardinality({q \in Runs : rowBinding[q] # 0}) < MaxQueuedRuns
        /\ rowBinding' = [rowBinding EXCEPT ![r] = binding[r]]
        /\ rowStarted' = [rowStarted EXCEPT ![r] = FALSE]
        /\ ran' = [ran EXCEPT ![r] = 0]
        /\ job' = [job EXCEPT ![r] = "persisted"]
     \/ job' = [job EXCEPT ![r] = "refused"] /\ UNCHANGED db
  /\ UNCHANGED <<session, core, call, loop, timer, hint, notifiers, now>>

\* insert, second critical section after a failed write: the reservation ends,
\* and a cancellation that joined it learns there was no accepted run.
PersistRefused(r) ==
  /\ job[r] = "refused"
  /\ Retire(r) /\ Publish(r, "notFound") /\ job' = [job EXCEPT ![r] = "none"]
  /\ busy' = busy - 1 /\ notifiers' = notifiers + 1
  /\ UNCHANGED <<db, session, tq, closed, draining, shut, toSignal, toEmit, loop,
                 timer, hint, now>>

\* insert, second critical section after a successful write: queue the run, or
\* hand it to the cancellation that arrived meanwhile.  A closed core still
\* installs it.
PersistInstalled(r) ==
  /\ job[r] = "persisted"
  /\ \/ /\ attempt[r] = "none"
        /\ phase' = [phase EXCEPT ![r] = "queued"] /\ tq' = tq \cup {r}
        /\ job' = [job EXCEPT ![r] = "none"] /\ busy' = busy - 1
     \/ /\ attempt[r] # "none"
        /\ phase' = [phase EXCEPT ![r] = "cancelPending"]
        /\ job' = [job EXCEPT ![r] = deleteQueuedEntry] /\ UNCHANGED <<tq, busy>>
  /\ notifiers' = notifiers + 1
  /\ UNCHANGED <<db, session, binding, cause, ctx, attempt, cleanupErr, closed,
                 draining, shut, toSignal, toEmit, call, loop, timer, hint, now>>

\* notify: fill the one-slot wakeup channel, or find it full.
Notify ==
  /\ notifiers > 0 /\ notifiers' = notifiers - 1 /\ hint' = TRUE
  /\ UNCHANGED <<db, session, core, job, call, loop, timer, now>>

BeginDrain ==
  /\ stage = "serving" /\ ~draining /\ draining' = TRUE
  /\ UNCHANGED <<db, session, owner, tq, busy, closed, shut, toSignal, toEmit, routine>>

\* TryDrain closes admission only when nothing is owned and nothing is running.
TryDrain ==
  /\ stage = "serving" /\ ~draining /\ ~closed /\ NoOwners /\ busy = 0
  /\ draining' = TRUE
  /\ UNCHANGED <<db, session, owner, tq, busy, closed, shut, toSignal, toEmit, routine>>

-----------------------------------------------------------------------------
(* Cancellation: requestCancel, one action per way through it.  A handler   *)
(* asks for run r; b is the binding it presents, 0 for Cancel and Remove,   *)
(* which present none; queueOnly is Remove.                                 *)

Asks(c) == stage = "serving" /\ pc[c] = "idle"

Matches(r, b) == phase[r] # "none" /\ b \in {0, binding[r]}

Started(r) == phase[r] \in {"active", "finalizing", "completed"}

\* What a closed core still lets a cancellation join.
JoinableWhenClosed(r) ==
  \/ phase[r] \in {"cancelPending", "finalizing", "active"}
  \/ phase[r] = "persisting" /\ attempt[r] # "none"

\* The caller is past every refusal.
MayJoin(c, r, b, queueOnly) ==
  /\ Asks(c) /\ Matches(r, b) /\ ~(queueOnly /\ Started(r))
  /\ closed => JoinableWhenClosed(r)

\* The result a closed attempt repeats to every caller.
StoredResult(r) == IF attempt[r] = "ok" THEN "ok" ELSE "err"

\* An immediate answer that changes nothing.
Refusal(r, b, queueOnly) ==
  CASE phase[r] = "none" -> IF closed THEN "closed" ELSE "notFound"
    [] phase[r] # "none" /\ b \notin {0, binding[r]} -> "mismatch"
    [] Matches(r, b) /\ queueOnly /\ Started(r) -> IF closed THEN "closed" ELSE "started"
    [] Matches(r, b) /\ ~queueOnly /\ closed /\ b # 0 /\ phase[r] = "completed" ->
         StoredResult(r)
    [] OTHER -> "closed"

CancelRefused(c, r, b, queueOnly) ==
  /\ Asks(c) /\ ~MayJoin(c, r, b, queueOnly)
  /\ phase[r] = "none" => closed \/ b = 0
  /\ Answer(c, Refusal(r, b, queueOnly))
  /\ UNCHANGED <<db, session, core, job, loop, timer, hint, notifiers, now>>

\* No owner, and a binding to compare: reserve a read of the stored row.
CancelAbsent(c, r, b) ==
  /\ Asks(c) /\ phase[r] = "none" /\ ~closed /\ b # 0
  /\ Proceed(c, "inspect", r, b) /\ busy' = busy + 1
  /\ UNCHANGED <<db, session, owner, tq, closed, draining, shut, toSignal, toEmit,
                 job, loop, timer, hint, notifiers, now>>

\* Inspect: any other backend read, such as the listing of retained results.
Inspect(c) ==
  /\ Asks(c) /\ ~closed
  /\ Proceed(c, "inspect", "none", 0) /\ busy' = busy + 1
  /\ UNCHANGED <<db, session, owner, tq, closed, draining, shut, toSignal, toEmit,
                 job, loop, timer, hint, notifiers, now>>

\* inspectAbsent's verdict on the stored row.
inspectAbsent(r, b) == IF rowBinding[r] \in {0, b} THEN "notFound" ELSE "mismatch"

\* The read returns, or fails; either way its reservation ends.
InspectReturn(c) ==
  /\ pc[c] = "inspect"
  /\ \/ Answer(c, "err")
     \/ target[c] = "none" /\ Answer(c, "read")
     \/ target[c] # "none" /\ Answer(c, inspectAbsent(target[c], bound[c]))
  /\ busy' = busy - 1
  /\ UNCHANGED <<db, session, owner, tq, closed, draining, shut, toSignal, toEmit,
                 job, loop, timer, hint, notifiers, now>>

\* The run is still being persisted: leave the cancellation with its owner.
CancelPersisting(c, r, b, queueOnly) ==
  /\ MayJoin(c, r, b, queueOnly) /\ phase[r] = "persisting"
  /\ \/ /\ attempt[r] = "none"
        /\ attempt' = [attempt EXCEPT ![r] = "open"] /\ cause' = [cause EXCEPT ![r] = c]
     \/ attempt[r] # "none" /\ UNCHANGED <<attempt, cause>>
  /\ Proceed(c, "wait", r, 0)
  /\ UNCHANGED <<db, session, phase, binding, ctx, cleanupErr, tq, busy, closed,
                 draining, shut, toSignal, toEmit, job, loop, timer, hint, notifiers, now>>

\* Queued: take it out of the queue and start its deletion.
CancelQueued(c, r, b, queueOnly) ==
  /\ MayJoin(c, r, b, queueOnly) /\ phase[r] = "queued"
  /\ notifiers < MaxNotifiers
  /\ tq' = tq \ {r} /\ phase' = [phase EXCEPT ![r] = "cancelPending"]
  /\ cause' = [cause EXCEPT ![r] = c] /\ attempt' = [attempt EXCEPT ![r] = "open"]
  /\ job' = [job EXCEPT ![r] = deleteQueuedEntry] /\ busy' = busy + 1
  /\ Proceed(c, "wait", r, 0) /\ notifiers' = notifiers + 1
  /\ UNCHANGED <<db, session, binding, ctx, cleanupErr, closed, draining, shut,
                 toSignal, toEmit, loop, timer, hint, now>>

\* The cause an active owner has after caller c asked: the first one stays.
commitCause(r, c) == IF cause[r] = "none" THEN c ELSE cause[r]

\* Active: the first cause stays; the signal is sent after the unlock.  A closed
\* core only lets the caller join.
CancelActive(c, r, b, queueOnly) ==
  /\ MayJoin(c, r, b, queueOnly) /\ phase[r] = "active"
  /\ \/ /\ ~closed /\ cause' = [cause EXCEPT ![r] = commitCause(r, c)]
        /\ Proceed(c, "signal", r, 0)
     \/ closed /\ UNCHANGED cause /\ Proceed(c, "wait", r, 0)
  /\ UNCHANGED <<db, session, phase, binding, ctx, attempt, cleanupErr, tq, busy, closed,
                 draining, shut, toSignal, toEmit, job, loop, timer, hint, notifiers, now>>

\* Its deletion or finalization is under way: join it.
CancelJoin(c, r, b, queueOnly) ==
  /\ MayJoin(c, r, b, queueOnly) /\ phase[r] \in {"cancelPending", "finalizing"}
  /\ Proceed(c, "wait", r, 0)
  /\ UNCHANGED <<db, session, core, job, loop, timer, hint, notifiers, now>>

\* Completed: retry a failed row removal, or repeat the stored result.
CancelCompleted(c, r, b, queueOnly) ==
  /\ MayJoin(c, r, b, queueOnly) /\ phase[r] = "completed"
  /\ \/ /\ attempt[r] = "finalErr"
        /\ phase' = [phase EXCEPT ![r] = "finalizing"]
        /\ attempt' = [attempt EXCEPT ![r] = "open"]
        /\ job' = [job EXCEPT ![r] = "finalize"] /\ busy' = busy + 1
        /\ Proceed(c, "wait", r, 0)
     \/ /\ attempt[r] # "finalErr" /\ UNCHANGED <<phase, attempt, job, busy>>
        /\ Answer(c, StoredResult(r))
  /\ UNCHANGED <<db, session, binding, cause, ctx, cleanupErr, tq, closed, draining,
                 shut, toSignal, toEmit, loop, timer, hint, notifiers, now>>

\* The cause caller c signals with: the committed one, not its own.
signalCause(c) == cause[target[c]]

\* cancel(k) of r's operation context: the first cause stays, and the end of the
\* session, its parent, comes before any.
CancelContext(r, k) ==
  ctx' = IF ctx[r] # "none" THEN ctx
         ELSE [ctx EXCEPT ![r] = IF stopping THEN "session" ELSE k]

\* signal(cause), outside every lock, with the owner's committed cause.  The
\* operation may already be over, which the caller then finds at its select.
Signal(c) ==
  /\ pc[c] = "signal"
  /\ \/ /\ answer[c] = "none" /\ CancelContext(target[c], signalCause(c))
        /\ pc' = [pc EXCEPT ![c] = "wait"] /\ UNCHANGED <<target, bound, answer>>
     \/ answer[c] # "none" /\ UNCHANGED ctx /\ Answer(c, answer[c])
  /\ UNCHANGED <<db, session, phase, binding, cause, attempt, cleanupErr, tq, busy, closed,
                 draining, shut, toSignal, toEmit, job, loop, timer, hint, notifiers, now>>

\* The caller's own context ends first: it leaves, the work stays owned.
CallerTimeout(c) ==
  /\ pc[c] = "wait" /\ Answer(c, "timeout")
  /\ UNCHANGED <<db, session, core, job, loop, timer, hint, notifiers, now>>

-----------------------------------------------------------------------------
(* Deletion of queued work and finalization.                                *)

\* deleteQueued with a failed callback: the callback reports the cancellation,
\* and the owner continues as a finalization.
FailedReturn(r) ==
  /\ job[r] = "failed"
  /\ phase' = [phase EXCEPT ![r] = "finalizing"]
  /\ job' = [job EXCEPT ![r] = "finalize"]
  /\ UNCHANGED <<db, session, binding, cause, ctx, attempt, cleanupErr, tq, busy, closed,
                 draining, shut, toSignal, toEmit, call, loop, timer, hint, notifiers, now>>

\* finalize: the row is removed, or the statement fails and it stays.
DeleteRow(r) ==
  /\ job[r] \in {"delete", "finalize"}
  /\ \/ /\ rowBinding' = [rowBinding EXCEPT ![r] = 0]
        /\ rowStarted' = [rowStarted EXCEPT ![r] = FALSE]
        /\ ran' = [ran EXCEPT ![r] = 0]
        /\ job' = [job EXCEPT ![r] = IF @ = "delete" THEN "deleted" ELSE "finalized"]
     \/ /\ UNCHANGED db
        /\ job' = [job EXCEPT ![r] = IF @ = "delete" THEN "kept" ELSE "unfinalized"]
  /\ UNCHANGED <<session, core, call, loop, timer, hint, notifiers, now>>

\* deleteQueued without a failed callback: retire the owner, or put the run back
\* in the queue when its row could not be removed.
DeleteQueuedReturn(r) ==
  /\ \/ job[r] = "deleted" /\ Retire(r) /\ Publish(r, "ok") /\ UNCHANGED tq
     \/ /\ job[r] = "kept" /\ Publish(r, "err") /\ tq' = tq \cup {r}
        /\ phase' = [phase EXCEPT ![r] = "queued"] /\ cause' = [cause EXCEPT ![r] = "none"]
        /\ attempt' = [attempt EXCEPT ![r] = "finalErr"]
        /\ UNCHANGED <<binding, ctx, cleanupErr>>
  /\ job' = [job EXCEPT ![r] = "none"] /\ busy' = busy - 1 /\ hint' = TRUE
  /\ UNCHANGED <<db, session, closed, draining, shut, toSignal, toEmit, loop, timer,
                 notifiers, now>>

\* (mutant) only the cleanup error is reported.
attemptErrCleanupOnly(r) == cleanupErr[r]

\* a.err: the callback's cleanup error joined with the row removal's.
attemptErr(r) == cleanupErr[r] \/ job[r] = "unfinalized"

\* finalizeOwner: publish the attempt; a clean one retires the owner.
FinalizeReturn(r) ==
  /\ job[r] \in {"finalized", "unfinalized"}
  /\ \/ ~attemptErr(r) /\ Retire(r) /\ Publish(r, "ok")
     \/ /\ attemptErr(r) /\ Publish(r, "err")
        /\ phase' = [phase EXCEPT ![r] = "completed"]
        /\ attempt' = [attempt EXCEPT ![r] =
                         IF job[r] = "unfinalized" THEN "finalErr" ELSE "err"]
        /\ UNCHANGED <<binding, cause, ctx, cleanupErr>>
  /\ job' = [job EXCEPT ![r] = "none"] /\ busy' = busy - 1
  /\ UNCHANGED <<db, session, tq, closed, draining, shut, toSignal, toEmit, loop,
                 timer, hint, notifiers, now>>

-----------------------------------------------------------------------------
(* The dispatch loop.                                                       *)

\* The session's ready() returned; it goes on to call StartLoop.
LoopReady ==
  /\ stage = "serving" /\ loop = "off" /\ lease = "ready" /\ loop' = "starting"
  /\ UNCHANGED <<db, session, core, job, call, timer, hint, notifiers, now>>

StartLoop ==
  /\ loop = "starting" /\ loop' = "drain"
  /\ UNCHANGED <<db, session, core, job, call, timer, hint, notifiers, now>>

\* Consume a stale hint before looking at the queue, and stop the timer.
LoopDrain ==
  /\ loop = "drain" /\ loop' = "check" /\ hint' = FALSE /\ timer' = NoTimer
  /\ UNCHANGED <<db, session, core, job, call, notifiers, now>>

\* The context is cancelled or the core closed: the loop returns.
LoopStopped ==
  /\ loop = "check" /\ (stopping \/ closed) /\ loop' = "ended"
  /\ UNCHANGED <<db, session, core, job, call, timer, hint, notifiers, now>>

\* A due head is promoted under the Start guard and its callback begins.
LoopPromote(r) ==
  /\ loop = "check" /\ ~stopping /\ ~closed /\ IsHead(r) /\ StartTime[r] <= now
  /\ CommitLease(binding[r])
  /\ tq' = tq \ {r} /\ busy' = busy + 1
  /\ phase' = [phase EXCEPT ![r] = "active"] /\ ctx' = [ctx EXCEPT ![r] = "none"]
  /\ attempt' = [attempt EXCEPT ![r] = "open"]
  /\ job' = [job EXCEPT ![r] = "readMarker"] /\ loop' = "drain"
  /\ UNCHANGED <<db, session, binding, cause, cleanupErr, closed, draining, shut,
                 toSignal, toEmit, call, timer, hint, notifiers, now>>

\* The guard refuses: the loop ends, and the run stays queued and stored.
LoopRefused(r) ==
  /\ loop = "check" /\ ~stopping /\ ~closed /\ IsHead(r) /\ StartTime[r] <= now
  /\ ~CommitLease(binding[r]) /\ loop' = "ended"
  /\ UNCHANGED <<db, session, core, job, call, timer, hint, notifiers, now>>

\* Nothing is due: unlock, and compute the timer when there is a head to wait for.
LoopSleep ==
  /\ loop = "check" /\ ~stopping /\ ~closed
  /\ \/ tq = {} /\ timer' = NoTimer
     \/ \E r \in tq : IsHead(r) /\ StartTime[r] > now /\ timer' = StartTime[r]
  /\ loop' = "arm"
  /\ UNCHANGED <<db, session, core, job, call, hint, notifiers, now>>

\* (mutant) a hint found after the check is discarded as stale.
LoopArmDrains ==
  /\ loop = "arm" /\ loop' = "sleep" /\ hint' = FALSE
  /\ UNCHANGED <<db, session, core, job, call, timer, notifiers, now>>

\* The timer is armed and the loop enters its select; a hint may have come since.
LoopArm ==
  /\ loop = "arm" /\ loop' = "sleep"
  /\ UNCHANGED <<db, session, core, job, call, timer, hint, notifiers, now>>

\* A hint or the timer wakes the loop; the session's end makes it return.
LoopWake ==
  /\ loop = "sleep"
  /\ \/ hint /\ hint' = FALSE /\ loop' = "drain"
     \/ timer <= now /\ UNCHANGED hint /\ loop' = "drain"
     \/ (stopping \/ closed) /\ UNCHANGED hint /\ loop' = "ended"
  /\ UNCHANGED <<db, session, core, job, call, timer, notifiers, now>>

Tick == now < MaxTime /\ now' = now + 1
        /\ UNCHANGED <<db, session, core, job, call, loop, timer, hint, notifiers>>

-----------------------------------------------------------------------------
(* The start callback of the SQLite backend (onStart), run by runOwner.     *)

\* (mutant) the stored marker is not looked at.
ReadMarkerIgnored(r) ==
  /\ job[r] = "readMarker" /\ job' = [job EXCEPT ![r] = "writeMarker"]
  /\ UNCHANGED <<db, session, core, call, loop, timer, hint, notifiers, now>>

\* Read the start marker: a failed read or a set marker ends in the failed
\* callback.
ReadMarker(r) ==
  /\ job[r] = "readMarker"
  /\ \/ ~rowStarted[r] /\ rowBinding[r] # 0 /\ job' = [job EXCEPT ![r] = "writeMarker"]
     \/ job' = [job EXCEPT ![r] = "failing"]
  /\ UNCHANGED <<db, session, core, call, loop, timer, hint, notifiers, now>>

\* Write the start marker, before anything of the run executes.
WriteMarker(r) ==
  /\ job[r] = "writeMarker"
  /\ \/ /\ rowBinding[r] # 0 /\ rowStarted' = [rowStarted EXCEPT ![r] = TRUE]
        /\ job' = [job EXCEPT ![r] = "checkCause"] /\ UNCHANGED <<rowBinding, ran>>
     \/ job' = [job EXCEPT ![r] = "failing"] /\ UNCHANGED db
  /\ UNCHANGED <<session, core, call, loop, timer, hint, notifiers, now>>

\* A cancellation seen after the marker still prevents the body.
CheckCause(r) ==
  /\ job[r] = "checkCause"
  /\ \/ /\ CtxDone(r) /\ job' = [job EXCEPT ![r] = "failing"] /\ UNCHANGED ran
     \/ /\ ~CtxDone(r) /\ job' = [job EXCEPT ![r] = "body"]
        /\ ran' = [ran EXCEPT ![r] = @ + 1]
  /\ UNCHANGED <<rowBinding, rowStarted, session, core, call, loop, timer, hint,
                 notifiers, now>>

\* What the callback may report as its CleanupErr: only a runtime that was
\* started can fail to close, and without a failed callback there is always one.
CleanupErrs(r) ==
  IF job[r] = "body" THEN BOOLEAN ELSE {~OnFailedRegistered}

\* runOwner after the callback: record its completion.
CallbackReturn(r) ==
  /\ job[r] \in {"failing", "body"}
  /\ phase' = [phase EXCEPT ![r] = "finalizing"]
  /\ \E e \in CleanupErrs(r) : cleanupErr' = [cleanupErr EXCEPT ![r] = e]
  /\ job' = [job EXCEPT ![r] = "returned"]
  /\ UNCHANGED <<db, session, binding, cause, ctx, attempt, tq, busy, closed, draining,
                 shut, toSignal, toEmit, call, loop, timer, hint, notifiers, now>>

\* The cause of o.cancel(cause) after the callback: the one committed under the
\* lock, context.Canceled when there is none.
naturalCause(r) == IF cause[r] = "none" THEN "canceled" ELSE cause[r]

\* runOwner releases the operation context outside the lock, then finalizes.
ContextReleased(r) ==
  /\ job[r] = "returned" /\ CancelContext(r, naturalCause(r))
  /\ job' = [job EXCEPT ![r] = "finalize"]
  /\ UNCHANGED <<db, session, phase, binding, cause, attempt, cleanupErr, tq, busy, closed,
                 draining, shut, toSignal, toEmit, call, loop, timer, hint, notifiers, now>>

-----------------------------------------------------------------------------
(* Shutdown.                                                                *)

\* (mutant) Shutdown's cause replaces an earlier one.
ShutdownCauseAlways(r) == IF phase[r] = "active" THEN "canceled" ELSE cause[r]

\* The cause of an active owner that has none.
ShutdownCause(r) ==
  IF phase[r] = "active" /\ cause[r] = "none" THEN "canceled" ELSE cause[r]

\* Close the core and choose a cause for every active owner.
ShutdownBegin ==
  /\ stopping /\ shut = "no" /\ stage # "none"
  /\ closed' = TRUE /\ shut' = "join"
  /\ toSignal' = {r \in Runs : phase[r] = "active"}
  /\ cause' = [r \in Runs |-> ShutdownCause(r)]
  /\ UNCHANGED <<db, session, phase, binding, ctx, attempt, cleanupErr, tq, busy, draining,
                 toEmit, routine>>

\* cancel(cause) of one owner that was active, unless it is already gone.
ShutdownSignal(r) ==
  /\ r \in toSignal /\ toSignal' = toSignal \ {r}
  /\ \/ phase[r] # "none" /\ CancelContext(r, naturalCause(r))
     \/ phase[r] = "none" /\ UNCHANGED ctx
  /\ UNCHANGED <<db, session, phase, binding, cause, attempt, cleanupErr, tq, busy, closed,
                 draining, shut, toEmit, routine>>

\* Nothing is in flight: report the errors of owners that could not be retired.
ShutdownReturn ==
  /\ shut = "join" /\ toSignal = {} /\ busy = 0 /\ ~loopRunning
  /\ shut' = IF \E r \in Runs : phase[r] = "completed" /\ attempt[r] # "ok"
             THEN "dirty" ELSE "clean"
  /\ UNCHANGED <<db, session, owner, tq, busy, closed, draining, toSignal, toEmit,
                 routine>>

\* The last session the bound allows is over and released.
Finished == stage = "none" /\ sess = MaxSessions /\ UNCHANGED vars

-----------------------------------------------------------------------------
CancelStep(c) ==
  \E r \in Runs, b \in 0..sess, queueOnly \in BOOLEAN :
    /\ queueOnly => b = 0
    /\ \/ CancelRefused(c, r, b, queueOnly)
       \/ CancelAbsent(c, r, b)
       \/ CancelPersisting(c, r, b, queueOnly)
       \/ CancelQueued(c, r, b, queueOnly)
       \/ CancelActive(c, r, b, queueOnly)
       \/ CancelJoin(c, r, b, queueOnly)
       \/ CancelCompleted(c, r, b, queueOnly)

CallerStep(c) == CancelStep(c) \/ Inspect(c) \/ InspectReturn(c) \/ Signal(c)
                 \/ CallerTimeout(c)

WorkerStep(r) ==
  \/ Persist(r) \/ PersistRefused(r) \/ PersistInstalled(r)
  \/ FailedReturn(r) \/ DeleteRow(r) \/ DeleteQueuedReturn(r) \/ FinalizeReturn(r)
  \/ ReadMarker(r) \/ WriteMarker(r) \/ CheckCause(r) \/ CallbackReturn(r)
  \/ ContextReleased(r)

LoopStep ==
  \/ StartLoop \/ LoopDrain \/ LoopStopped \/ LoopSleep \/ LoopArm \/ LoopWake
  \/ \E r \in Runs : LoopPromote(r) \/ LoopRefused(r)

SessionStep ==
  \/ NewSession \/ RestoreBegin \/ RestoreEnd \/ LeaseArm \/ LeaseReady \/ LeaseLost
  \/ Stop \/ Release \/ Crash \/ BeginDrain \/ TryDrain \/ LoopReady
  \/ \E r \in Runs : RestoreEmit(r) \/ Insert(r)

ShutdownStep ==
  ShutdownBegin \/ ShutdownReturn \/ \E r \in Runs : ShutdownSignal(r)

Next ==
  \/ SessionStep \/ LoopStep \/ ShutdownStep \/ Notify \/ Tick \/ Finished
  \/ \E r \in Runs : WorkerStep(r)
  \/ \E c \in Callers : CallerStep(c)

Spec == Init /\ [][Next]_vars

\* Goroutines of the core, the loop and Shutdown always proceed: SQL statements
\* and the failed callback are bounded by CleanupTimeout, a run's body by its
\* policy timeout, timers fire.  Uploads, cancellations, lease changes, stops and
\* crashes are the environment's and are not assumed to happen.
Fairness ==
  /\ \A r \in Runs : WF_vars(WorkerStep(r))
  /\ \A c \in Callers : WF_vars(Signal(c) \/ InspectReturn(c))
  /\ WF_vars(LoopStep) /\ WF_vars(ShutdownStep) /\ WF_vars(Notify) /\ WF_vars(Tick)
  /\ WF_vars(RestoreEnd)

FairSpec == Spec /\ Fairness

-----------------------------------------------------------------------------
(* Properties.                                                              *)

\* The goroutine an owner's phase promises.
Workers(ph) ==
  CASE ph = "persisting"    -> {"persist", "persisted", "refused"}
    [] ph = "cancelPending" -> {"failed", "delete", "deleted", "kept"}
    [] ph = "active"        -> {"readMarker", "writeMarker", "checkCause", "body",
                                "failing"}
    [] ph = "finalizing"    -> {"returned", "finalize", "finalized", "unfinalized"}
    [] OTHER                -> {"none"}

\* busy is exactly the number of reservations, callbacks, finalizers and reads in
\* flight.  Shutdown waits for busy = 0 only, so one unbalanced path through
\* insert, requestCancel, deleteQueued or finalizeOwner would let it return early
\* or never.
BusyCountsWork ==
  busy = Cardinality({r \in Runs : job[r] # "none"})
         + Cardinality({c \in Callers : pc[c] = "inspect"})
         + (IF stage = "restoring" THEN 1 ELSE 0)

\* Every phase that somebody may join has exactly its goroutine, the queue holds
\* exactly the queued owners, and an attempt is open exactly while that goroutine
\* will close it (close(a.done) is never skipped and never done twice).
OwnersHaveWorkers ==
  /\ tq = {r \in Runs : phase[r] = "queued"}
  /\ \A r \in Runs :
       /\ job[r] \in Workers(phase[r])
       /\ phase[r] \in {"cancelPending", "active", "finalizing"} => attempt[r] = "open"
       /\ phase[r] \in {"none", "queued", "completed"} => attempt[r] # "open"

\* A handler waiting at requestCancel's select is joined to an attempt that is
\* still open and that some goroutine will close: no cancellation is stranded by a
\* retirement, a re-queue or a replaced attempt.
NoStrandedCaller ==
  \A c \in Callers, r \in Runs :
    Joined(c, r) => attempt[r] = "open" /\ job[r] # "none"

\* Work the core holds as queued or running has its canonical row, stored under
\* the owner's binding, until its own finalizer removes it: a crash at any point
\* of an accepted run leaves evidence of it.
AcceptedWorkIsStored ==
  \A r \in Runs :
    \/ phase[r] \in {"queued", "active"}
    \/ job[r] \in {"persisted", "failed", "delete", "kept", "unfinalized"}
    => rowBinding[r] = binding[r]

\* The body of a stored run starts at most once, and never before the durable
\* start marker: across crashes, restarts and restores, whichever restore policy
\* is in force (package sqlite: "without silently running stored work again").
StoredWorkRunsOnce ==
  \A r \in Runs : ran[r] <= 1 /\ (ran[r] > 0 => rowStarted[r])

\* Once Shutdown has returned, nothing of this core is running or ever starts
\* again: no SQL, no callback, no read, so the database may be closed.
QuietAfterShutdown ==
  shut \in {"clean", "dirty"} =>
    /\ \A r \in Runs : job[r] = "none" /\ phase[r] \in {"none", "queued", "completed"}
    /\ \A c \in Callers : pc[c] # "inspect"
    /\ stage # "restoring"

\* A clean Shutdown means more: no run this session started has a row left, so
\* what the next session quarantines was never started by this one.
CleanShutdownLeavesNoStartedRun ==
  shut = "clean" /\ ~ResumeBinding =>
    \A r \in Runs : rowBinding[r] = Binding(sess) => ~rowStarted[r]

\* A run's operation context carries the session's end or the one cause its owner
\* committed, however Cancel, Shutdown and the callback's return race: only a run
\* nobody cancelled is released with context.Canceled, after its callback.
SignalCarriesCause ==
  \A r \in Runs :
    \/ ctx[r] \in {"none", "session", cause[r]}
    \/ ctx[r] = "canceled" /\ cause[r] = "none" /\ phase[r] \in {"finalizing", "completed"}

\* The first cause stays: a later cancellation or Shutdown never replaces the
\* cause an owner has committed to.
FirstCauseWins ==
  [][\A r \in Runs : cause[r] # "none" /\ cause'[r] # "none"
                       => cause'[r] = cause[r]]_vars

\* A cancellation that joined and is told (true, nil) finds the run gone: its
\* owner retired and its row deleted.
JoinedCancelMeansGone ==
  [][\A c \in Callers, r \in Runs :
       Joined(c, r) /\ answer'[c] = "ok" => rowBinding'[r] = 0 /\ phase'[r] = "none"]_vars

\* The loop never sleeps through due work: when it sleeps with no hint pending and
\* no notifier on its way, its timer is set no later than any queued start time.
NoLostWakeup ==
  loop \in {"arm", "sleep"} /\ ~hint /\ notifiers = 0 /\ ~closed =>
    \A r \in tq : timer <= StartTime[r]

\* Every cancel or read handler is answered without relying on its own timeout.
CallerAnswered == \A c \in Callers : pc[c] # "idle" ~> pc[c] = "idle"

\* Shutdown joins whatever was in flight when the session stopped.
ShutdownJoins == stopping ~> (~stopping \/ shut \in {"clean", "dirty"})

\* A due queued run leaves the queue while the loop runs, unless the lease is lost.
DueRunDispatched ==
  \A r \in Runs : r \in tq /\ StartTime[r] <= now /\ loopRunning
                    ~> r \notin tq \/ ~loopRunning

\* How the database and the goroutine between the marker and the body read as
\* custody of a stored run.
custodyOf ==
  [r \in Runs |-> CASE rowBinding[r] = 0      -> "absent"
                    [] rowBinding[r] # 0 /\ ~rowStarted[r] -> "accepted"
                    [] rowBinding[r] # 0 /\ rowStarted[r] /\ job[r] = "checkCause"
                         -> "marked"
                    [] OTHER -> "spent"]

Custody == INSTANCE RunCustody WITH custody <- custodyOf, starts <- ran

\* The scheduler implements RunCustody: every step of the core, the rows and the
\* crashes is an accept, mark, start, lapse or removal of stored runs, or a stutter.
ImplementsCustody == Custody!CustodySpec

-----------------------------------------------------------------------------
(* What the runs check, one property per question. *)

\* Work an executor took is kept and started at most once, across sessions,
\* failed writes and crashes (insert, persist, restore, onStart).
WorkIsKept == TypeOK /\ AcceptedWorkIsStored /\ StoredWorkRunsOnce

\* A caller that waits is waiting for somebody: each open attempt has its closer,
\* each owner its goroutine, and the context says why it was ended (requestCancel,
\* deleteQueued, runOwner, finalizeOwner).
CallersAreServed == OwnersHaveWorkers /\ NoStrandedCaller /\ SignalCarriesCause

\* Shutdown leaves nothing running, and a clean one no started row (Shutdown).
ShutdownLeavesNothing == QuietAfterShutdown /\ CleanShutdownLeavesNoStartedRun

\* The count Shutdown waits on is what is in flight, and the loop does not sleep
\* past due work (StartLoop, notify, Shutdown).
LoopIsSound == BusyCountsWork /\ NoLostWakeup

\* Callers and Shutdown return.
CallsReturn == CallerAnswered /\ ShutdownJoins

=============================================================================
