---------------------------- MODULE RunLifecycle ----------------------------
(***************************************************************************)
(* The life of a batch of runs as the dispatcher records it: submission    *)
(* and upload (debuglet_service.go), state, allocation and exit reports    *)
(* (rpc_handlers.go), cancellation (cancellation.go), the window and       *)
(* settlement sweeps, restart (dispatcher.go), with the executor's         *)
(* terminal reporting (internal/executor/terminal.go) at the other end.    *)
(*                                                                         *)
(* One step is one SQL transaction, one section under Dispatcher.mu, one   *)
(* remote call made, served or given up, or one decision of a handler on   *)
(* what it read before.  A handler whose caller has gone still finishes.   *)
(*                                                                         *)
(* Runs is one batch: the orders of one paid transaction, one per run.     *)
(* The executor's scheduler is ExecutorScheduler; here a run is absent,    *)
(* queued, executing, reporting or gone.                                   *)
(***************************************************************************)
EXTENDS Naturals, FiniteSets

CONSTANTS
  Runs,         \* the runs of the batch
  Submitters,   \* requests that submit it
  MaxSessions,  \* bound on control sessions
  MaxCancels,   \* bound on cancellation requests of clients per run
  MaxMishaps,   \* bound on injected failures: lost calls and sessions, database errors, crashes,
                \* and ends of the window
  Expires       \* whether the reserved windows end within the instance

ASSUME LifecycleAssumption ==
  /\ IsFiniteSet(Runs) /\ Runs # {}
  /\ MaxSessions \in Nat /\ MaxCancels \in Nat /\ MaxMishaps \in Nat
  /\ Expires \in BOOLEAN

VARIABLES
  \* The dispatcher's database.
  row,        \* row[r]: debuglets.state, "absent" before admission
  observed,   \* observed[r]: measurement_execution.exit_code: "none", "zero", "failed"
  binding,    \* binding[r]: the session r was admitted under, 0 before
  requested, attempted, acked,  \* debuglet_cancellations of r
  failure,    \* failure[r]: why its delivery is unresolved
  decided,    \* decided[r]: terminal_recorded_at: the dispatcher ended r itself
  reclaimed,  \* reclaimed[r]: an allocation_reclamations row exists
  order,      \* order[r]: state of the order that pays for r
  txn,        \* state of the transaction: "paid" or "refunded"
  \* The dispatcher's memory.
  floor,      \* floor[r]: Dispatcher.reservations has r
  share,      \* share[r]: Dispatcher.destinations has r
  listed,     \* runs a window sweep has listed and not come to
  serving,    \* the dispatcher process is up
  base,       \* sessions of earlier dispatcher lifetimes are 1 .. base
  \* Its handlers.
  sub,        \* sub[c]: a SubmitDebuglets request
  upload,     \* upload[r]: the upload of the admitting request
  hp,         \* hp[<<a, r>>]: phase of the handler of actor a for run r
  seen,       \* seen[<<a, r>>]: the run's state as that handler read it
  answer,     \* answer[<<a, r>>]: the executor's answer to its Abort
  alloc,      \* alloc[r]: the OnDebugletAllocate handler
  updates,    \* updates[r]: state reports on their way
  \* The executor.
  posted,     \* posted[r]: an Upload is on its way
  ex,         \* ex[r]: what the executor holds of r
  stop,       \* stop[r]: its context is cancelled
  result,     \* result[r]: the outcome selected: "none", "zero", "failed"
  kept,       \* kept[r]: its retained terminal: "none", "yes", "unwritten", "released"
  sending,    \* sending[r]: a delivery of it: "no", "sent", "failed"
  \* Time, the session and failures.
  window,     \* "open", "ended", "over": the reserved window, and its grace
  sess, live, \* sessions so far, and whether the last one is live
  cancels,    \* cancels[r]: client cancellations made
  unseen,     \* runs released by nobody because a commit reported an error
  mishaps

records == <<row, observed, binding, requested, attempted, acked, failure, decided, reclaimed>>
accounts == <<order, txn>>
memory == <<floor, share, listed, serving, base>>
handlers == <<sub, upload, hp, seen, answer, alloc, updates>>
executor == <<posted, ex, stop, result, kept, sending>>
world == <<window, sess, live, cancels>>
vars == <<records, accounts, memory, handlers, executor, world, unseen, mishaps>>

Actors == {"report", "late", "client", "cleanup"}
States == {"absent", "uploading", "uploaded", "unreconciled", "initializing", "started", "exited"}
Phases == {"idle", "read", "request", "attempt", "asking", "joining", "answered", "complete",
           "settle", "release", "mark", "uread", "urequest", "ucomplete", "ok", "err"}

\* Runs with a goroutine of the scheduler: a started run's callback, or, for a
\* run cancelled in the queue, the failure callback.
Executing == {"cancelled", "starting", "preparing", "active"}

\* SemanticRank.
rank == [s \in States |->
  CASE s = "absent" -> 0 [] s = "uploading" -> 1 [] s = "uploaded" -> 2
    [] s = "unreconciled" -> 3 [] s = "initializing" -> 4 [] s = "started" -> 5
    [] s = "exited" -> 6]

TypeOK ==
  /\ row \in [Runs -> States] /\ observed \in [Runs -> {"none", "zero", "failed"}]
  /\ binding \in [Runs -> Nat] /\ requested \in [Runs -> BOOLEAN]
  /\ attempted \in [Runs -> BOOLEAN] /\ acked \in [Runs -> BOOLEAN]
  /\ failure \in [Runs -> {"", "already_terminal", "original_binding_unavailable",
                           "executor_refused", "transport_outcome_unknown"}]
  /\ decided \in [Runs -> BOOLEAN] /\ reclaimed \in [Runs -> BOOLEAN]
  /\ order \in [Runs -> {"outstanding", "credited", "refunded"}]
  /\ txn \in {"paid", "refunded"}
  /\ floor \in [Runs -> BOOLEAN] /\ share \in [Runs -> BOOLEAN] /\ listed \subseteq Runs
  /\ serving \in BOOLEAN /\ base \in Nat
  /\ sub \in [Submitters -> {"idle", "refused", "uploading", "cleanup", "refunding", "done"}]
  /\ upload \in [Runs -> {"idle", "sent", "accepted", "ok", "refused", "unknown", "unsent"}]
  /\ hp \in [Actors \X Runs -> Phases] /\ seen \in [Actors \X Runs -> States]
  /\ answer \in [Actors \X Runs -> {"none", "ack", "notfound", "refused", "lost"}]
  /\ alloc \in [Runs -> {"idle", "asked", "checked", "granted", "denied"}]
  /\ updates \in [Runs -> SUBSET {"initializing", "started"}]
  /\ posted \in [Runs -> BOOLEAN]
  /\ ex \in [Runs -> Executing \cup {"absent", "queued", "reporting", "gone"}]
  /\ stop \in [Runs -> BOOLEAN] /\ result \in [Runs -> {"none", "zero", "failed"}]
  /\ kept \in [Runs -> {"none", "yes", "unwritten", "released"}]
  /\ sending \in [Runs -> {"no", "sent", "failed"}]
  /\ window \in {"open", "ended", "over"} /\ sess \in Nat /\ live \in BOOLEAN
  /\ cancels \in [Runs -> Nat] /\ unseen \subseteq Runs /\ mishaps \in Nat

Init ==
  /\ row = [r \in Runs |-> "absent"] /\ observed = [r \in Runs |-> "none"]
  /\ binding = [r \in Runs |-> 0] /\ requested = [r \in Runs |-> FALSE]
  /\ attempted = [r \in Runs |-> FALSE] /\ acked = [r \in Runs |-> FALSE]
  /\ failure = [r \in Runs |-> ""] /\ decided = [r \in Runs |-> FALSE]
  /\ reclaimed = [r \in Runs |-> FALSE]
  /\ order = [r \in Runs |-> "outstanding"] /\ txn = "paid"
  /\ floor = [r \in Runs |-> FALSE] /\ share = [r \in Runs |-> FALSE]
  /\ listed = {} /\ serving = TRUE /\ base = 0
  /\ sub = [c \in Submitters |-> "idle"] /\ upload = [r \in Runs |-> "idle"]
  /\ hp = [p \in Actors \X Runs |-> "idle"] /\ seen = [p \in Actors \X Runs |-> "absent"]
  /\ answer = [p \in Actors \X Runs |-> "none"]
  /\ alloc = [r \in Runs |-> "idle"] /\ updates = [r \in Runs |-> {}]
  /\ posted = [r \in Runs |-> FALSE] /\ ex = [r \in Runs |-> "absent"]
  /\ stop = [r \in Runs |-> FALSE] /\ result = [r \in Runs |-> "none"]
  /\ kept = [r \in Runs |-> "none"] /\ sending = [r \in Runs |-> "no"]
  /\ window = "open" /\ sess = 0 /\ live = FALSE
  /\ cancels = [r \in Runs |-> 0] /\ unseen = {} /\ mishaps = 0

Mishap == mishaps < MaxMishaps /\ mishaps' = mishaps + 1
Bound(r) == live /\ binding[r] = sess

\* An error a call may meet: a fault, or its session has ended.
Fault == (~ live /\ UNCHANGED mishaps) \/ Mishap

Quiet == UNCHANGED <<unseen, mishaps>>
Admitted(r) == row[r] # "absent"
Goes(a, r, p) == hp' = [hp EXCEPT ![<<a, r>>] = p]
KeepOthers == UNCHANGED <<sub, upload, alloc, updates>>

-----------------------------------------------------------------------------
(* Submission.  *)

\* SubmitDebuglets under Dispatcher.mu: the floors, the rows and the claims of
\* the orders, all or nothing.  A claim needs an outstanding order of a paid
\* transaction.
Admit(c) ==
  /\ sub[c] = "idle" /\ serving /\ live /\ window = "open"
  /\ \A r \in Runs : ~ Admitted(r) /\ order[r] = "outstanding"
  /\ txn = "paid"
  /\ row' = [r \in Runs |-> "uploading"] /\ binding' = [r \in Runs |-> sess]
  /\ floor' = [r \in Runs |-> TRUE] /\ sub' = [sub EXCEPT ![c] = "uploading"]
  /\ UNCHANGED <<observed, requested, attempted, acked, failure, decided, reclaimed>>
  /\ UNCHANGED <<share, listed, serving, base, upload, hp, seen, answer, alloc, updates>>
  /\ UNCHANGED <<accounts, executor, world>> /\ Quiet

\* A refusal of any check before the rows exist; the reservations are undone.
AdmitRefused(c) ==
  /\ sub[c] = "idle" /\ serving /\ \A r \in Runs : ~ Admitted(r)
  /\ sub' = [sub EXCEPT ![c] = "refused"]
  /\ UNCHANGED <<upload, hp, seen, answer, alloc, updates>>
  /\ UNCHANGED <<records, accounts, memory, executor, world>> /\ Quiet

\* An admitted batch is answered with its runs; a claim that fails, or a lookup
\* that fails, is ErrPaymentInUse, which refunds nothing.
AnswerRecorded(c) ==
  /\ sub[c] = "idle" /\ serving
  /\ (\E r \in Runs : Admitted(r)) \/ txn = "refunded"
  /\ sub' = [sub EXCEPT ![c] = "done"]
  /\ UNCHANGED <<upload, hp, seen, answer, alloc, updates>>
  /\ UNCHANGED <<records, accounts, memory, executor, world>> /\ Quiet

RefundOutstanding ==
  /\ txn' = "refunded"
  /\ order' = [r \in Runs |-> IF order[r] = "outstanding" THEN "refunded" ELSE order[r]]

\* Mutant: the write does not look at the claims again.
UnclaimedAsRead == TRUE

\* RefundUnadmittedTransaction's guard: no order has been claimed.
Unclaimed == \A r \in Runs : ~ Admitted(r)

\* The refund after a refusal: decided by one conditional write.
RefundUnadmitted(c) ==
  /\ sub[c] = "refused" /\ serving
  /\ \/ txn = "paid" /\ Unclaimed /\ RefundOutstanding
     \/ UNCHANGED accounts
  /\ sub' = [sub EXCEPT ![c] = "done"]
  /\ UNCHANGED <<upload, hp, seen, answer, alloc, updates>>
  /\ UNCHANGED <<records, memory, executor, world>> /\ Quiet

UploadFailed(r) == upload[r] \in {"refused", "unknown", "unsent"}
Uploading == serving /\ \E c \in Submitters : sub[c] = "uploading"
Uploads(r, u) == upload' = [upload EXCEPT ![r] = u]

UploadSend(r) ==
  /\ Uploading /\ upload[r] = "idle"
  /\ \/ Bound(r) /\ Uploads(r, "sent") /\ posted' = [posted EXCEPT ![r] = TRUE]
     \/ ~ live /\ Uploads(r, "unsent") /\ UNCHANGED posted
  /\ UNCHANGED <<sub, hp, seen, answer, alloc, updates, ex, stop, result, kept, sending>>
  /\ UNCHANGED <<records, accounts, memory, world>> /\ Quiet

\* The guarded state update after a successful Upload.
RecordUploaded(r) ==
  /\ Uploading /\ upload[r] = "accepted" /\ Uploads(r, "ok")
  /\ row' = [row EXCEPT ![r] = IF rank[@] < rank["uploaded"] THEN "uploaded" ELSE @]
  /\ UNCHANGED <<observed, binding, requested, attempted, acked, failure, decided, reclaimed>>
  /\ UNCHANGED <<sub, hp, seen, answer, alloc, updates>>
  /\ UNCHANGED <<accounts, memory, executor, world>> /\ Quiet

\* The call or the update fails; the first failure cancels the siblings.
UploadLost(r) ==
  /\ Uploading
  /\ \/ upload[r] \in {"sent", "accepted"} /\ Fault
     \/ /\ upload[r] \in {"idle", "sent", "accepted"}
        /\ \E s \in Runs \ {r} : UploadFailed(s)
        /\ UNCHANGED mishaps
  /\ Uploads(r, "unknown")
  /\ UNCHANGED <<sub, hp, seen, answer, alloc, updates>>
  /\ UNCHANGED <<records, accounts, memory, executor, world, unseen>>

\* errgroup.Wait returned: the batch is answered, or every run of it is cleaned up.
BatchUploaded(c) ==
  /\ serving /\ sub[c] = "uploading"
  /\ \A r \in Runs : upload[r] = "ok" \/ UploadFailed(r)
  /\ IF \A r \in Runs : upload[r] = "ok"
     THEN sub' = [sub EXCEPT ![c] = "done"] /\ UNCHANGED hp
     ELSE /\ sub' = [sub EXCEPT ![c] = "cleanup"]
          /\ hp' = [p \in Actors \X Runs |-> IF p[1] = "cleanup" THEN "read" ELSE hp[p]]
  /\ UNCHANGED <<upload, seen, answer, alloc, updates>>
  /\ UNCHANGED <<records, accounts, memory, executor, world>> /\ Quiet

\* The transaction-wide refund of a batch whose upload failed, once every
\* cleanup has returned.  It refunds what is outstanding, or fails.
RefundBatch(c) ==
  /\ serving /\ sub[c] = "cleanup" /\ \A r \in Runs : hp[<<"cleanup", r>>] = "idle"
  /\ \/ txn = "paid" /\ RefundOutstanding
     \/ UNCHANGED accounts
  /\ sub' = [sub EXCEPT ![c] = "done"]
  /\ UNCHANGED <<upload, hp, seen, answer, alloc, updates>>
  /\ UNCHANGED <<records, memory, executor, world>> /\ Quiet

-----------------------------------------------------------------------------
(* The executor: acceptance, the run, its allocation and its state reports. *)

\* Insert committed under the session's lease.
ExecAccept(r) ==
  /\ posted[r] /\ Bound(r) /\ ex[r] = "absent"
  /\ posted' = [posted EXCEPT ![r] = FALSE] /\ ex' = [ex EXCEPT ![r] = "queued"]
  /\ upload' = [upload EXCEPT ![r] = IF @ = "sent" THEN "accepted" ELSE @]
  /\ UNCHANGED <<stop, result, kept, sending, sub, hp, seen, answer, alloc, updates>>
  /\ UNCHANGED <<records, accounts, memory, world>> /\ Quiet

\* A refusal with a code uploadRefused knows; each is given before acceptance.
ExecRefuse(r) ==
  /\ posted[r] /\ Bound(r) /\ ex[r] = "absent"
  /\ posted' = [posted EXCEPT ![r] = FALSE]
  /\ upload' = [upload EXCEPT ![r] = IF @ = "sent" THEN "refused" ELSE @]
  /\ UNCHANGED <<ex, stop, result, kept, sending, sub, hp, seen, answer, alloc, updates>>
  /\ UNCHANGED <<records, accounts, memory, world>> /\ Quiet

ExStep(r, e) == ex' = [ex EXCEPT ![r] = e] /\ UNCHANGED <<posted, stop, result, kept, sending>>

\* The callback starts and asks for its allocation.
Begin(r) ==
  /\ ex[r] = "queued" /\ Bound(r) /\ ExStep(r, "starting")
  /\ alloc' = [alloc EXCEPT ![r] = "asked"]
  /\ UNCHANGED <<sub, upload, hp, seen, answer, updates>>
  /\ UNCHANGED <<records, accounts, memory, world>> /\ Quiet

Allocates(r, s) ==
  /\ alloc' = [alloc EXCEPT ![r] = s]
  /\ UNCHANGED <<sub, upload, hp, seen, answer, updates>>

\* OnDebugletAllocate up to the payment check.
AllocRead(r) ==
  /\ serving /\ alloc[r] = "asked"
  /\ Allocates(r, IF row[r] = "exited" \/ txn # "paid" THEN "denied" ELSE "checked")
  /\ UNCHANGED <<records, accounts, memory, executor, world>> /\ Quiet

\* Mutant: a recorded reclamation does not fence the charge.
AllocatableUnfenced(r) == row[r] # "exited" /\ window = "open"

\* What it reads again under Dispatcher.mu before it charges.
Allocatable(r) == row[r] # "exited" /\ window = "open" /\ ~ reclaimed[r]

\* The charge; the answer is an error when the fairshare update did not reach
\* every recipient, and the charge stands.
AllocCommit(r) ==
  /\ serving /\ alloc[r] = "checked"
  /\ \/ /\ Allocatable(r) /\ share' = [share EXCEPT ![r] = TRUE]
        /\ Allocates(r, "granted") \/ Allocates(r, "denied")
     \/ Allocates(r, "denied") /\ UNCHANGED share
  /\ UNCHANGED <<floor, listed, serving, base>>
  /\ UNCHANGED <<records, accounts, executor, world>> /\ Quiet

Reports(r, s) ==
  /\ updates' = [updates EXCEPT ![r] = @ \cup {s}]
  /\ UNCHANGED <<sub, upload, hp, seen, answer, alloc>>

\* debugletHandler after the allocation and after the initialization: each state
\* report is awaited before the next step.
Initialize(r) ==
  /\ ex[r] = "starting" /\ alloc[r] = "granted" /\ Bound(r) /\ ~ stop[r]
  /\ ExStep(r, "preparing") /\ Reports(r, "initializing")
  /\ UNCHANGED <<records, accounts, memory, world>> /\ Quiet

Run(r) ==
  /\ ex[r] = "preparing" /\ updates[r] = {} /\ Bound(r) /\ ~ stop[r]
  /\ ExStep(r, "active") /\ Reports(r, "started")
  /\ UNCHANGED <<records, accounts, memory, world>> /\ Quiet

\* OnDebugletState: a report that does not raise the rank is acknowledged.
OnDebugletState(r, s) ==
  /\ serving /\ s \in updates[r]
  /\ updates' = [updates EXCEPT ![r] = @ \ {s}]
  /\ row' = [row EXCEPT ![r] = IF rank[@] < rank[s] THEN s ELSE @]
  /\ UNCHANGED <<observed, binding, requested, attempted, acked, failure, decided, reclaimed>>
  /\ UNCHANGED <<sub, upload, hp, seen, answer, alloc>>
  /\ UNCHANGED <<accounts, memory, executor, world>> /\ Quiet

-----------------------------------------------------------------------------
(* terminal.go: one outcome is selected, retained and delivered. *)

\* The callback ends.  It fails at any point (denied, cancelled, out of time, a
\* failing guest), OnDebugletFailed always; it succeeds once the guest has run.
End(r, c) ==
  /\ ex[r] \in Executing
  /\ c = "zero" => ex[r] = "active" /\ updates[r] = {} /\ ~ stop[r]
  /\ result' = [result EXCEPT ![r] = c] /\ ex' = [ex EXCEPT ![r] = "reporting"]
  /\ \/ kept' = [kept EXCEPT ![r] = "yes"] /\ UNCHANGED mishaps
     \/ kept' = [kept EXCEPT ![r] = "unwritten"] /\ Mishap
  /\ UNCHANGED <<posted, stop, sending, unseen>>
  /\ UNCHANGED <<records, accounts, memory, handlers, world>>

\* Mutant: the report is made under the run's own, cancelled context.
DeliverableUncancelled(r) ==
  ((ex[r] = "reporting" /\ kept[r] = "unwritten") \/ kept[r] = "yes") /\ ~ stop[r]

\* A result the callback holds, or one a pass lists.
Deliverable(r) == (ex[r] = "reporting" /\ kept[r] = "unwritten") \/ kept[r] = "yes"

\* An attempt, of the callback or of a reconciliation pass under the run's own
\* binding; beginDelivery admits one at a time.
Deliver(r) ==
  /\ Deliverable(r) /\ sending[r] = "no" /\ Bound(r) /\ serving /\ hp[<<"report", r>>] = "idle"
  /\ sending' = [sending EXCEPT ![r] = "sent"] /\ Goes("report", r, "complete")
  /\ UNCHANGED <<posted, ex, stop, result, kept, seen, answer>> /\ KeepOthers
  /\ UNCHANGED <<records, accounts, memory, world>> /\ Quiet

\* What is left of a report's handler when nobody waits for its answer.
Unheard(r) == IF hp[<<"report", r>>] \in {"ok", "err"} THEN "idle" ELSE hp[<<"report", r>>]

\* The call is given up; the handler it started goes on unheard.
DeliverLost(r) ==
  /\ sending[r] = "sent" /\ hp[<<"late", r>>] = "idle" /\ Fault
  /\ sending' = [sending EXCEPT ![r] = "failed"]
  /\ hp' = [hp EXCEPT ![<<"report", r>>] = "idle",
                      ![<<"late", r>>] = Unheard(r)]
  /\ UNCHANGED <<posted, ex, stop, result, kept, seen, answer>> /\ KeepOthers
  /\ UNCHANGED <<records, accounts, memory, world, unseen>>

\* Whether an answer lets the executor release its copy.
Acknowledged(r) == hp[<<"report", r>>] = "ok"

\* The answer: an acknowledged result ends its retention (unless that write
\* fails), a failure leaves it to the next attempt.
DeliverAnswer(r) ==
  /\ sending[r] = "sent" /\ hp[<<"report", r>>] \in {"ok", "err"} /\ Goes("report", r, "idle")
  /\ IF Acknowledged(r)
     THEN /\ sending' = [sending EXCEPT ![r] = "no"]
          /\ \/ kept' = [kept EXCEPT ![r] = IF @ = "yes" THEN "released" ELSE @] /\ UNCHANGED mishaps
             \/ UNCHANGED kept /\ Mishap
          /\ ex' = [ex EXCEPT ![r] = "gone"]
     ELSE sending' = [sending EXCEPT ![r] = "failed"] /\ UNCHANGED <<kept, ex, mishaps>>
  /\ UNCHANGED <<posted, stop, result, seen, answer, unseen>> /\ KeepOthers
  /\ UNCHANGED <<records, accounts, memory, world>>

Retry(r) ==
  /\ sending[r] = "failed" /\ sending' = [sending EXCEPT ![r] = "no"]
  /\ UNCHANGED <<posted, ex, stop, result, kept>>
  /\ UNCHANGED <<records, accounts, memory, handlers, world>> /\ Quiet

\* The callback returns without an acknowledgement: its attempts are used up,
\* the session has ended, or a pass owns the delivery.
GiveUp(r) ==
  /\ ex[r] = "reporting"
  /\ sending[r] = "failed" \/ (sending[r] = "no" /\ ~ live) \/ (sending[r] = "sent" /\ kept[r] = "yes")
  /\ ex' = [ex EXCEPT ![r] = "gone"]
  /\ sending' = [sending EXCEPT ![r] = IF @ = "sent" THEN @ ELSE "no"]
  /\ UNCHANGED <<posted, stop, result, kept>>
  /\ UNCHANGED <<records, accounts, memory, handlers, world>> /\ Quiet

-----------------------------------------------------------------------------
(* OnDebugletExit, for a report and for the end of a cancellation. *)

\* The exit code its request carries.
code(a, r) == IF a \in {"report", "late"} THEN result[r] ELSE "failed"

\* CompleteDebuglet with RecordMeasurementTerminal, in one transaction.
RecordExit(a, r) ==
  /\ row' = [row EXCEPT ![r] = "exited"] /\ observed' = [observed EXCEPT ![r] = code(a, r)]
  /\ UNCHANGED <<binding, requested, attempted, acked, failure, decided, reclaimed>>

\* Where a handler goes when recording fails: a cleanup marks its run unless it
\* had proof that the executor never took it.
AfterFailure(a, r) ==
  CASE a = "report" -> "err" [] a = "cleanup" /\ acked[r] -> "mark" [] OTHER -> "idle"

\* The first writer decides; a later one only releases.  A commit may be
\* reported to its caller as an error.
Complete(a, r) ==
  /\ serving /\ hp[<<a, r>>] = "complete"
  /\ \/ row[r] # "exited" /\ RecordExit(a, r) /\ Goes(a, r, "settle") /\ Quiet
     \/ row[r] = "exited" /\ Goes(a, r, "release") /\ UNCHANGED records /\ Quiet
     \/ Mishap /\ Goes(a, r, AfterFailure(a, r)) /\ UNCHANGED <<records, unseen>>
     \/ /\ Mishap /\ row[r] # "exited" /\ RecordExit(a, r) /\ Goes(a, r, AfterFailure(a, r))
        /\ unseen' = unseen \cup {r}
  /\ UNCHANGED <<seen, answer>> /\ KeepOthers
  /\ UNCHANGED <<accounts, memory, executor, world>>

\* Mutant: the order's state is not a condition of the write.
SettleOrderAlways(r, c) ==
  order' = [order EXCEPT ![r] = IF c = "zero" THEN "credited" ELSE "refunded"]

\* settleOrder: only an outstanding order is settled.
SettleOrder(r, c) ==
  order' = [order EXCEPT ![r] = IF @ # "outstanding" THEN @
                                ELSE IF c = "zero" THEN "credited" ELSE "refunded"]

\* A failed settlement is logged, and the handler goes on.
Settle(a, r) ==
  /\ serving /\ hp[<<a, r>>] = "settle" /\ Goes(a, r, "release")
  /\ \/ SettleOrder(r, code(a, r)) /\ UNCHANGED mishaps
     \/ UNCHANGED order /\ Mishap
  /\ UNCHANGED <<txn, seen, answer, unseen>> /\ KeepOthers
  /\ UNCHANGED <<records, memory, executor, world>>

\* releaseTerminalResources, under Dispatcher.mu.
Releases(r) ==
  /\ floor' = [floor EXCEPT ![r] = FALSE] /\ share' = [share EXCEPT ![r] = FALSE]
  /\ unseen' = unseen \ {r}

Release(a, r) ==
  /\ serving /\ hp[<<a, r>>] = "release" /\ Releases(r)
  /\ Goes(a, r, IF a = "report" THEN "ok" ELSE "idle")
  /\ UNCHANGED <<seen, answer>> /\ KeepOthers /\ UNCHANGED <<listed, serving, base, mishaps>>
  /\ UNCHANGED <<records, accounts, executor, world>>

-----------------------------------------------------------------------------
(* Cancellation: abortCaptured for a client and for a failed batch, and        *)
(* cancelUnbound for a run whose session has ended.                            *)

Cancels(r, q, t, k, f) ==
  /\ requested' = [requested EXCEPT ![r] = q] /\ attempted' = [attempted EXCEPT ![r] = t]
  /\ acked' = [acked EXCEPT ![r] = k] /\ failure' = [failure EXCEPT ![r] = f]
  /\ UNCHANGED <<row, observed, binding, decided, reclaimed>>

\* FailCancellation: an acknowledged cancellation keeps no failure.
Fails(r, f) == Cancels(r, requested[r], attempted[r], acked[r], IF acked[r] THEN failure[r] ELSE f)

\* A handler that returns an error: a cleanup goes on to mark its run.
Returns(a) == IF a = "cleanup" THEN "mark" ELSE "idle"

AbortDebuglet(r) ==
  /\ serving /\ Admitted(r) /\ hp[<<"client", r>>] = "idle" /\ cancels[r] < MaxCancels
  /\ cancels' = [cancels EXCEPT ![r] = @ + 1]
  /\ Goes("client", r, IF Bound(r) THEN "read" ELSE "uread")
  /\ UNCHANGED <<seen, answer, window, sess, live>> /\ KeepOthers
  /\ UNCHANGED <<records, accounts, memory, executor>> /\ Quiet

AbortRead(a, r) ==
  /\ serving /\ hp[<<a, r>>] \in {"read", "uread"}
  /\ seen' = [seen EXCEPT ![<<a, r>>] = row[r]]
  /\ Goes(a, r, IF hp[<<a, r>>] = "read" THEN "request" ELSE "urequest")
  /\ UNCHANGED answer /\ KeepOthers
  /\ UNCHANGED <<records, accounts, memory, executor, world>> /\ Quiet

\* requestCancellation, and the decision on the state read before it.
AbortRequest(a, r) ==
  /\ serving /\ hp[<<a, r>>] = "request"
  /\ LET ended == seen[<<a, r>>] = "exited"
         needless == ended /\ ~ acked[r] /\ ~ attempted[r] /\ failure[r] = ""
     IN  /\ Cancels(r, TRUE, attempted[r], acked[r], IF needless THEN "already_terminal" ELSE failure[r])
         /\ Goes(a, r, IF ended THEN "release" ELSE IF acked[r] THEN "complete" ELSE "attempt")
  /\ seen' = [seen EXCEPT ![<<a, r>>] = "absent"] /\ UNCHANGED answer /\ KeepOthers
  /\ UNCHANGED <<accounts, memory, executor, world>> /\ Quiet

\* The client of the captured session: a cleanup has the one its upload used.
HasClient(a, r) == IF a = "cleanup" THEN upload[r] # "unsent" ELSE Bound(r)

AbortAttempt(a, r) ==
  /\ serving /\ hp[<<a, r>>] = "attempt"
  /\ IF HasClient(a, r)
     THEN /\ Cancels(r, TRUE, attempted[r] \/ ~ acked[r], acked[r], IF acked[r] THEN failure[r] ELSE "")
          /\ Goes(a, r, "asking")
     ELSE Fails(r, "original_binding_unavailable") /\ Goes(a, r, Returns(a))
  /\ UNCHANGED <<seen, answer>> /\ KeepOthers
  /\ UNCHANGED <<accounts, memory, executor, world>> /\ Quiet

\* A read or write of the handler fails.
AbortFails(a, r) ==
  /\ serving /\ Mishap
  /\ hp[<<a, r>>] \in {"read", "request", "attempt", "answered", "uread", "urequest"}
  /\ Goes(a, r, Returns(a))
  /\ seen' = [seen EXCEPT ![<<a, r>>] = "absent"] /\ answer' = [answer EXCEPT ![<<a, r>>] = "none"]
  /\ KeepOthers /\ UNCHANGED <<records, accounts, memory, executor, world, unseen>>

Answers(a, r, v) ==
  /\ answer' = [answer EXCEPT ![<<a, r>>] = v] /\ Goes(a, r, "answered")
  /\ UNCHANGED seen /\ KeepOthers

\* CancelBound's effect on the run: a queued run goes to the failure callback,
\* which reports it like any other end; a started one is signalled.
Signals(r) ==
  /\ stop' = [stop EXCEPT ![r] = TRUE]
  /\ ex' = [ex EXCEPT ![r] = IF @ = "queued" THEN "cancelled" ELSE @]
  /\ UNCHANGED <<posted, result, kept, sending>>

\* OnAbort: the answer waits for the callback.
OnAbort(a, r) ==
  /\ hp[<<a, r>>] = "asking" /\ Bound(r)
  /\ \/ /\ ex[r] \in {"absent", "gone"} /\ Answers(a, r, "notfound")
        /\ UNCHANGED executor /\ Quiet
     \/ /\ ex[r] \in Executing \cup {"queued", "reporting"} /\ Signals(r) /\ Goes(a, r, "joining")
        /\ UNCHANGED <<seen, answer>> /\ KeepOthers /\ Quiet
  /\ UNCHANGED <<records, accounts, memory, world>>

\* Mutant: the signal is acknowledged, not the end.
AbortJoinedEarly(a, r) ==
  /\ hp[<<a, r>>] = "joining" /\ live
  /\ \/ Answers(a, r, "ack") /\ UNCHANGED mishaps
     \/ Answers(a, r, "refused") /\ Mishap
  /\ UNCHANGED <<records, accounts, memory, executor, world, unseen>>

AbortJoined(a, r) ==
  /\ hp[<<a, r>>] = "joining" /\ ex[r] = "gone" /\ live
  /\ \/ Answers(a, r, "ack") /\ UNCHANGED mishaps
     \/ Answers(a, r, "refused") /\ Mishap
  /\ UNCHANGED <<records, accounts, memory, executor, world, unseen>>

AbortLost(a, r) ==
  /\ serving /\ hp[<<a, r>>] \in {"asking", "joining"} /\ Fault /\ Answers(a, r, "lost")
  /\ UNCHANGED <<records, accounts, memory, executor, world, unseen>>

\* A request whose caller gave up still reaches its run.
LateAbort(r) ==
  /\ Bound(r) /\ attempted[r] /\ failure[r] = "transport_outcome_unknown"
  /\ ex[r] = "queued" \/ (ex[r] \in Executing /\ ~ stop[r])
  /\ Signals(r)
  /\ UNCHANGED <<records, accounts, memory, handlers, world>> /\ Quiet

\* Mutant: a call that failed counts as a refusal.
uploadRefusedOrLost(r) == upload[r] \in {"refused", "unknown"}

\* uploadRefused: an answer given before the executor took the run.
uploadRefused(r) == upload[r] = "refused"

\* What the call learned is recorded.  NotFound after a refused upload proves to
\* a cleanup that the run does not exist.
AbortRecord(a, r) ==
  /\ serving /\ hp[<<a, r>>] = "answered"
  /\ CASE answer[<<a, r>>] = "ack" ->
            Cancels(r, TRUE, attempted[r], TRUE, "") /\ Goes(a, r, "complete")
       [] answer[<<a, r>>] = "lost" ->
            Fails(r, "transport_outcome_unknown") /\ Goes(a, r, Returns(a))
       [] OTHER ->
            /\ Fails(r, "executor_refused")
            /\ Goes(a, r, IF a = "cleanup" /\ answer[<<a, r>>] = "notfound" /\ uploadRefused(r)
                          THEN "complete" ELSE Returns(a))
  /\ UNCHANGED seen /\ answer' = [answer EXCEPT ![<<a, r>>] = "none"]
  /\ KeepOthers /\ UNCHANGED <<accounts, memory, executor, world>> /\ Quiet

\* The rank guard leaves a run that went on alone; a failed write is logged.
markUnreconciled(r) ==
  /\ serving /\ hp[<<"cleanup", r>>] = "mark" /\ Goes("cleanup", r, "idle")
  /\ \/ /\ row' = [row EXCEPT ![r] = IF rank[@] < rank["unreconciled"] THEN "unreconciled" ELSE @]
        /\ UNCHANGED mishaps
     \/ UNCHANGED row /\ Mishap
  /\ UNCHANGED <<observed, binding, requested, attempted, acked, failure, decided, reclaimed>>
  /\ UNCHANGED <<seen, answer, unseen>> /\ KeepOthers
  /\ UNCHANGED <<accounts, memory, executor, world>>

\* cancelUnbound: the request is kept, an earlier failure is not overwritten.
UnboundRequest(r) ==
  /\ serving /\ hp[<<"client", r>>] = "urequest"
  /\ LET ended == seen[<<"client", r>>] = "exited"
         fresh == ~ acked[r] /\ failure[r] = "" /\ (ended => ~ attempted[r])
     IN  /\ Cancels(r, TRUE, attempted[r], acked[r],
                    IF ~ fresh THEN failure[r]
                    ELSE IF ended THEN "already_terminal" ELSE "original_binding_unavailable")
         /\ Goes("client", r, IF ended THEN "release" ELSE "ucomplete")
  /\ seen' = [seen EXCEPT ![<<"client", r>>] = "absent"] /\ UNCHANGED answer /\ KeepOthers
  /\ UNCHANGED <<accounts, memory, executor, world>> /\ Quiet

\* recordCancellationTerminal: the dispatcher's own decision, no observed exit.
DecideExit(r) ==
  /\ row' = [row EXCEPT ![r] = "exited"] /\ decided' = [decided EXCEPT ![r] = TRUE]
  /\ UNCHANGED <<observed, binding, requested, attempted, acked, failure, reclaimed>>

UnboundComplete(r) ==
  /\ serving /\ hp[<<"client", r>>] = "ucomplete"
  /\ \/ row[r] # "exited" /\ DecideExit(r) /\ Goes("client", r, "settle") /\ Quiet
     \/ row[r] = "exited" /\ Goes("client", r, "release") /\ UNCHANGED records /\ Quiet
     \/ Mishap /\ Goes("client", r, "idle") /\ UNCHANGED <<records, unseen>>
     \/ /\ Mishap /\ row[r] # "exited" /\ DecideExit(r) /\ Goes("client", r, "idle")
        /\ unseen' = unseen \cup {r}
  /\ UNCHANGED <<seen, answer>> /\ KeepOthers
  /\ UNCHANGED <<accounts, memory, executor, world>>

-----------------------------------------------------------------------------
(* The sweeps of runExpiry, the clock, the session and the two processes.      *)

\* The end of the window is charged to the bound on mishaps, once.
Tick ==
  /\ Expires
  /\ \/ window = "open" /\ window' = "ended" /\ Mishap
     \/ window = "ended" /\ window' = "over" /\ UNCHANGED mishaps
  /\ UNCHANGED <<sess, live, cancels, unseen>>
  /\ UNCHANGED <<records, accounts, memory, handlers, executor>>

\* The wall clock is set back.
ClockRollback ==
  /\ window # "open" /\ window' = "open" /\ UNCHANGED <<sess, live, cancels>>
  /\ UNCHANGED <<records, accounts, memory, handlers, executor>> /\ Quiet

ListUnreclaimed == {r \in Runs : Admitted(r) /\ row[r] # "exited" /\ ~ reclaimed[r]}

SweepList ==
  /\ serving /\ window = "over" /\ listed' = ListUnreclaimed
  /\ UNCHANGED <<floor, share, serving, base>>
  /\ UNCHANGED <<records, accounts, handlers, executor, world>> /\ Quiet

\* ReclaimAllocation and the release, in one section of Dispatcher.mu.
Reclaim(r) ==
  /\ serving /\ r \in listed /\ listed' = listed \ {r}
  /\ LET Insert == reclaimed' = [reclaimed EXCEPT ![r] = @ \/ row[r] # "exited"]
     IN \/ Insert /\ Releases(r) /\ UNCHANGED mishaps
        \/ Mishap /\ UNCHANGED <<reclaimed, floor, share, unseen>>
        \/ Mishap /\ Insert /\ UNCHANGED <<floor, share>> /\ unseen' = unseen \cup {r}
  /\ UNCHANGED <<row, observed, binding, requested, attempted, acked, failure, decided>>
  /\ UNCHANGED <<serving, base>> /\ UNCHANGED <<accounts, handlers, executor, world>>

\* A reservation past its grace whose reclamation is recorded is released.
SweepHeld(r) ==
  /\ serving /\ window = "over" /\ floor[r] /\ reclaimed[r] /\ Releases(r)
  /\ UNCHANGED <<listed, serving, base, mishaps>>
  /\ UNCHANGED <<records, accounts, handlers, executor, world>>

\* Mutant: only what was decided here is listed, not what an executor reported.
PendingDecided(r) == order[r] = "outstanding" /\ row[r] = "exited" /\ decided[r]

\* ListPendingSettlements: an exit that was observed, or one decided here.
PendingSettlement(r) ==
  order[r] = "outstanding" /\ row[r] = "exited" /\ (observed[r] # "none" \/ decided[r])

SettlePending(r) ==
  /\ serving /\ PendingSettlement(r) /\ SettleOrder(r, observed[r])
  /\ UNCHANGED <<txn, records, memory, handlers, executor, world>> /\ Quiet

\* Every mutation of the earlier session has finished, and its executor's work.
Drained ==
  /\ \A r \in Runs :
       /\ \A a \in {"report", "late", "cleanup"} : hp[<<a, r>>] = "idle"
       /\ hp[<<"client", r>>] \in {"idle", "uread", "urequest", "ucomplete"}
       /\ alloc[r] \notin {"asked", "checked"} /\ updates[r] = {}
       /\ ex[r] \notin Executing \cup {"reporting"}
  /\ \A c \in Submitters : sub[c] # "uploading"

NewSession ==
  /\ serving /\ ~ live /\ sess < MaxSessions /\ Drained
  /\ sess' = sess + 1 /\ live' = TRUE /\ UNCHANGED <<window, cancels>>
  /\ UNCHANGED <<records, accounts, memory, handlers, executor>> /\ Quiet

\* Each end notices in its own time; the executor's runs are stopped then.
SessionLost ==
  /\ live /\ Mishap /\ live' = FALSE /\ UNCHANGED <<window, sess, cancels>>
  /\ UNCHANGED <<records, accounts, memory, handlers, executor, unseen>>

\* Its stored row has no start marker: no callback has asked for an allocation.
NeverBegun(r) == alloc[r] = "idle"

\* What was started is not started again, a run being cancelled in the queue is
\* still stored there; a retained result survives.
ExecutorCrash ==
  /\ Mishap /\ live' = FALSE
  /\ \A r \in Runs : hp[<<"late", r>>] = "idle"
  /\ ex' = [r \in Runs |->
       CASE ex[r] \notin Executing \cup {"reporting"} -> ex[r]
         [] ex[r] \in Executing \cup {"reporting"} -> IF NeverBegun(r) THEN "queued" ELSE "gone"]
  /\ sending' = [r \in Runs |-> "no"]
  /\ hp' = [p \in Actors \X Runs |->
       CASE p[1] = "report" -> "idle"
         [] p[1] = "late" -> Unheard(p[2])
         [] OTHER -> hp[p]]
  /\ UNCHANGED <<posted, stop, result, kept, seen, answer, window, sess, cancels>> /\ KeepOthers
  /\ UNCHANGED <<records, accounts, memory, unseen>>

DispatcherCrash ==
  /\ serving /\ Mishap /\ serving' = FALSE /\ live' = FALSE
  /\ floor' = [r \in Runs |-> FALSE] /\ share' = [r \in Runs |-> FALSE]
  /\ listed' = {} /\ unseen' = {} /\ UNCHANGED base
  /\ sub' = [c \in Submitters |-> IF sub[c] = "idle" THEN "idle" ELSE "done"]
  /\ hp' = [p \in Actors \X Runs |-> "idle"] /\ seen' = [p \in Actors \X Runs |-> "absent"]
  /\ answer' = [p \in Actors \X Runs |-> "none"] /\ updates' = [r \in Runs |-> {}]
  /\ alloc' = [r \in Runs |-> IF alloc[r] = "idle" THEN "idle" ELSE "denied"]
  /\ sending' = [r \in Runs |-> IF sending[r] = "sent" THEN "failed" ELSE sending[r]]
  /\ UNCHANGED <<upload, posted, ex, stop, result, kept, window, sess, cancels>>
  /\ UNCHANGED <<records, accounts>>

\* RestoreScheduler: floors of runs that are neither terminal nor reclaimed nor
\* past their window.
Restored(r) == Admitted(r) /\ row[r] # "exited" /\ ~ reclaimed[r] /\ window = "open"

DispatcherStart ==
  /\ ~ serving /\ serving' = TRUE /\ base' = sess
  /\ floor' = [r \in Runs |-> Restored(r)] /\ UNCHANGED <<share, listed>>
  /\ UNCHANGED <<records, accounts, handlers, executor, world>> /\ Quiet

-----------------------------------------------------------------------------
Cancelling == {"client", "cleanup"}

SubmitStep(c) ==
  Admit(c) \/ AdmitRefused(c) \/ AnswerRecorded(c) \/ RefundUnadmitted(c) \/ BatchUploaded(c) \/ RefundBatch(c)

UploadStep(r) == UploadSend(r) \/ ExecAccept(r) \/ ExecRefuse(r) \/ RecordUploaded(r)

\* One handler of the dispatcher, through whatever it has left to do.
HandlerStep(a, r) ==
  \/ Complete(a, r) \/ Settle(a, r) \/ Release(a, r)
  \/ /\ a \in Cancelling
     /\ \/ AbortRead(a, r) \/ AbortRequest(a, r) \/ AbortAttempt(a, r) \/ OnAbort(a, r)
        \/ AbortJoined(a, r) \/ AbortLost(a, r) \/ AbortRecord(a, r)
  \/ a = "cleanup" /\ markUnreconciled(r)
  \/ a = "client" /\ (UnboundRequest(r) \/ UnboundComplete(r))

\* A run on its executor, with the handlers it waits for.
RunStep(r) ==
  \/ Begin(r) \/ AllocRead(r) \/ AllocCommit(r) \/ Initialize(r) \/ Run(r)
  \/ \E s \in {"initializing", "started"} : OnDebugletState(r, s)
  \/ \E c \in {"zero", "failed"} : End(r, c)

DeliveryStep(r) == Deliver(r) \/ DeliverAnswer(r) \/ Retry(r) \/ GiveUp(r)

Failures ==
  \/ ClockRollback \/ SessionLost \/ ExecutorCrash \/ DispatcherCrash
  \/ \E r \in Runs : UploadLost(r) \/ DeliverLost(r) \/ LateAbort(r)
  \/ \E a \in Cancelling, r \in Runs : AbortFails(a, r)

Next ==
  \/ \E c \in Submitters : SubmitStep(c)
  \/ \E r \in Runs : UploadStep(r) \/ RunStep(r) \/ DeliveryStep(r) \/ AbortDebuglet(r)
  \/ \E a \in Actors, r \in Runs : HandlerStep(a, r)
  \/ \E r \in Runs : Reclaim(r) \/ SweepHeld(r) \/ SettlePending(r)
  \/ SweepList \/ Tick \/ NewSession \/ DispatcherStart \/ Failures

\* The sweeps are periodic and a supervisor restarts the dispatcher.
SweepFairness == WF_vars(DispatcherStart) /\ \A r \in Runs : WF_vars(SettlePending(r))

\* Handlers and goroutines run, and guests end within their timeout.
HandlerFairness ==
  /\ \A r \in Runs : WF_vars(RunStep(r)) /\ WF_vars(DeliveryStep(r))
  /\ \A a \in Actors, r \in Runs : WF_vars(HandlerStep(a, r))

Spec == Init /\ [][Next]_vars
FairSpec == Spec /\ SweepFairness /\ HandlerFairness

-----------------------------------------------------------------------------
(* Properties. *)

\* An acknowledged cancellation: the executor has nothing of the run left to
\* execute or to start (OnAbort answers after the callback has been joined).
AcknowledgedMeansStopped == \A r \in Runs : acked[r] => ex[r] = "gone"

\* An observed exit is evidence.  Zero was the executor's result; a failure was
\* its result, or it acknowledged a cancellation, or it never took the run and
\* no upload that it could still take is on its way.
ObservedIsEvidence ==
  \A r \in Runs :
    /\ observed[r] = "zero" => result[r] = "zero"
    /\ observed[r] = "failed" =>
         result[r] = "failed" \/ acked[r] \/ (ex[r] = "absent" /\ ~ posted[r])

Closing(r) == \E a \in Actors : hp[<<a, r>>] \in {"settle", "release"}

\* A terminal or reclaimed run holds no floor and no destination share once the
\* handler that ended it has returned, unless a commit that reported an error
\* is still to be found by a duplicate or a sweep.
TerminalHoldsNothing ==
  \A r \in Runs :
    (row[r] = "exited" \/ reclaimed[r]) /\ ~ Closing(r) /\ r \notin unseen => ~ floor[r] /\ ~ share[r]

\* Admission counts the floor of every run of this lifetime that is neither
\* terminal nor reclaimed: capacity a run may still use is never given away.
LiveRunsAreCounted ==
  \A r \in Runs :
    serving /\ Admitted(r) /\ row[r] # "exited" /\ ~ reclaimed[r] /\ binding[r] > base => floor[r]

\* The executor drops its retained result only once the dispatcher has an end.
ReleasedIsRecorded == \A r \in Runs : kept[r] = "released" => row[r] = "exited"

\* A transaction is refunded under admitted runs only when their upload failed.
RefundedBatchFailed ==
  txn = "refunded" /\ (\E r \in Runs : Admitted(r)) => \E r \in Runs : UploadFailed(r)

\* What a client and the accounts see of the batch.
verdictOf(r) ==
  CASE row[r] = "absent" -> "none" [] row[r] \notin {"absent", "exited"} -> "open"
    [] row[r] = "exited" /\ decided[r] -> "cancelled"
    [] row[r] = "exited" /\ ~ decided[r] ->
         (IF observed[r] = "zero" THEN "success" ELSE "failure")

Contract == INSTANCE RunContract WITH verdict <- [r \in Runs |-> verdictOf(r)], money <- order

\* Each run ends once, and its payment follows that end: RunContract.
ImplementsContract == Contract!ContractSpec

\* The order of an ended run is settled, whatever failed on the way.
TerminalIsSettled == \A r \in Runs : row[r] = "exited" ~> order[r] # "outstanding"

\* A retained result is acknowledged while its session lasts.
RetainedIsDelivered ==
  \A r \in Runs : kept[r] = "yes" /\ Bound(r) ~> kept[r] = "released" \/ ~ live

\* A cancellation request returns: it waits for an executor that waits for this
\* dispatcher, and neither waits for the other for ever.
CancellationReturns == \A r \in Runs : hp[<<"client", r>>] # "idle" ~> hp[<<"client", r>>] = "idle"

\* Capacity follows the run: held while it may execute, given back once it ended,
\* and the executor's own record of the end outlives the dispatcher's ignorance
\* of it (OnDebugletAllocate, releaseTerminalResources, settleDebugletExit).
ResourcesAreExact ==
  TypeOK /\ ReleasedIsRecorded /\ TerminalHoldsNothing /\ LiveRunsAreCounted

\* An end is delivered, and paid for (reconcileTerminals, SettlePendingOrders).
EndsArrive == TerminalIsSettled /\ RetainedIsDelivered

=============================================================================
