# Debuglet verification

TLA+ models, TLC runs and TLAPS proofs of the concurrency, persistence and
recovery logic of Debuglet: the Go daemons under `internal/dispatcher` and
`internal/executor`. Paths are relative to the repository root.

1. [The system](#1-the-system)
2. [Components](#2-components)
3. [Modules and how they correspond to the code](#3-modules)
4. [Runs](#4-runs)
5. [Proofs](#5-proofs)
6. [A disagreement between documentation and code](#6-a-disagreement)
7. [What is left out](#7-what-is-left-out)
8. [Plan](#8-plan)

## 1. The system

A *dispatcher* sells measurement capacity. A client pays a transaction whose
orders are runs of WebAssembly programs (debuglets); the dispatcher reserves
bandwidth floors, records the runs, uploads them to an *executor*, later grants
each one its allocation, collects its output and its terminal report, and pays
the executor or refunds the client. The executor stores an accepted run in
SQLite, starts it when it is due, tags its packets with keys it discloses later,
streams its output and reports its end.

The two daemons keep one bidirectional control session at a time. Every run is
bound to the session that carried its upload: only that session may allocate,
abort or report it. A session is guarded by a lease; when it ends, its runs are
cancelled, its queued runs are never started, and what was already stored at
either end (rows, terminal results, output) must be reconciled. Either process
may die at any point and keeps only its database.

What makes this hard, and what the models are about:

- handlers, sweeps, callbacks and the RPC server of each daemon interleave; a
  decision is often taken under a lock and acted on after it;
- calls are lost after they took effect, answered late, or repeated;
- a SQL commit may be reported as an error;
- a crash may fall between any two of these steps;
- money follows the outcome of a run, so each run must end once, on evidence;
- two ends hold a view of the same thing (a lease, a share, a key) and act on it
  before they have agreed.

## 2. Components

| component | state it keeps | operations | interacts with |
|---|---|---|---|
| executor scheduler (`scheduler/memory`, `scheduler/sqlite`) | owners with a phase, cause and finalization attempt; timed queue; busy count; rows with binding and start marker | Insert, Restore, Cancel/CancelBound, the dispatch loop, callbacks, finalizers, TryDrain/BeginDrain, Shutdown | session, OnUpload/OnAbort, the run's callback |
| executor session and lease (`session.go`, `node.go`, `transport/rpc`) | the active session, its lease deadline, the restored core | NewSession, Run, Stop, cleanup, CommitUpload | scheduler, dispatcher transport |
| terminal reporting (`terminal.go`, `handle_debuglet.go`) | retained terminal results, the set being delivered | select, retain, deliver, retry, reconcile, release | OnDebugletExit |
| output spool (`outputstore`, `durable_output.go`) | frames, acknowledged sequence, end, charges | AdmitTx, Append, Finish, Acknowledge, AcceptTruncation, Abandon; the pump, the retry loop | DebugletStream |
| dispatcher output store (`output_store.go`) | committed frames, end, per-run and total charges | create, append, finish, refuse, interrupt | spool, readers |
| submission (`debuglet_service.go`) | rows, floors, orders | SubmitDebuglets, uploads, failed-batch cleanup | executor OnUpload, payments |
| run handlers (`rpc_handlers.go`) | run states, destination shares, observed exits | OnDebugletState, OnDebugletAllocate, OnDebugletExit | executor runs |
| cancellation (`cancellation.go`, `debuglet_service.go`) | cancellation rows | AbortDebuglet, abortCaptured, cancelUnbound | executor OnAbort |
| sweeps (`window_expiry.go`, `settlement_sweep.go`) | reclamations; pending settlements | sweepEndedWindows, sweepPendingSettlements | allocation, payments |
| payments (`payments/`) | receipts and a cursor, transactions, orders, balances, chain transfers | the listener, settleOrder, refundTransaction, payouts, reconciliation | the Sui chain |
| control transport and registry (`transport/rpc`, `executor_registry.go`) | session owners, mutation tickets, leases | offer, confirm, renew, end | every handler |
| fairshare (`rpc_handlers.go`, `destination_policy.go`) | bandwidth revisions, pending flags, policies | capture, deliver, reconcile, deny, expire | executors |
| resource schedule (`resource/`, `internal/avl`) | reserved intervals, destination shares | reserve, release, query, allocate, limit | submission, allocation |
| TESLA tagging and key store (`tagger`, `tag/keystore.go`, `chain_renewal.go`) | key chains, installed, disclosed and recorded keys | refresh, disclose, store, renew | heartbeats, verification |
| guest runtime, vantage and probe bookkeeping, HTTP API, clients | | | |

The properties that make each correct:

- *scheduler*: accepted work is stored; a stored run starts at most once over
  any number of sessions and crashes; a cancellation is answered, with the
  cause that was first; shutdown joins everything and is quiet afterwards; a due
  run is dispatched.
- *output*: a frame the dispatcher has not committed is still held by the
  executor; both ends agree on the end; readers see a growing prefix of what
  the run wrote, once; charges are exact; finished output is settled.
- *lifecycle*: each run ends once and on evidence; its order is paid once and
  accordingly; an ended run holds no capacity, and capacity that a run may still
  use is not given away; a retained result is released only once recorded.
- *payments*: the cursor never passes an unrecorded receipt; a transaction is
  paid by one receipt; no money is sent twice or without a decision; a transfer
  whose outcome is unknown is resolved in the end.
- *control*: work of two sessions of one executor never overlaps; a drain is
  over exactly when the last mutation is; a session that lost its standing loses
  its authority in bounded time.
- *capacity and bandwidth*: a floor is reserved for exactly its window; charges
  and shares are exact and fair; an admitted run gets what it was promised; what
  an executor applies never goes back; a returned denial is enforced.
- *keys*: no key is disclosed while a kernel program can tag with it; no chain is
  left before its keys are on record; what was tagged becomes verifiable.

## 3. Modules

| module | what it is |
|---|---|
| `ExecutorScheduler` | the scheduler's core, its rows, and the session that owns it |
| `RunCustody` | abstract: what the executor promises about one stored run |
| `OutputDelivery` | a run's output end to end: spool, stream, store |
| `OutputLog` | abstract: what a reader of the output sees |
| `RunLifecycle` | a paid batch at the dispatcher, with the executor's reports |
| `RunContract` | abstract: verdicts and payments of the batch |
| `PaymentReceipts` | the listener of payment receipts and what it records |
| `ChainTransfers` | credits, refunds and payouts as chain transfers |
| `SettlementLedger` | abstract: where each order's money may go |
| `ControlSession` | the sessions of one executor at both ends: owners, leases, drains |
| `FairshareTree`, `ReservationTree` | the balanced tree of shares and the segment tree of reservations, as operators |
| `DestinationCapacity` | admission, allocation, limits and release on those trees |
| `BandwidthDelivery` | revisions of shares and policies on their way to executors |
| `KeyChain` | key chains: signing, disclosure, delivery, renewal |
| `ExecutorSchedulerProofs`, `OutputDeliveryProofs`, `RunLifecycleProofs`, `ControlSessionProofs`, `KeyChainProofs` | theorems and proofs about the module of that name |
| `PaymentProofs` | the same about `PaymentReceipts` and `ChainTransfers` |
| `BandwidthProofs` | the same about `DestinationCapacity` with its trees and `BandwidthDelivery` |
| `FiniteSums` | lemmas: sums over finite sets, and induction over subsets and numbers |
| `MC...` | instances for TLC, one per state machine |

`PROJECT.json` maps each definition to its lines. Definitions whose comment
begins with *Mutant* are plausible mistakes in the definition that follows
them; each shows that some property notices it. Invariants are conjunctions of
named parts; the runs check the conjunctions at the end of each module.

### ExecutorScheduler

A step is one critical section of `MemoryStorage.mu`, one SQL statement, one
callback, or one channel operation. `phase`, `cause` and `attempt` are fields of
`owner` (`ownership.go`); `job[r]` is the goroutine that currently works for the
owner (persisting, deleting from the queue, running the callback, finalizing);
`busy`, `closed`, the loop's wakeup hint and its timer are those of
`MemoryStorage`. `rowBinding`, `rowStarted` and `ran` are what survives `Crash`.
A cancellation is split as in `requestCancel`: it chooses under the lock, signals
after it, and waits for its attempt, with `CallerTimeout` for its context. The
start of a run is three steps (`ReadMarker`, `WriteMarker`, `CheckCause`), as in
`SqliteStorage.onStart`.

`ResumeBinding` is FALSE for the daemon's restore policy, under which a stored
run of another session is quarantined; TRUE lets a session resume stored runs,
and shows that the start marker alone prevents a second start.
`OnFailedRegistered` selects between the two branches of `deleteQueued`. The
daemon registers the callback; the other branch, which re-queues a run whose
deletion failed, is kept because the package offers it.

### OutputDelivery

The executor's database, the dispatcher's database, and messages between them.
An exchange that is cut leaves its request as a *stray*, which the dispatcher may
still commit. Payloads are their lengths: the limits are about lengths.
Transactions are atomic, with failures injected at their boundaries.
`credential`, chosen once, decides whether output may resume over a later session.

### RunLifecycle

One module for what happens to a paid batch at the dispatcher, with as much of
the executor as answers it. A step is one SQL transaction, one section under
`Dispatcher.mu`, one remote call made, served or given up, or one decision of a
handler on what it read earlier. `hp[<<a, r>>]` is the phase of the handler of
actor `a` for run `r`: `report` (an exit report), `late` (the handler of a report
whose caller has given up), `client` (a client's cancellation) and `cleanup`
(the cancellation of a failed batch). Splitting *read*, *request*, *attempt*,
*asking*, *answered*, *complete*, *settle* and *release* is what lets two of them
end the same run at once.

`kept`, `sending` and `result` are the executor's terminal retention;
`unseen` is a ghost variable: the runs whose terminal commit was reported to its
caller as an error, and whose resources are therefore still to be released by a
duplicate report, a sweep or a restart.

Abstractions worth knowing:

- A run cancelled in the queue goes through `OnDebugletFailed` and is reported
  like any other (`cancelled`); a crash in the middle finds it stored in the
  queue.
- Whether a submission is acceptable (policy, price, capabilities, account
  limits) is a free choice; what each answer does to the records is modelled.
- The answer to an allocation may be an error although the charge stands: the
  bandwidth update did not reach everyone (`BandwidthDelivery` has the details).
- A chain refund is collapsed to the SQL transaction that reserves it, which
  settles the order; the transfer itself is `ChainTransfers`.
- A dispatcher that dies forgets its client requests. A repetition of a
  submission is answered with the recorded runs.
- Results retained under an ended session are never delivered under another
  one; `RetainedIsDelivered` says what is promised while the session lasts.
- A failure observed after an acknowledged cancellation is evidence even if the
  run's own result was a success that nobody heard of.

### PaymentReceipts

`sui.Listener` reads receipts from an indexer (ranges of ingested checkpoints)
and from a subscription that starts at the live checkpoint and may skip some. `pc`
is where `Listener.Start` is; `runStart`, `last` and `running` are `streamState`;
`stored` is the cursor on disk. `ApplyPaymentReceipt` is one transaction, whose
disposition depends on what the receipt says: its content is one of a few forms,
among them one that does not decode. The chain and its indexer are external:
they append, at any distance from each other. A subscription that broke is
restarted only when another checkpoint comes; on the bounded chain of an
instance `StreamEnds` stands for it.

### ChainTransfers

The orders of one paid transaction, the executor's balance, the rows of
`chain_transfers` and what the chain did with each digest. A transfer is prepared
(signed), reserved in the SQL transaction that takes its decision, submitted, and
its outcome recorded on condition of the state last read; a submission may answer
late or wrongly and execute after everybody gave up. `Callers` settle and refund,
`Ticker` is the goroutine of payouts and reconciliation, which lists at most
`ReconcileLimit` rows per pass, least recently updated first. The age of a row is
two thresholds. `calm` marks a time from which the process does not die and
writes succeed: eventual resolution is promised from there on only.

### ControlSession

The owners of one executor ID at the dispatcher (`SessionOwner`), their handler
(`handleSession`), the registry entry, enrolment, and the executor's binding with
its view of the lease. Deadlines are countdowns and both clocks run alike. A
session is numbered when the executor dials it, which it does only after the last
one has joined locally; the dispatcher may still be ending earlier ones.

- A hello and its admission, publication and the admission of its setup, and
  `MarkRegistered` with the end of setup, are one step each; so are the two looks
  of `confirm`, and the enrolment check with the start of a probe.
- Issuing and spending an enrolment token is one change. Startup and bind
  timeouts are `Stop`. A run makes one renewal and one mutation at a time.
- The lease of a retired owner counts as zero. `lapsed` is a history variable: how
  long a registered session has lacked standing, reset when standing returns.

### DestinationCapacity, FairshareTree, ReservationTree

Every action is one critical section of `Dispatcher.mu`: submission with its
rollback, allocation, release, restart, limits and denials. The trees are the
code's algorithms as recursive functions, over the spans of the segment tree and
over the nodes of the balanced one, compared with plain sums and with a definition
of max-min fairness. The nodes of a tree are collected level by level, and a recursion
with further arguments gives a function of them at each node; both are forms the
prover can unfold.

- A segment tree is a function from spans to nodes, in which an absent node is a
  node with nothing in it; that is what the code reads from a nil child. A node
  without use drops its children as `add` does.
- An allocation that fails charges the destinations before the one that refuses
  and gives them back. Charging one destination changes nothing another is judged
  by, so the destinations of one call are charged together.
- Runs are restored in some order; the schedule does not depend on it, which
  `ReservationsAreExact` shows.
- The push a query does moves no use between slots and is not part of the value;
  parent pointers are written and never read; `refs` is a map from member to
  value.
- Executors start runs in their windows. The capacity an executor reported is
  constant. Durations wrap above `MaxDuration`.

### BandwidthDelivery

One destination. A change is captured per executor under the lock, delivered in a
chain per session (`tail`, `after`), and retried on heartbeats while `pending`; the
executor fences by revision. One executor with two sessions gives two holders of
an allocation. A change takes the first free slot of `Works`.

- The requests of an ended session go with it. A failing commit is a rollback. A
  repeated `Allocate` is not modelled.
- Executors of versions 0 and 1 exist only as peers: the code that answered them
  is not in this repository, and what they do is taken from how the dispatcher
  uses it.
- The shares themselves are `DestinationCapacity`; here a share is a number that
  changes.

### KeyChain

Time is counted in epochs; a key is the generation of its chain and its epoch. A
tagger's refresh (`applyKeyAt`) is four steps: read the clock and the key, claim
the hold, write the map slot, or empty it. `DisclosedKey` is capped by every hold.
A heartbeat request has a handler of its own at the dispatcher, which may outlive
the call that made it.

- `applyKeyAt` reads the key before it claims the hold. `PromptClaims` says that
  the claim, the next statement, is not delayed until the key just read is due,
  which takes `DisclosureDelay` epochs; without it the property would fail, and
  the code has no other defence.
- The 24 hours of `retiredDeliveryLimit` are one epoch past the final disclosure.
- Eviction from the key cache and clock drift within a process are left out;
  whether results are still undelivered at a heartbeat is a free choice. A run may
  outlast the chain.

## 4. Runs

"Mishaps" (or faults) are injected failures: lost calls and sessions, failed or
unreported commits, crashes of either process. Their number, the number of
sessions, and the numbers of runs, callers, frames, changes and clock ticks are
the only bounds; each is a named constant in a guard.

| run | instance | checks |
|---|---|---|
| `sched_sessions` | 1 run, 1 caller, 3 sessions, any crash, stored runs resumed, failed deletions re-queued | `WorkIsKept`, `CallersAreServed`, `FirstCauseWins`, `JoinedCancelMeansGone`, `ImplementsCustody` |
| `sched_live` | 1 run due later, 1 caller, 2 sessions, any crash, the daemon's configuration, fairness | `ShutdownLeavesNothing`, `LoopIsSound`, `CallsReturn`, `DueRunDispatched` |
| `output_delivery` | 1 run, 2 frames of 2 sizes, 3 sessions, 2 mishaps, each credential, fairness | `NothingIsLost`, `EndsAgree`, `ChargesAreExact`, `ImplementsLog`, `FinishedIsSettled` |
| `lifecycle_failures` | 1 run, 1 submitter, 2 sessions, 3 mishaps (the end of the window is one), a clock that is set back | `ResourcesAreExact`, `ObservedIsEvidence` |
| `lifecycle_batch` | 2 runs, 2 submitters, 1 session, no injected mishap | `RefundedBatchFailed` |
| `lifecycle_live` | 1 run, 1 session, 1 cancellation by a client, 1 mishap (the end of the window is one), fairness | `AcknowledgedMeansStopped`, `ImplementsContract`, `EndsArrive`, `CancellationReturns` |
| `receipts` | 2 receipts for 1 transaction, 3 checkpoints, 2 mishaps, fairness | `ReceiptsAreHonest`, `CursorAdvances`, `ReceiptIsRecorded` |
| `transfers` | 2 orders, 1 caller and the ticker, 2 transfers, 1 row listed per pass, fairness | `MoneyIsExact`, `OutcomeIsEvidence`, `ImplementsLedger`, `TransfersAreResolved` |
| `capacity` | 5 runs of 3 executors to 2 destinations, 3 slots of time, 4-bit durations, 2 limits | `ReservationsAreExact`, `BooksAreExact`, `PromisesAreKept` |
| `bandwidth` | 1 executor of version 0, 1 or 2, 2 sessions, 2 changes at once, 1 fault, a denial that expires and a limit that does not, fairness | `BeliefIsRight`, `NothingGoesBack`, `OwedIsDone` |
| `keychain` | chains of 2 signing keys, disclosure delay 2, 1 run, 2 heartbeat handlers, 2 generations, 1 fault, fairness | `KeysAreSafe`, `ChainsAreKept`, `KeysArrive` |
| `control` | 2 sessions, lease 2, request timeout 1, 1 certificate, 1 mutation, 1 fork, 1 change of enrolment, fairness | `SessionsAreSerial`, `AuthorityEnds`, `SessionsEnd` |

A property of a run is often a conjunction of named parts:

| property | parts |
|---|---|
| `WorkIsKept` | `TypeOK`; an accepted run has its row; a stored run starts at most once |
| `CallersAreServed` | `OwnersHaveWorkers`, `NoStrandedCaller`, `SignalCarriesCause` |
| `ShutdownLeavesNothing` | `QuietAfterShutdown`, `CleanShutdownLeavesNoStartedRun` |
| `LoopIsSound` | `BusyCountsWork`, `NoLostWakeup` |
| `CallsReturn` | `CallerAnswered`, `ShutdownJoins` (liveness) |
| `NothingIsLost` | `TypeOK`, `UncommittedIsHeld`, `ReceiptIsAcceptable` |
| `ChargesAreExact` | `SpoolChargeIsExact`, `StoreChargeIsExact` |
| `ResourcesAreExact` | `TypeOK`, `ReleasedIsRecorded`, `TerminalHoldsNothing`, `LiveRunsAreCounted` |
| `EndsArrive` | `TerminalIsSettled`, `RetainedIsDelivered` (liveness) |
| `ReceiptsAreHonest` | `TypeOK`, `CursorCoversRecorded`, `PaidByOneReceipt` |
| `MoneyIsExact` | `TypeOK`, `BalanceIsExact`, `RefundIsOwedOnce` |
| `BooksAreExact` | `TypeOK`, `ChargesAreExact`, `AllOrNothing`, `SharesAreFair` |
| `PromisesAreKept` | `AdmittedRunFits`, `LimitsAreKept` |
| `BeliefIsRight` | `TypeOK`, `ReconciledIsCurrent`, `DenialIsEnforced` |
| `NothingGoesBack` | steps: `NeverBack`, `AllocationIsDelivered`, `ExpiryEndsItsPolicy` |
| `OwedIsDone` | `PendingIsReconciled`, `ExpiredGivesWay` (liveness) |
| `KeysAreSafe` | `TypeOK`, `DisclosedIsUninstalled`, `CoverageIsDurable` |
| `ChainsAreKept` | steps: `RenewalKeepsKeys`, `RetiredIsKept` |
| `KeysArrive` | `RenewalCompletes`, `TaggedIsVerifiable` (liveness) |
| `SessionsAreSerial` | `TypeOK`, `OrdinaryWorkIsSerial`, `DrainedIsExact`, `RegisteredIsListed`, `LaneIsThere` |
| `AuthorityEnds` | `LeaseIsNested`, `LapsedIsBounded` |

Why these bounds are enough for the cases meant. Runs of one scheduler meet only
in the queue, the busy count and the drain; the proofs of section 5 hold for any
number of them. Two sessions give every race between an old and a new binding;
three let a run be stored, resumed and met again after its marker, and let output
cross two reconnections. Two mishaps pair a lost answer with a crash, or a lost
session with an unreported commit, which is where the recovery paths meet; a
third lets the window end under such a pair, and leaves a reclamation whose commit
was not reported to the next sweep. Client cancellations with more than one
mishap multiply the states too far: `AcknowledgedMeansStopped` and
`ImplementsContract` are proved for any number of both (section 5). Two
frames of different sizes tell a repetition from the next frame, and with a pass
of one frame the retry loop stops between them; a dispatcher that keeps fewer
bytes than the run may write truncates it. A batch of two shows a sibling
cancelled by the other's failure; refusals and that cancellation need no mishap.
Three checkpoints let the stream skip one between two it delivers. Two transfers
with one row per pass let a stuck row stand before another. Five runs fill a
destination, give one executor two runs there, and make the tree of shares
rotate; four slots give the segment tree an inner level. Two changes at once are
a delivery and the one chained behind it. A chain of two signing keys with a
delay of two lets a tagger be one epoch behind, and two handlers let a late
acknowledgement meet a newer one. Runs and submitters that nothing tells apart
are a symmetry set in `lifecycle_batch`; no liveness run uses symmetry.

Deadlock is checked in the scheduler runs (a core that has finished stutters
through `Finished`) and in `control`, where time passes for ever. The other
instances switch it off: with every run ended and the bounds on sessions and
mishaps used up the system is at rest.

Fairness, and why the code justifies it:

- `ExecutorScheduler!FairSpec`: weak, of the goroutines of the core (workers,
  the callers' own steps, the loop, shutdown, the notifier, the end of a restore)
  and of time. None of them waits for anything but the lock, a database call that
  is bounded by a timeout, or a callback, which ends because execution has a
  policy timeout. Nothing is assumed of new calls, of crashes, or of the session.
- `OutputDelivery!FairSpec`: weak, of the workers, the stream handler, and the
  reconnect loop (`node.go` retries for ever). Every exchange has a timeout
  (`outputCallTimeout`); mishaps are finitely many.
- `RunLifecycle!FairSpec`: weak. A supervisor restarts the dispatcher, the
  settlement sweep runs periodically, and handlers and runs take their steps.
  Guests end within their timeout and calls to the other side within theirs; a
  lost call is a step of its handler. A crash ends handlers, so the settlement of
  a run whose handler died rests on the sweep alone.
- `PaymentReceipts!FairListenerSpec`: weak, of the listener, the indexer, and new
  checkpoints, empty ones at least.
- `ChainTransfers!FairSpec`: weak, of the callers, the ticker and time; strong, of
  the reconciliation pass and of conclusive answers of the chain, which is asked
  again on every pass. Promised from a moment on from which the process lives and
  its writes succeed (`calm`).
- `BandwidthDelivery!FairSpec`: weak, of the delivery's steps, which have
  deadlines, of the executors and of the expiry loop's read; strong, of the
  heartbeat's reconciliation and of the sweep's change, each tried periodically
  and disabled in between by others' changes.
- `KeyChain!FairSpec`: weak, of time, the heartbeat loop, reconnection, taggers
  and the key store; strong, of the end of runs and of the renewal, which the
  heartbeat loop tries periodically.
- `ControlSession!FairSpec`: weak, of time and, for each session, of the steps of
  its handler, requests and deadlines.

## 5. Proofs

Each theorem holds for every value of the constants that satisfies the named
assumptions of its module: any finite number of runs, callers, sessions,
failures, any limits, any lengths of chains and leases.

| theorem | states | assumes |
|---|---|---|
| `ExecutorSchedulerProofs!AcceptedWorkIsKept` | `[]WorkIsKept` | `SchedulerAssumption` |
| `...!EveryCallerIsServed` | `[]CallersAreServed` | |
| `...!NothingIsLeft` | `[]ShutdownLeavesNothing` | |
| `...!LoopAndCountAreSound` | `[]LoopIsSound` | |
| `...!FirstCauseIsKept` | `FirstCauseWins` | |
| `...!JoinedCancelIsHonest` | `JoinedCancelMeansGone` | |
| `...!SchedulerImplementsCustody` | `ImplementsCustody` | |
| `OutputDeliveryProofs!NoFrameIsLost` | `[]NothingIsLost` | `OutputAssumption` |
| `...!BothEndsAgree` | `[]EndsAgree` | |
| `...!DeliveryImplementsLog` | `ImplementsLog` | |
| `...!UsageIsExact` | `[]ChargesAreExact` | |
| `RunLifecycleProofs!AcknowledgedRunsAreStopped` | `[]AcknowledgedMeansStopped` | `LifecycleAssumption` |
| `...!ObservationsAreEvidence` | `[]ObservedIsEvidence` | |
| `...!CapacityIsExact` | `[]ResourcesAreExact` | |
| `...!RefundsNeedFailure` | `[]RefundedBatchFailed` | |
| `...!LifecycleImplementsContract` | `ImplementsContract` | |
| `PaymentProofs!ListenerIsHonest` | `[]ReceiptsAreHonest` | the five assumptions of the module |
| `...!CursorIsMonotone` | `CursorAdvances` | |
| `...!OutcomesHaveEvidence` | `[]OutcomeIsEvidence` | the assumptions of `ChainTransfers` |
| `...!RefundsAreOwedOnce` | `[]RefundIsOwedOnce` | |
| `...!MoneyStaysExact` | `[]MoneyIsExact` | |
| `...!TransfersImplementLedger` | `ImplementsLedger` | |
| `ControlSessionProofs!SessionsFollowOneAnother` | `[]SessionsAreSerial` | `SessionAssumption` |
| `...!AuthorityIsBounded` | `[]AuthorityEnds` | |
| `BandwidthProofs!ReservationsStayExact` | `[]ReservationsAreExact` | `CapacityAssumption`, `SlotAssumption` |
| `...!PromisesStayKept` | `[]PromisesAreKept` | |
| `...!BooksStayExact` | `[]BooksAreExact` | |
| `...!BeliefsAreRight` | `[]BeliefIsRight` | `DeliveryAssumption` |
| `...!NothingIsTakenBack` | `NothingGoesBack` | |
| `KeyChainProofs!KeysStaySafe` | `[]KeysAreSafe` | `ChainAssumption` |
| `...!ChainsStayKept` | `ChainsAreKept` | |

The assumptions are types and signs of constants, that the sets of runs and orders
are finite, that executors and destinations are different things (the schedule
keeps their trees in separate maps), and that the floor of an admitted run is not
above its ceiling (submission refuses the others, `ErrInvalidPolicy`). TLC evaluates all of them on the instances.

Sums and recursion. The provers cannot instantiate a theorem whose parameter is an
operator, so the library's induction rules are of no use to them. `FiniteSums`
derives rules whose parameter is a *set*: a set of subsets of S that contains the
empty one and grows by one element contains S (`SubsetInduction`, from the library's
minimal-element theorem over strict subsets), and the same for the numbers. A
property becomes the set of the things that have it. With these, the fold of the
community modules is shown to be a sum (one element added adds its value, equal
functions have equal sums, disjoint sets add up), and a recursive function to be
defined on its whole domain: `SpanRecursion` for the segment tree, by the length of a
span, `SubsetRecursion` for the schedule that a restart rebuilds, and by height for
the recursions of the balanced tree (`InsertExists`, `DeleteExists`, `WalkExists`).

The arguments, by the inductive invariant each rests on:

**Scheduler.** `CoreInv` has four parts that need each other. `WeakTypeOK`: the
types, without the claim that `busy` is natural, which is a consequence of
counting. `WorkersInv`: every phase has exactly its goroutine and an attempt that
it will close. `BusyCountsWork`: every increment and decrement is matched to one
element entering or leaving a set (`BusyFrame`, `CountStep`); which element it is
follows from `WorkersInv`. `QuietInv`: after `Shutdown` has returned, nothing is
busy. On top of it, each for one question: `OnceInv` (the start marker, the
position in `onStart` and the number of starts), `StoredInv` (which phase has a
row, and whose), `CauseInv` (what was signalled is the recorded cause), `GoneInv`
(what a joined cancellation found) and `StartedInv` (which started rows a clean
shutdown may leave: none).

**Output.** What is committed is a prefix of what was written; what is
acknowledged is committed, and the rest is held; every request in flight and every
stray is a true statement of the spool when it was sent, and every reply stays
true; a final record at the dispatcher is final for a reason that does not go
away. The last part is what makes a lost answer harmless: a repetition meets
the same record. `StoreEffect` and `AckEffect` are the two lemmas all transport
steps cite. Each step is then a step of `OutputLog` or a stutter.

**Lifecycle.** The invariant says: before admission nothing of the batch exists;
a run has one owner and one result; what each answer of the executor proves about
the run; what the record of an end says of the resources, of the order and of
each handler that relies on it (`hp`). The last part is per phase, because a
handler acts on what it read several steps earlier.

The usage counters need one more fact: every step that moves a counter moves the
charge of one run, and of no other, by as much (`SpoolMoves`, `FrameCharges`).

**Receipts.** `Chained`, `Remembered` and `RangeSettled` say that what the
listener is about to store as its cursor is settled: streamed without a gap since
a checkpoint whose predecessors were read from the index. `RecordSettled` gives
`CursorCoversRecorded`.

**Transfers.** `Sound`: types, no transfer is submitted that must not be, every
recorded outcome has its evidence on chain, and a refunded order is owed by one
row. Balances are sums over the rows that did not fail, and each step adds or
removes at most one of them. For the refinement the ledger's view of an order is its
state, and what is paid out and returned is the sum of what the chain executed: a
transfer that executes is one that some decision reserved, and it executes once.

**Capacity.** `Represents(n, use)` says of a segment tree that under every span the
cached maximum, with what the ancestors still owe, is the largest use in it. `add`
and `querymax` are proved against it by induction over the length of the span
(`AddExact`, `QueryExact`), with the lazy values and the dropped children of a node
without use. `CapacityInv` then has: types; each window that holds a reservation lies
within the slots, its budget did not wrap (`WindowsHeld`); each schedule represents
the sum of the floors reserved in each slot (`ScheduleHeld`), and the rebuilt one
does too; what is charged is the floors of the recorded runs, which are all or
none of a run's destinations, of running runs with a reservation, and the totals and
the tree of each destination are those of these runs (`BooksHeld`); and
`LimitsAreKept` itself, which needs the others: what is charged now belongs to runs
whose reservations cover the present slot, unless they have outlived their windows.

The balanced tree is `Good` when its root is in some set of nodes that has their
children, in which every node caches what its children are, has each member once and
in order around it, and sides whose heights differ by at most one. A property of all
nodes is proved from the children up (`TreeInduction`). `LeftTurn`, `LeftTwice` and
their mirror images say that a rotation of a node whose sides differ by two gives a
`Good` tree of the same members, of the height it had or one less; so replacing a side
by one whose height differs by at most one changes the whole by at most one
(`RefitLeft`, `RefitRight`), which is what carries `InsertHolds` and `DeleteHolds`
through the recursion. Delete finds a member among equal values because each side it
does not find it in comes back unchanged. `Tidy` adds that the nodes hold what the
references record. For the level, `At` describes the walk at a node: all members
outside its subtree are on one side of it, the sum of the small ones and the count of
the large ones are what the walk carries, and the fair level lies between the bounds
that sent it there; each step ends at the highest level that fits or hands on to a
side where the same holds (`WalkStep`). That the limits stay within the capacity is
then a sum by executor of what was summed by run (`SumGrouped`).

**Control.** The reference count of an owner is the number of its holders, per
position of its handler and of the requests; while a session works its
predecessors are drained (`AloneInv`); the executor's deadline is not above the
dispatcher's, including for each message in flight (`NestedInv`); `LapseInv` bounds
how long a session without standing may be renewed: one renewal that was checked
before the loss, then the lease.

**Bandwidth.** No delivery, request or executor is ahead of its entry's revision
(`RevInv`, `NetInv`, `ExecInv`), so a capture's new revision is one that nothing has
yet; what was answered is applied (`AckInv`); whatever has the entry's revision,
received, on the wire or waiting, is the current snapshot unless a change is still
to be captured (`SnapInv`). `DenyInv`: while the destination is denied, each live
session with an allocation has the denial in force and only denials on their way, or
is still to be looked at by a change that denies, under a revision from which
everything denies. What is listed as unconfirmed is exactly the second case, so a
denial that returns leaves only the first. The order in which deliveries are chained
plays no part: the fence at the executor is enough for safety, and the chain is for
executors that have no fence.

**Keys.** The chains are in order; what is out at the dispatcher is at least
`DisclosureDelay` epochs old; a tagger's hold is at or below its slot and never
above the key it is writing; disclosures are below every hold; a key read but not
claimed yet is too young to be disclosed (`PromptClaims`); a retired chain exists
only without filters of an earlier process. Records are ahead of receipts,
receipts of the cache and of coverage; a prepared next chain means that work is
drained and that what was signed is stored.

Every invariant the runs check is a theorem. Only model-checked: the properties of
liveness, because fairness is out of the prover's reach.

## 6. A disagreement

When an executor that may not resume output over a later session is refused with
`PermissionDenied`, it releases its copy, because, as `durable_output.go` says
there, the dispatcher has finalized that output as interrupted;
`docs/operations/configuration.md` promises the same ("when such a session ends,
the dispatcher finalizes that output"). The dispatcher does so only in
`OnExecutorDisconnected`. If its process dies while the session is live, or that
statement fails, nothing finalizes the output later, and it stays pending after
the executor has let go of its copy. The model follows the code: `UncommittedIsHeld`
and `FinishedIsSettled` except an executor that may not resume.

## 7. What is left out

- the wire encoding, generated queries and bindings, logging, metrics, the HTTP
  API, the command-line tools, the studio, demos and deployment. They are most of
  the repository's lines and hold no state of the control system;
- the guest runtime, sockets and isolation: a guest ends in success or failure;
- cryptography: certificates, tags, receipts and transactions are valid or not;
- in the scheduler: the deadline arithmetic of the lease, which may be lost at
  any step (`ControlSession` has it), and reconnection backoff;
- in the output path: the unsequenced stream of old executors
  (`output_pump.go`), retention and tombstones, account limits, operator
  dispositions. The refusal of a sequence gap is defensive: no sender here
  produces one;
- in the lifecycle: resource reports and result provenance;
- in payments: intents, quotes, the construction and signing of transactions;
- vantage points and probes: queries and periodic deletion.

## 8. Plan

All planned modules are written, checked and, where the prover reaches, proved.
What could come next: an instance of `BandwidthDelivery` with two executors under
fairness, if a larger machine is at hand; resource reports and account limits.
