---------------------------- MODULE ChainTransfers ----------------------------
(***************************************************************************)
(* The money side of settlement: orders of one paid transaction become     *)
(* credits in the executor's balance or refunds, payouts empty the         *)
(* balance, and refunds and payouts travel as chain transfers.             *)
(*                                                                         *)
(* A transfer is prepared (signed, digest known), then reserved in the SQL *)
(* transaction that takes its decision, then submitted, and its outcome    *)
(* recorded conditionally on the state last read.  A submission may answer *)
(* late, wrongly or never, and may execute after everybody gave up on it;  *)
(* ReconcileTransfers looks such transfers up and submits them again with  *)
(* the same digest, which the chain executes at most once.                 *)
(*                                                                         *)
(* Several handlers settle at once (Callers); payouts and reconciliation   *)
(* share one goroutine (Ticker).                                           *)
(***************************************************************************)
EXTENDS Integers, FiniteSets, FiniteSetsExt

CONSTANTS
    Orders,        \* orders of one paid USDC transaction
    Price,         \* order -> its price in base units
    Callers,       \* goroutines that settle or refund orders
    Ticker,        \* the goroutine of PayoutTicker.StartPayoutLoop
    ReconcileLimit,\* rows one reconciliation pass lists
    MaxTransfers   \* bound: transfer rows

ASSUME TickerAssumption == Ticker \notin Callers
ASSUME BoundsAssumption ==
    MaxTransfers \in Nat /\ ReconcileLimit \in Nat \ {0}
ASSUME OrderPriceAssumption == IsFiniteSet(Orders) /\ Price \in [Orders -> Nat \ {0}]

VARIABLES
    status,    \* the transaction: "paid" or "refunded"
    validAddress, \* the orders' refund address is one the chain accepts
    order,     \* order -> "outstanding", "credited" or "refunded"
    balance,   \* earnings.current_balance of the executor
    income,    \* earnings.total_income
    rows,      \* chain_transfers: transfer id -> row
    rank,      \* transfer id -> its place in the order of updated_at
    chain,     \* transfer id -> "none", "success" or "failure"
    net,       \* transfer id -> it was submitted and may execute
    worker,    \* goroutine -> what it is doing
    todo,      \* the rest of the reconciliation pass: id -> state as listed
    calm       \* from now on the process does not die and writes succeed

database == <<status, order, balance, income, rows, rank>>
steady == <<validAddress, calm>>
vars == <<database, steady, chain, net, worker, todo>>

Ids == 1..MaxTransfers
Workers == Callers \cup {Ticker}
Open == {"reserved", "sent", "unknown"}
States == Open \cup {"confirmed", "failed"}

Row == [kind : {"refund", "payout"}, orders : SUBSET Orders, amount : Nat,
        state : States, age : 0..2]
NoRow == [kind |-> "none"]

(* age counts how long ago the row was reserved: more than staleReservation *)
(* (1), more than automaticResubmissionWindow (2).                          *)
Stale(t) == rows[t].age >= 1
Expired(t) == rows[t].age = 2

Idle == [at |-> "idle"]
NoPass == [t \in {} |-> "unknown"]
Exists(t) == rows[t] # NoRow
Value(S) == MapThenSumSet(LAMBDA o : Price[o], S)

Init ==
    /\ status = "paid"
    /\ validAddress \in BOOLEAN
    /\ order = [o \in Orders |-> "outstanding"]
    /\ balance = 0 /\ income = 0
    /\ rows = [t \in Ids |-> NoRow] /\ rank = [t \in Ids |-> t]
    /\ chain = [t \in Ids |-> "none"] /\ net = [t \in Ids |-> FALSE]
    /\ worker = [w \in Workers |-> Idle] /\ todo = NoPass
    /\ calm = FALSE

------------------------------------------------------------------------------
(* Settlement decisions. *)

OutstandingUnrefunded(o) == order[o] # "refunded"

(* TransitionDebugletOrder finds the order outstanding. *)
Outstanding(o) == order[o] = "outstanding"

(* settleOrder, credit: one SQL transaction. *)
Credit(o) ==
    /\ Outstanding(o)
    /\ order' = [order EXCEPT ![o] = "credited"]
    /\ balance' = balance + Price[o] /\ income' = income + Price[o]
    /\ UNCHANGED <<status, rows, rank, steady, chain, net, worker, todo>>

(* What a transfer is for.  A refund's orders are read, and its transfer    *)
(* prepared, some time before the decision: an order was outstanding once,  *)
(* so a refund of one order may come up in any state, and one of the whole  *)
(* transaction may name any orders that include the outstanding ones.       *)
Refund(S, whole) == [kind |-> "refund", orders |-> S, amount |-> Value(S), whole |-> whole]

RefundJobs ==
    {Refund({o}, FALSE) : o \in Orders}
    \cup {Refund(S, TRUE) : S \in {T \in SUBSET Orders : \A o \in Orders \ T : ~Outstanding(o)}}

Finish(w) == worker' = [worker EXCEPT ![w] = Idle]

(* PayExecutors reads the balance it will pay; preparing may fail. *)
PayoutExecutor ==
    /\ worker[Ticker] = Idle /\ todo = NoPass /\ balance > 0
    /\ worker' = [worker EXCEPT ![Ticker] = [at |-> "prepared", amount |-> balance]]
    /\ UNCHANGED <<database, steady, chain, net, todo>>

------------------------------------------------------------------------------
(* Reservation: prepareAndReserve's SQL transaction. *)

(* Ids are given in order. *)
NextId(t) == ~Exists(t) /\ \A u \in Ids : u < t => Exists(u)

TouchedFirst(t) == rank

(* A written row goes to the end of the order. *)
Touched(t) ==
    [u \in Ids |-> IF u = t THEN MaxTransfers
                   ELSE IF rank[u] > rank[t] THEN rank[u] - 1 ELSE rank[u]]

(* A refund to an address the chain would refuse is recorded as owed. *)
Sendable(job) == job.kind = "payout" \/ validAddress

NewRow(job) ==
    [kind |-> job.kind, orders |-> job.orders, amount |-> job.amount,
     state |-> IF Sendable(job) THEN "reserved" ELSE "failed", age |-> 0]

(* ReservePayout. *)
Reservable(amount) ==
    /\ balance >= amount
    /\ \A t \in Ids : ~(Exists(t) /\ rows[t].kind = "payout" /\ rows[t].state \in Open)

RemainingNothing(amount) == 0

(* Exactly the balance read is taken; credits since then stay. *)
Remaining(amount) == balance - amount

(* refundOnChain refuses when one of the orders was settled meanwhile. *)
StillOutstanding(o) == Outstanding(o)

Decides(job) ==
    IF job.kind = "payout" THEN Reservable(job.amount)
    ELSE /\ job.whole => status = "paid"
         /\ \A o \in job.orders : StillOutstanding(o)

(* The decision and, unless nothing is to be moved, the row t. *)
DecideAndReserve(job, t) ==
    /\ Decides(job)
    /\ status' = IF job.whole THEN "refunded" ELSE status
    /\ order' = [o \in Orders |-> IF o \in job.orders THEN "refunded" ELSE order[o]]
    /\ balance' = IF job.kind = "payout" THEN Remaining(job.amount) ELSE balance
    /\ IF job.amount = 0 THEN UNCHANGED <<rows, rank>>
       ELSE /\ NextId(t)
            /\ rows' = [rows EXCEPT ![t] = NewRow(job)]
            /\ rank' = Touched(t)
    /\ UNCHANGED <<income, steady, chain, net, todo>>

Calling(t, from) == [at |-> "submit", id |-> t, from |-> from]

(* The caller goes on to the chain, or the commit took effect and reported  *)
(* an error: then the row waits for reconciliation.                         *)
Reserved(w, job, t) ==
    \/ worker' = [worker EXCEPT ![w] =
            IF job.amount > 0 /\ Sendable(job) THEN Calling(t, "reserved") ELSE Idle]
    \/ Finish(w)

(* settleOrder's chain refund, refundTransaction. *)
RefundOnChain(w) ==
    /\ w \in Callers /\ worker[w] = Idle
    /\ \E job \in RefundJobs, t \in Ids : DecideAndReserve(job, t) /\ Reserved(w, job, t)

ReservePayout ==
    /\ worker[Ticker].at = "prepared"
    /\ LET job == [kind |-> "payout", orders |-> {}, amount |-> worker[Ticker].amount, whole |-> FALSE]
       IN  \E t \in Ids : DecideAndReserve(job, t) /\ Reserved(Ticker, job, t)

(* The transfer could not be prepared, or errPayoutNotReserved. *)
PayoutNotReserved ==
    /\ worker[Ticker].at = "prepared"
    /\ Finish(Ticker)
    /\ UNCHANGED <<database, steady, chain, net, todo>>

------------------------------------------------------------------------------
(* Submission and its outcome. *)

Submit(w) ==
    /\ worker[w].at = "submit"
    /\ net' = [net EXCEPT ![worker[w].id] = TRUE]
    /\ worker' = [worker EXCEPT ![w].at = "waiting"]
    /\ UNCHANGED <<database, steady, chain, todo>>

(* The chain executes a digest at most once, at any time after its first    *)
(* submission, or never.                                                    *)
Execute(t, result) ==
    /\ net[t] /\ chain[t] = "none"
    /\ chain' = [chain EXCEPT ![t] = result]
    /\ UNCHANGED <<database, steady, net, worker, todo>>

(* What ExecuteTransfer's answer is recorded as; an error of the call says  *)
(* nothing about the transfer.                                              *)
executionOutcome(t) ==
    {"unknown"} \cup (IF chain[t] = "success" THEN {"sent"} ELSE {})
                \cup (IF chain[t] = "failure" THEN {"failed"} ELSE {})

(* UpdateChainTransfer is conditional on the state the caller read. *)
Unchanged(t, from) == rows[t].state = from

(* The age of a closed row does not matter. *)
Recorded(row, outcome) ==
    [row EXCEPT !.state = outcome, !.age = IF outcome \in Open THEN row.age ELSE 0]

(* recordTransfer: a payout that becomes failed releases its amount. *)
recordTransfer(t, from, outcome) ==
    /\ IF Unchanged(t, from)
       THEN /\ rows' = [rows EXCEPT ![t] = Recorded(@, outcome)]
            /\ rank' = Touched(t)
            /\ balance' = IF outcome = "failed" /\ rows[t].kind = "payout"
                          THEN balance + rows[t].amount ELSE balance
       ELSE UNCHANGED <<rows, rank, balance>>
    /\ UNCHANGED <<status, order, income>>

(* The call answers and the outcome is recorded.  What an answer says stays *)
(* true, so the two are one step; what may have changed since the caller    *)
(* reserved or listed the row is its state.                                 *)
Record(w, outcome) ==
    /\ worker[w].at = "waiting"
    /\ outcome \in executionOutcome(worker[w].id)
    /\ recordTransfer(worker[w].id, worker[w].from, outcome)
    /\ Finish(w)
    /\ UNCHANGED <<steady, chain, net, todo>>

(* recordTransfer logs an error of the database and goes on. *)
RecordFails(w) ==
    /\ ~calm
    /\ worker[w].at = "waiting"
    /\ Finish(w)
    /\ UNCHANGED <<database, steady, chain, net, todo>>

------------------------------------------------------------------------------
(* Reconciliation. *)

Unresolved(t) == Exists(t) /\ rows[t].state \in {"sent", "unknown"}

ListedRow(t) ==
    \/ Unresolved(t)
    \/ Exists(t) /\ rows[t].state = "reserved" /\ Stale(t)

(* ListUnresolvedChainTransfers, oldest update first. *)
Listed ==
    {t \in Ids : ListedRow(t) /\
        Cardinality({u \in Ids : ListedRow(u) /\ rank[u] < rank[t]}) < ReconcileLimit}

ReconcileTransfers ==
    /\ worker[Ticker] = Idle /\ todo = NoPass /\ Listed # {}
    /\ todo' = [t \in Listed |-> rows[t].state]
    /\ UNCHANGED <<database, steady, chain, net, worker>>

(* LookupTransfer: what the node says of the digest.  It may fail, be       *)
(* unable to verify the credit, or not know yet what the chain executed.    *)
Answers(t) ==
    {"inconclusive", "notfound"}
        \cup (IF chain[t] = "success" THEN {"confirmed"} ELSE {})
        \cup (IF chain[t] = "failure" THEN {"failed"} ELSE {})

Resubmits(t, from) == from # "sent" /\ ~Expired(t)

lookedUpGivenUp(t, from, answer) ==
    CASE answer = "inconclusive" -> "unknown"
      [] answer = "notfound" -> IF Expired(t) THEN "failed" ELSE "unknown"
      [] OTHER -> answer

(* What is recorded without another submission. *)
lookedUp(t, from, answer) ==
    IF answer \in {"confirmed", "failed"} THEN answer ELSE "unknown"

(* The next row of the pass; todo holds its state as listed. *)
IsNext(t) ==
    /\ worker[Ticker] = Idle
    /\ t \in DOMAIN todo /\ \A u \in DOMAIN todo : rank[t] <= rank[u]

Passed(t) == todo' = [u \in DOMAIN todo \ {t} |-> todo[u]]

(* The row is looked up, and submitted again or recorded. *)
reconcileTransfer(t, answer) ==
    /\ IsNext(t)
    /\ answer \in Answers(t)
    /\ IF answer = "notfound" /\ Resubmits(t, todo[t])
       THEN /\ worker' = [worker EXCEPT ![Ticker] = Calling(t, todo[t])]
            /\ UNCHANGED database
       ELSE /\ recordTransfer(t, todo[t], lookedUp(t, todo[t], answer))
            /\ UNCHANGED worker
    /\ Passed(t)
    /\ UNCHANGED <<steady, chain, net>>

Lookup == {"inconclusive", "notfound", "confirmed", "failed"}

LookupNotRecorded(t) ==
    /\ ~calm
    /\ IsNext(t) /\ Passed(t)
    /\ UNCHANGED <<database, steady, chain, net, worker>>

(* A submission that never left the process leaves the transfer unknown. *)
NotBroadcast ==
    /\ worker[Ticker].at = "submit"
    /\ recordTransfer(worker[Ticker].id, worker[Ticker].from, "unknown")
    /\ Finish(Ticker)
    /\ UNCHANGED <<steady, chain, net, todo>>

(* Only a reserved row tells the first ten minutes from the first hour. *)
Age(t) ==
    /\ Exists(t) /\ rows[t].age < 2 /\ rows[t].state \in Open
    /\ rows' = [rows EXCEPT ![t].age = IF @ = 0 /\ rows[t].state = "reserved" THEN 1 ELSE 2]
    /\ UNCHANGED <<status, order, balance, income, rank, steady, chain, net, worker, todo>>

(* The process dies; the database and what was submitted remain. *)
Crash ==
    /\ ~calm
    /\ worker' = [w \in Workers |-> Idle] /\ todo' = NoPass
    /\ UNCHANGED <<database, steady, chain, net>>

(* The last crash and the last failed write are over. *)
Calm ==
    /\ ~calm /\ calm' = TRUE
    /\ UNCHANGED <<database, validAddress, chain, net, worker, todo>>

------------------------------------------------------------------------------
(* A goroutine that has begun goes on. *)
Proceed(w) == Submit(w) \/ \E x \in States : Record(w, x)

Next ==
    \/ \E o \in Orders : Credit(o)
    \/ \E w \in Callers : RefundOnChain(w)
    \/ PayoutExecutor \/ ReservePayout \/ PayoutNotReserved
    \/ \E w \in Workers : Proceed(w) \/ RecordFails(w)
    \/ \E t \in Ids, r \in {"success", "failure"} : Execute(t, r)
    \/ ReconcileTransfers
    \/ \E t \in Ids, a \in Lookup : reconcileTransfer(t, a)
    \/ NotBroadcast
    \/ \E t \in Ids : LookupNotRecorded(t)
    \/ \E t \in Ids : Age(t)
    \/ Crash \/ Calm

Spec == Init /\ [][Next]_vars

(* A lookup of t that answers what the chain did. *)
Conclusive(t) == \E a \in {"confirmed", "failed"} : reconcileTransfer(t, a)

(* The goroutine of the ticker finishes what it has begun. *)
TickerProceeds ==
    \/ Proceed(Ticker)
    \/ ReservePayout \/ PayoutNotReserved
    \/ \E t \in Ids, a \in Lookup : reconcileTransfer(t, a)

(* Goroutines go on, the reconciliation tick comes however often payouts    *)
(* do, time passes, and a node asked again and again answers in the end.    *)
FairSpec ==
    /\ Spec
    /\ \A w \in Callers : WF_vars(Proceed(w))
    /\ WF_vars(TickerProceeds)
    /\ SF_vars(ReconcileTransfers)
    /\ WF_vars(\E t \in Ids : Age(t))
    /\ \A t \in Ids : SF_vars(Conclusive(t))

------------------------------------------------------------------------------
Job ==
    {Idle}
    \cup [at : {"prepared"}, amount : Nat]
    \cup [at : {"submit", "waiting"}, id : Ids, from : Open]

TypeOK ==
    /\ status \in {"paid", "refunded"} /\ validAddress \in BOOLEAN /\ calm \in BOOLEAN
    /\ order \in [Orders -> {"outstanding", "credited", "refunded"}]
    /\ balance \in Nat /\ income \in Nat
    /\ rows \in [Ids -> Row \cup {NoRow}]
    /\ rank \in [Ids -> Int]
    /\ chain \in [Ids -> {"none", "success", "failure"}] /\ net \in [Ids -> BOOLEAN]
    /\ worker \in [Workers -> Job]
    /\ DOMAIN todo \subseteq Ids /\ \A t \in DOMAIN todo : todo[t] \in Open

(* The amounts of transfers, and of a set of them. *)
Amount == [t \in Ids |-> IF Exists(t) THEN rows[t].amount ELSE 0]
Sum(T) == MapThenSumSet(LAMBDA t : Amount[t], T)
Payouts == {t \in Ids : Exists(t) /\ rows[t].kind = "payout"}
Refunds == {t \in Ids : Exists(t) /\ rows[t].kind = "refund"}

(* Every base unit the executor earned is in its balance or in a payout     *)
(* that did not fail: a failed payout is released once, whoever records it  *)
(* (ReservePayout, recordTransfer).                                         *)
BalanceIsExact ==
    income = balance + Sum({t \in Payouts : rows[t].state # "failed"})

(* A recorded outcome is what the chain did: "failed means no coins moved"  *)
(* now or later, sent and confirmed that they did (transfers.go).           *)
OutcomeIsEvidence ==
    \A t \in Ids : Exists(t) =>
        /\ rows[t].state \in {"sent", "confirmed"} => chain[t] = "success"
        /\ rows[t].state = "failed" =>
              chain[t] = "failure" \/ (chain[t] = "none" /\ ~net[t] /\ rows[t].kind = "refund" /\ ~validAddress)

(* A refunded order is owed by exactly one transfer, whose row says so      *)
(* whatever became of the call, and no other order is (refundOnChain).      *)
RefundIsOwedOnce ==
    \A o \in Orders :
        /\ order[o] = "refunded" <=> \E t \in Refunds : o \in rows[t].orders
        /\ \A t, u \in Refunds : o \in rows[t].orders \cap rows[u].orders => t = u

Executed == {t \in Ids : chain[t] = "success"}

(* The ledger's view of the orders and of what the chain moved. *)
Fate ==
    [o \in Orders |-> CASE order[o] = "credited" -> "executor"
                        [] order[o] = "refunded" -> "buyer" [] OTHER -> "held"]
PaidOut == Sum(Payouts \cap Executed)
Returned == UNION {rows[t].orders : t \in Refunds \cap Executed}

Ledger == INSTANCE SettlementLedger WITH fate <- Fate, paid <- PaidOut, returned <- Returned

(* The transfers implement the ledger: what the chain moved is within what  *)
(* was decided, through retries, late executions and crashes.               *)
ImplementsLedger == Ledger!LedgerSpec

(* Under the bound on rows: once writes no longer fail and the process no   *)
(* longer dies, in the end no row is reserved, whatever stopped between the *)
(* reservation and the call, and every transfer the chain executed is       *)
(* confirmed, however its call answered and whatever else waits for         *)
(* reconciliation (ReconcileTransfers).                                     *)
TransfersAreResolved ==
    <>calm => <>[](\A t \in Ids : Exists(t) =>
            /\ rows[t].state # "reserved"
            /\ chain[t] = "success" => rows[t].state = "confirmed")

(* The accounts add up: no unit is earned or released twice, and no order   *)
(* is refunded twice (ReservePayout, recordTransfer, refundOnChain).        *)
MoneyIsExact == TypeOK /\ BalanceIsExact /\ RefundIsOwedOnce

==============================================================================
