---------------------------- MODULE PaymentProofs ----------------------------
(***************************************************************************)
(* What every chain, every set of orders, prices, callers and receipts may *)
(* rely on: the money of settlement (ChainTransfers) and the cursor of the *)
(* payment listener (PaymentReceipts).                                     *)
(***************************************************************************)
EXTENDS ChainTransfers, PaymentReceipts, FiniteSums, TLAPS

(* Only transfers that could be signed are ever open, handed to a worker,   *)
(* listed or submitted; only submitted ones execute.                        *)
OnlySendable ==
    /\ \A t \in Ids : Exists(t) /\ rows[t].state \in Open => Sendable(rows[t])
    /\ \A t \in Ids : net[t] => Exists(t) /\ Sendable(rows[t])
    /\ \A t \in Ids : chain[t] # "none" => net[t]
    /\ \A t \in DOMAIN todo : Exists(t) /\ Sendable(rows[t])
    /\ \A w \in Workers : worker[w].at \in {"submit", "waiting"} =>
            Exists(worker[w].id) /\ Sendable(rows[worker[w].id])

Sound == TypeOK /\ OnlySendable /\ OutcomeIsEvidence /\ RefundIsOwedOnce

------------------------------------------------------------------------------
LEMMA RowExists ==
    ASSUME TypeOK, NEW t \in Ids
    PROVE  Exists(t) <=> rows[t] \in Row
BY DEF TypeOK, Exists, NoRow, Row

(* A worker at a chain call names a row and the state it was read in. *)
LEMMA CallShape ==
    ASSUME TypeOK, NEW w \in Workers, worker[w].at \in {"submit", "waiting"}
    PROVE  worker[w].id \in Ids /\ worker[w].from \in Open
BY DEF TypeOK, Job, Idle

------------------------------------------------------------------------------
(* Sums of prices and of amounts. *)

LEMMA ValueIsSum == ASSUME NEW S PROVE Value(S) = SumOver(S, Price)
BY DEF Value, SumOver

(* Orders have positive prices: they are worth nothing only together when   *)
(* there are none.                                                          *)
LEMMA ValueOfOrders ==
    ASSUME NEW S \in SUBSET Orders
    PROVE  Value(S) \in Nat /\ (Value(S) = 0 <=> S = {})
<1>1. IsFiniteSet(S) /\ \A o \in S : Price[o] \in Nat \ {0}
    BY OrderPriceAssumption, FS_Subset
<1>2. SumOver(S, Price) \in Nat /\ \A o \in S : Price[o] <= SumOver(S, Price)
    BY <1>1, SumNat
<1>3. S = {} => SumOver(S, Price) = 0
    BY SumEmpty
<1> QED
    BY <1>1, <1>2, <1>3, ValueIsSum

(* Fewer orders are worth no more. *)
LEMMA ValueGrows ==
    ASSUME NEW S \in SUBSET Orders, NEW T \in SUBSET S
    PROVE  Value(T) <= Value(S)
<1>1. IsFiniteSet(S) /\ \A o \in S : Price[o] \in Nat
    BY OrderPriceAssumption, FS_Subset
<1>2. SumOver(S, Price) = SumOver(T, Price) + SumOver(S \ T, Price)
      /\ SumOver(T, Price) \in Nat /\ SumOver(S \ T, Price) \in Nat
    BY <1>1, SumPart
<1> QED
    BY <1>2, ValueIsSum

Credited == {o \in Orders : order[o] = "credited"}
Standing == {t \in Payouts : rows[t].state # "failed"}

LEMMA BalanceForm == BalanceIsExact <=> income = balance + SumOver(Standing, Amount)
BY DEF BalanceIsExact, Standing, Sum, SumOver

LEMMA BalanceFormNext == BalanceIsExact' <=> income' = balance' + SumOver(Standing', Amount')
BY DEF BalanceIsExact, Standing, Sum, SumOver, MapThenSumSet, MapThenFoldSet

LEMMA IdsFinite == IsFiniteSet(Ids) /\ \A T \in SUBSET Ids : IsFiniteSet(T)
<1>1. IsFiniteSet(Ids)
    BY BoundsAssumption, FS_Interval DEF Ids
<1> QED
    BY <1>1, FS_Subset

LEMMA Amounts ==
    ASSUME TypeOK
    PROVE  /\ \A t \in Ids : Amount[t] \in Nat
           /\ \A t \in Ids : Exists(t) => Amount[t] = rows[t].amount
BY RowExists DEF Amount, Row

LEMMA TickerWorks == Ticker \in Workers
BY DEF Workers

(* Recording an outcome in a row that is still as the caller read it. *)
LEMMA RecordKeepsTypes ==
    ASSUME TypeOK, OnlySendable, NEW t \in Ids, NEW from \in Open, NEW outcome \in States,
           Exists(t), recordTransfer(t, from, outcome), validAddress' = validAddress
    PROVE  /\ rows' \in [Ids -> Row \cup {NoRow}] /\ rank' \in [Ids -> Int] /\ balance' \in Nat
           /\ \A u \in Ids : /\ Exists(u)' <=> Exists(u)
                             /\ Exists(u) => /\ rows'[u].kind = rows[u].kind
                                             /\ rows'[u].orders = rows[u].orders
                                             /\ rows'[u].amount = rows[u].amount
                                             /\ Sendable(rows[u])' <=> Sendable(rows[u])
           /\ \A u \in Ids : rows'[u] = rows[u] \/ (u = t /\ rows[u].state = from /\ rows'[u].state = outcome)
<1>1. rows[t] \in Row
    BY RowExists
<1>2. CASE rows[t].state = from
    <2>1. rows' = [rows EXCEPT ![t] = Recorded(@, outcome)]
        BY <1>2 DEF recordTransfer, Unchanged
    <2>2. /\ rows'[t] \in Row /\ rows'[t].kind = rows[t].kind /\ rows'[t].orders = rows[t].orders
          /\ rows'[t].state = outcome /\ rows'[t].amount = rows[t].amount
        <3>1. rows'[t] = Recorded(rows[t], outcome)
            BY <2>1 DEF TypeOK
        <3>2. PICK age \in 0..2 : rows'[t] = [rows[t] EXCEPT !.state = outcome, !.age = age]
            <4>1. rows[t].age \in 0..2
                BY <1>1 DEF Row
            <4> DEFINE a == IF outcome \in Open THEN rows[t].age ELSE 0
            <4>2. a \in 0..2
                BY <4>1
            <4>3. rows'[t] = [rows[t] EXCEPT !.state = outcome, !.age = a]
                BY <3>1 DEF Recorded
            <4> HIDE DEF a
            <4> QED
                BY <4>2, <4>3
        <3> QED
            BY <1>1, <3>2 DEF Row
    <2>3. \A u \in Ids : u # t => rows'[u] = rows[u]
        BY <2>1 DEF TypeOK
    <2>4. rows' \in [Ids -> Row \cup {NoRow}]
        BY <2>1, <2>2, <2>3 DEF TypeOK
    <2>5. rank' \in [Ids -> Int]
        BY <1>2, BoundsAssumption DEF recordTransfer, Unchanged, Touched, TypeOK, Ids
    <2>6. balance' \in Nat
        BY <1>1, <1>2 DEF recordTransfer, Unchanged, TypeOK, Row
    <2>7. Exists(t)'
        BY <2>2 DEF Exists, NoRow, Row
    <2> QED
        BY <1>2, <2>2, <2>3, <2>4, <2>5, <2>6, <2>7 DEF Exists, Sendable
<1>3. CASE rows[t].state # from
    BY <1>3 DEF recordTransfer, Unchanged, TypeOK, Exists, Sendable
<1> QED
    BY <1>2, <1>3

LEMMA InitSound == Init => Sound
<1> SUFFICES ASSUME Init PROVE Sound
    OBVIOUS
<1>1. TypeOK
    <2>1. Idle \in Job
        BY DEF Job
    <2>2. worker \in [Workers -> Job]
        BY <2>1 DEF Init
    <2>3. rank \in [Ids -> Int]
        BY BoundsAssumption DEF Init, Ids
    <2> QED
        BY <2>2, <2>3 DEF Init, TypeOK, NoPass
<1>2. OnlySendable
    BY DEF Init, OnlySendable, Exists, Idle, NoPass
<1>3. OutcomeIsEvidence
    BY DEF Init, OutcomeIsEvidence, Exists
<1>4. RefundIsOwedOnce
    BY DEF Init, RefundIsOwedOnce, Refunds, Exists
<1> QED
    BY <1>1, <1>2, <1>3, <1>4 DEF Sound

LEMMA CreditKeeps == ASSUME Sound, NEW o \in Orders, Credit(o) PROVE Sound'
<1>1. TypeOK'
    <2>1. Price[o] \in Nat
        BY OrderPriceAssumption
    <2>2. balance' \in Nat /\ income' \in Nat
        BY <2>1 DEF Sound, TypeOK, Credit
    <2>3. order' \in [Orders -> {"outstanding", "credited", "refunded"}]
        BY DEF Sound, TypeOK, Credit
    <2> QED
        BY <2>2, <2>3 DEF Sound, TypeOK, Credit, steady
<1>2. OnlySendable' /\ OutcomeIsEvidence'
    BY DEF Sound, OnlySendable, OutcomeIsEvidence, Credit, Exists, Sendable, steady
<1>3. RefundIsOwedOnce'
    BY DEF Sound, TypeOK, RefundIsOwedOnce, Refunds, Exists, Credit, Outstanding
<1> QED
    BY <1>1, <1>2, <1>3 DEF Sound

------------------------------------------------------------------------------
(* Workers drop what they do, passes get shorter; nothing is taken up. *)
Shrinks ==
    /\ worker' \in [Workers -> Job]
    /\ \A w \in Workers : worker'[w] = worker[w] \/ worker'[w].at \notin {"submit", "waiting"}
    /\ DOMAIN todo' \subseteq DOMAIN todo
    /\ \A t \in DOMAIN todo' : todo'[t] = todo[t]

LEMMA FinishShrinks ==
    ASSUME TypeOK, NEW w \in Workers, Finish(w), UNCHANGED todo
    PROVE  Shrinks
<1>1. Idle \in Job
    BY DEF Job
<1> QED
    BY <1>1 DEF TypeOK, Finish, Shrinks, Idle

LEMMA PassedShrinks ==
    ASSUME TypeOK, NEW t \in Ids, Passed(t), UNCHANGED worker
    PROVE  Shrinks
BY DEF TypeOK, Passed, Shrinks

(* Only the bookkeeping of goroutines shrinks. *)
LEMMA ShrinkKeeps ==
    ASSUME Sound, Shrinks, UNCHANGED <<database, steady, chain, net>>
    PROVE  Sound'
<1>1. TypeOK'
    BY DEF Sound, TypeOK, Shrinks, database, steady
<1>2. OnlySendable'
    <2>1. \A t \in DOMAIN todo' : (Exists(t) /\ Sendable(rows[t]))'
        BY DEF Sound, OnlySendable, Shrinks, Exists, Sendable, database, steady
    <2>2. \A w \in Workers : worker'[w].at \in {"submit", "waiting"} =>
                (Exists(worker[w].id) /\ Sendable(rows[worker[w].id]))'
        BY DEF Sound, OnlySendable, Shrinks, Exists, Sendable, database, steady
    <2> QED
        BY <2>1, <2>2 DEF Sound, OnlySendable, Exists, Sendable, database, steady
<1>3. OutcomeIsEvidence' /\ RefundIsOwedOnce'
    BY DEF Sound, OutcomeIsEvidence, RefundIsOwedOnce, Refunds, Exists, database, steady
<1> QED
    BY <1>1, <1>2, <1>3 DEF Sound

(* An outcome with evidence is recorded in a row that can be sent. *)
LEMMA RecordKeeps ==
    ASSUME Sound, NEW t \in Ids, NEW from \in Open, NEW outcome \in States,
           Exists(t), Sendable(rows[t]), recordTransfer(t, from, outcome),
           outcome \in {"sent", "confirmed"} => chain[t] = "success",
           outcome = "failed" => chain[t] = "failure",
           Shrinks, UNCHANGED <<steady, chain, net>>
    PROVE  Sound'
<1> DEFINE Kept(u) ==
        /\ Exists(u)' <=> Exists(u)
        /\ Exists(u) => /\ rows'[u].kind = rows[u].kind
                        /\ rows'[u].orders = rows[u].orders
                        /\ Sendable(rows[u])' <=> Sendable(rows[u])
<1>1. /\ rows' \in [Ids -> Row \cup {NoRow}] /\ rank' \in [Ids -> Int] /\ balance' \in Nat
      /\ \A u \in Ids : Kept(u)
      /\ \A u \in Ids : rows'[u] = rows[u] \/ (u = t /\ rows[u].state = from /\ rows'[u].state = outcome)
    BY RecordKeepsTypes DEF Sound, steady
<1>2. TypeOK'
    BY <1>1 DEF Sound, TypeOK, Shrinks, recordTransfer, steady
<1>3. OnlySendable'
    <2>1. \A u \in Ids : (Exists(u) /\ rows[u].state \in Open => Sendable(rows[u]))'
        BY <1>1 DEF Sound, OnlySendable
    <2>2. \A u \in Ids : (net[u] => Exists(u) /\ Sendable(rows[u]))' /\ (chain[u] # "none" => net[u])'
        BY <1>1 DEF Sound, OnlySendable
    <2>3. \A u \in DOMAIN todo' : (Exists(u) /\ Sendable(rows[u]))'
        BY <1>1 DEF Sound, TypeOK, OnlySendable, Shrinks
    <2>4. ASSUME NEW w \in Workers, worker'[w].at \in {"submit", "waiting"}
          PROVE  (Exists(worker[w].id) /\ Sendable(rows[worker[w].id]))'
        <3>1. worker'[w] = worker[w] /\ worker[w].id \in Ids
            BY <2>4, CallShape DEF Sound, Shrinks
        <3> QED
            BY <1>1, <2>4, <3>1 DEF Sound, OnlySendable
    <2> HIDE DEF Kept
    <2> QED
        BY <2>1, <2>2, <2>3, <2>4 DEF OnlySendable
<1>4. OutcomeIsEvidence'
    <2> SUFFICES ASSUME NEW u \in Ids, Exists(u)'
                 PROVE  /\ rows'[u].state \in {"sent", "confirmed"} => chain'[u] = "success"
                        /\ rows'[u].state = "failed" =>
                              \/ chain'[u] = "failure"
                              \/ chain'[u] = "none" /\ ~net'[u] /\ rows'[u].kind = "refund" /\ ~validAddress'
        BY DEF OutcomeIsEvidence
    <2>1. CASE rows'[u] = rows[u]
        BY <1>1, <2>1 DEF Sound, OutcomeIsEvidence, steady
    <2>2. CASE u = t /\ rows'[u].state = outcome
        BY <2>2
    <2> QED
        BY <1>1, <2>1, <2>2
<1>5. RefundIsOwedOnce'
    <2>1. order' = order /\ Refunds' = Refunds
        BY <1>1 DEF Refunds, recordTransfer
    <2>2. \A u \in Refunds : rows'[u].orders = rows[u].orders
        BY <1>1 DEF Refunds
    <2> QED
        BY <2>1, <2>2 DEF Sound, RefundIsOwedOnce
<1> QED
    BY <1>2, <1>3, <1>4, <1>5 DEF Sound

------------------------------------------------------------------------------
(* A decision, its row and the worker that goes on with it. *)
LEMMA ReserveKeeps ==
    ASSUME Sound, NEW job, NEW t \in Ids, NEW w \in Workers,
           job.kind \in {"refund", "payout"}, job.orders \in SUBSET Orders, job.amount \in Nat,
           job.kind = "payout" => job.orders = {}, job.amount = 0 => job.orders = {},
           DecideAndReserve(job, t), Reserved(w, job, t)
    PROVE  Sound'
<1>1. /\ order' \in [Orders -> {"outstanding", "credited", "refunded"}]
      /\ status' \in {"paid", "refunded"}
    BY DEF Sound, TypeOK, DecideAndReserve
<1>2. balance' \in Nat
    BY DEF Sound, TypeOK, DecideAndReserve, Decides, Reservable, Remaining
<1>3. \A o \in job.orders : order[o] = "outstanding"
    BY DEF DecideAndReserve, Decides, StillOutstanding, Outstanding
<1>4. CASE job.amount = 0
    <2>1. UNCHANGED <<rows, rank, income, steady, chain, net, todo>>
        BY <1>4 DEF DecideAndReserve
    <2>2. Finish(w)
        BY <1>4 DEF Reserved, Finish
    <2>3. Shrinks
        BY <2>1, <2>2, FinishShrinks DEF Sound
    <2>4. order' = order
        BY <1>4 DEF Sound, TypeOK, DecideAndReserve
    <2>5. TypeOK'
        BY <1>1, <1>2, <2>1, <2>3 DEF Sound, TypeOK, Shrinks, steady
    <2>6. OnlySendable'
        <3>1. \A u \in DOMAIN todo' : (Exists(u) /\ Sendable(rows[u]))'
            BY <2>1 DEF Sound, OnlySendable, Exists, Sendable, steady
        <3>2. \A v \in Workers : worker'[v].at \in {"submit", "waiting"} =>
                    (Exists(worker[v].id) /\ Sendable(rows[worker[v].id]))'
            BY <2>1, <2>3 DEF Sound, OnlySendable, Shrinks, Exists, Sendable, steady
        <3> QED
            BY <2>1, <3>1, <3>2 DEF Sound, OnlySendable, Exists, Sendable, steady
    <2>7. OutcomeIsEvidence' /\ RefundIsOwedOnce'
        BY <2>1, <2>4 DEF Sound, OutcomeIsEvidence, RefundIsOwedOnce, Refunds, Exists, steady
    <2> QED
        BY <2>5, <2>6, <2>7 DEF Sound
<1>5. CASE job.amount # 0
    <2>1. /\ ~Exists(t) /\ rows' = [rows EXCEPT ![t] = NewRow(job)] /\ rank' = Touched(t)
          /\ UNCHANGED <<income, steady, chain, net, todo>>
        BY <1>5 DEF DecideAndReserve, NextId
    <2>2. rows'[t] = NewRow(job) /\ \A u \in Ids : u # t => rows'[u] = rows[u]
        BY <2>1 DEF Sound, TypeOK
    <2>3. /\ NewRow(job) \in Row
          /\ NewRow(job).kind = job.kind /\ NewRow(job).orders = job.orders
          /\ NewRow(job).state \in {"reserved", "failed"}
          /\ NewRow(job).state = "reserved" <=> Sendable(job)
        BY DEF NewRow, Row, States, Open
    <2>4. rows' \in [Ids -> Row \cup {NoRow}] /\ Exists(t)'
        BY <2>1, <2>2, <2>3 DEF Sound, TypeOK, Exists, NoRow, Row
    <2>5. rank' \in [Ids -> Int]
        BY <2>1, BoundsAssumption DEF Touched, Sound, TypeOK, Ids
    <2>6. \/ worker' = [worker EXCEPT ![w] = Calling(t, "reserved")] /\ Sendable(job)
          \/ worker' = [worker EXCEPT ![w] = Idle]
        BY DEF Reserved, Finish
    <2>7. worker' \in [Workers -> Job]
        <3>1. Idle \in Job /\ Calling(t, "reserved") \in Job
            BY DEF Job, Calling, Open
        <3> QED
            BY <2>6, <3>1 DEF Sound, TypeOK
    <2>8. TypeOK'
        BY <1>1, <1>2, <2>1, <2>4, <2>5, <2>7 DEF Sound, TypeOK, steady
    <2>9. net[t] = FALSE /\ chain[t] = "none" /\ t \notin DOMAIN todo
        BY <2>1 DEF Sound, TypeOK, OnlySendable
    <2>10. \A u \in Ids : u # t => (Exists(u)' <=> Exists(u)) /\ (Sendable(rows[u])' <=> Sendable(rows[u]))
        BY <2>1, <2>2 DEF Exists, Sendable, steady
    <2>11. Sendable(rows[t])' <=> Sendable(job)
        BY <2>1, <2>2, <2>3 DEF Sendable, steady
    <2>12. OnlySendable'
        <3>1. \A u \in Ids : (Exists(u) /\ rows[u].state \in Open => Sendable(rows[u]))'
            BY <2>2, <2>3, <2>10, <2>11 DEF Sound, OnlySendable, Open
        <3>2. \A u \in Ids : (net[u] => Exists(u) /\ Sendable(rows[u]))' /\ (chain[u] # "none" => net[u])'
            BY <2>1, <2>9, <2>10 DEF Sound, OnlySendable
        <3>3. \A u \in DOMAIN todo' : (Exists(u) /\ Sendable(rows[u]))'
            BY <2>1, <2>9, <2>10 DEF Sound, TypeOK, OnlySendable
        <3>4. ASSUME NEW v \in Workers, worker'[v].at \in {"submit", "waiting"}
              PROVE  (Exists(worker[v].id) /\ Sendable(rows[worker[v].id]))'
            <4>1. CASE v = w
                <5>1. worker'[w] = Calling(t, "reserved") /\ Sendable(job)
                    BY <2>6, <3>4, <4>1 DEF Sound, TypeOK, Idle
                <5> QED
                    BY <2>4, <2>11, <4>1, <5>1 DEF Calling
            <4>2. CASE v # w
                <5>1. worker'[v] = worker[v] /\ worker[v].id \in Ids /\ Exists(worker[v].id)
                      /\ Sendable(rows[worker[v].id])
                    BY <2>6, <3>4, <4>2, CallShape DEF Sound, TypeOK, OnlySendable
                <5> QED
                    BY <2>1, <2>10, <5>1
            <4> QED
                BY <4>1, <4>2
        <3> QED
            BY <3>1, <3>2, <3>3, <3>4 DEF OnlySendable
    <2>13. OutcomeIsEvidence'
        <3> SUFFICES ASSUME NEW u \in Ids, Exists(u)'
                     PROVE  /\ rows'[u].state \in {"sent", "confirmed"} => chain'[u] = "success"
                            /\ rows'[u].state = "failed" =>
                                  \/ chain'[u] = "failure"
                                  \/ chain'[u] = "none" /\ ~net'[u] /\ rows'[u].kind = "refund" /\ ~validAddress'
            BY DEF OutcomeIsEvidence
        <3>1. CASE u = t
            BY <2>1, <2>2, <2>3, <2>9, <3>1 DEF Sendable, steady
        <3>2. CASE u # t
            BY <2>1, <2>2, <2>10, <3>2 DEF Sound, OutcomeIsEvidence, steady
        <3> QED
            BY <3>1, <3>2
    <2>14. RefundIsOwedOnce'
        <3>1. Refunds' = IF job.kind = "refund" THEN Refunds \cup {t} ELSE Refunds
            BY <2>1, <2>2, <2>3, <2>4, <2>10 DEF Refunds
        <3>2. t \notin Refunds /\ \A u \in Refunds : u \in Ids /\ rows'[u].orders = rows[u].orders
            BY <2>1, <2>2 DEF Refunds
        <3>3. rows'[t].orders = job.orders
            BY <2>2, <2>3
        <3>4. \A o \in Orders : order'[o] = IF o \in job.orders THEN "refunded" ELSE order[o]
            BY DEF DecideAndReserve
        <3>5. \A o \in job.orders, u \in Refunds : o \notin rows[u].orders
            BY <1>3 DEF Sound, RefundIsOwedOnce
        <3>6. CASE job.kind = "payout"
            BY <3>1, <3>2, <3>4, <3>6 DEF Sound, RefundIsOwedOnce
        <3>7. CASE job.kind = "refund"
            BY <3>1, <3>2, <3>3, <3>4, <3>5, <3>7 DEF Sound, RefundIsOwedOnce
        <3> QED
            BY <3>6, <3>7
    <2> QED
        BY <2>8, <2>12, <2>13, <2>14 DEF Sound
<1> QED
    BY <1>4, <1>5

LEMMA RefundJobShape ==
    ASSUME NEW job \in RefundJobs
    PROVE  /\ job.kind = "refund" /\ job.orders \in SUBSET Orders /\ job.amount = Value(job.orders)
           /\ job.amount \in Nat /\ (job.amount = 0 <=> job.orders = {})
<1>1. PICK S \in SUBSET Orders, whole \in BOOLEAN : job = Refund(S, whole)
    <2>1. CASE \E o \in Orders : job = Refund({o}, FALSE)
        BY <2>1
    <2>2. CASE \E S \in SUBSET Orders : job = Refund(S, TRUE)
        BY <2>2
    <2> QED
        BY <2>1, <2>2 DEF RefundJobs
<1> QED
    BY <1>1, ValueOfOrders DEF Refund

LEMMA RefundKeeps == ASSUME Sound, NEW w \in Workers, RefundOnChain(w) PROVE Sound'
<1>1. PICK job \in RefundJobs, t \in Ids : DecideAndReserve(job, t) /\ Reserved(w, job, t)
    BY DEF RefundOnChain
<1> QED
    BY <1>1, RefundJobShape, ReserveKeeps

LEMMA PayoutKeeps == ASSUME Sound, ReservePayout PROVE Sound'
<1> DEFINE job == [kind |-> "payout", orders |-> {}, amount |-> worker[Ticker].amount, whole |-> FALSE]
<1>1. PICK t \in Ids : DecideAndReserve(job, t) /\ Reserved(Ticker, job, t)
    BY DEF ReservePayout
<1>2. job.kind = "payout" /\ job.orders = {} /\ job.amount = worker[Ticker].amount
    OBVIOUS
<1>3. worker[Ticker].amount \in Nat
    BY TickerWorks DEF Sound, TypeOK, ReservePayout, Job, Idle
<1> HIDE DEF job
<1> QED
    BY <1>1, <1>2, <1>3, TickerWorks, ReserveKeeps

LEMMA PayoutExecutorKeeps == ASSUME Sound, PayoutExecutor PROVE Sound'
<1>1. [at |-> "prepared", amount |-> balance] \in Job
    BY DEF Sound, TypeOK, Job
<1>2. Shrinks
    BY <1>1 DEF Sound, TypeOK, PayoutExecutor, Shrinks
<1> QED
    BY <1>2, ShrinkKeeps DEF PayoutExecutor

LEMMA SubmitKeeps == ASSUME Sound, NEW w \in Workers, Submit(w) PROVE Sound'
<1>1. /\ worker[w].id \in Ids /\ worker[w].from \in Open
      /\ Exists(worker[w].id) /\ Sendable(rows[worker[w].id])
    BY CallShape DEF Sound, OnlySendable, Submit
<1>2. worker[w] \in [at : {"submit", "waiting"}, id : Ids, from : Open]
    BY DEF Sound, TypeOK, Submit, Job, Idle
<1>3. [worker[w] EXCEPT !.at = "waiting"] \in [at : {"submit", "waiting"}, id : Ids, from : Open]
    BY <1>2
<1>4. worker' = [worker EXCEPT ![w] = [worker[w] EXCEPT !.at = "waiting"]]
    BY DEF Submit, Sound, TypeOK
<1>5. worker' \in [Workers -> Job]
    BY <1>3, <1>4 DEF Sound, TypeOK, Job
<1>6. TypeOK'
    BY <1>1, <1>5 DEF Sound, TypeOK, Submit, database, steady
<1>7. \A v \in Workers : worker'[v].id = worker[v].id /\ (v # w => worker'[v] = worker[v])
    BY <1>2, <1>4 DEF Sound, TypeOK
<1>8. OnlySendable'
    <2>1. \A u \in Ids : (net[u] => Exists(u) /\ Sendable(rows[u]))' /\ (chain[u] # "none" => net[u])'
        BY <1>1 DEF Sound, TypeOK, OnlySendable, Submit, Exists, Sendable, database, steady
    <2>2. \A v \in Workers : worker'[v].at \in {"submit", "waiting"} =>
                (Exists(worker[v].id) /\ Sendable(rows[worker[v].id]))'
        BY <1>1, <1>7 DEF Sound, OnlySendable, Submit, Exists, Sendable, database, steady
    <2> QED
        BY <2>1, <2>2 DEF Sound, OnlySendable, Submit, Exists, Sendable, database, steady
<1>9. OutcomeIsEvidence' /\ RefundIsOwedOnce'
    BY <1>1 DEF Sound, TypeOK, OutcomeIsEvidence, RefundIsOwedOnce, Refunds, Submit, Exists, Sendable, database, steady
<1> QED
    BY <1>6, <1>8, <1>9 DEF Sound

LEMMA ExecuteKeeps ==
    ASSUME Sound, NEW t \in Ids, NEW r \in {"success", "failure"}, Execute(t, r)
    PROVE  Sound'
<1>1. TypeOK'
    BY DEF Sound, TypeOK, Execute, database, steady
<1>2. OnlySendable'
    BY DEF Sound, TypeOK, OnlySendable, Execute, Exists, Sendable, database, steady
<1>3. OutcomeIsEvidence' /\ RefundIsOwedOnce'
    BY DEF Sound, TypeOK, OutcomeIsEvidence, RefundIsOwedOnce, Refunds, Execute, Exists, database, steady
<1> QED
    BY <1>1, <1>2, <1>3 DEF Sound

LEMMA ListKeeps == ASSUME Sound, ReconcileTransfers PROVE Sound'
<1>1. \A t \in Listed : t \in Ids /\ Exists(t) /\ rows[t].state \in Open
    BY DEF Listed, ListedRow, Unresolved, Open
<1>2. DOMAIN todo' = Listed /\ \A t \in Listed : todo'[t] = rows[t].state
    BY DEF ReconcileTransfers
<1>3. TypeOK'
    BY <1>1, <1>2 DEF Sound, TypeOK, ReconcileTransfers, database, steady
<1>4. \A t \in DOMAIN todo' : (Exists(t) /\ Sendable(rows[t]))'
    BY <1>1, <1>2 DEF Sound, OnlySendable, ReconcileTransfers, Exists, Sendable, database, steady
<1>5. OnlySendable'
    BY <1>4 DEF Sound, OnlySendable, ReconcileTransfers, Exists, Sendable, database, steady
<1>6. OutcomeIsEvidence' /\ RefundIsOwedOnce'
    BY DEF Sound, OutcomeIsEvidence, RefundIsOwedOnce, Refunds, ReconcileTransfers, Exists, database, steady
<1> QED
    BY <1>3, <1>5, <1>6 DEF Sound

LEMMA LookupKeeps ==
    ASSUME Sound, NEW t \in Ids, NEW a \in Lookup, reconcileTransfer(t, a)
    PROVE  Sound'
<1>1. t \in DOMAIN todo /\ Exists(t) /\ Sendable(rows[t]) /\ todo[t] \in Open
    BY DEF Sound, TypeOK, OnlySendable, reconcileTransfer, IsNext
<1>2. /\ DOMAIN todo' \subseteq DOMAIN todo /\ \A u \in DOMAIN todo' : todo'[u] = todo[u]
      /\ UNCHANGED <<steady, chain, net>>
    BY DEF reconcileTransfer, Passed
<1>3. CASE a = "notfound" /\ Resubmits(t, todo[t])
    <2>1. worker' = [worker EXCEPT ![Ticker] = Calling(t, todo[t])] /\ UNCHANGED database
        BY <1>3 DEF reconcileTransfer
    <2>2. Calling(t, todo[t]) \in Job
        BY <1>1 DEF Job, Calling
    <2>3. TypeOK'
        BY <1>2, <2>1, <2>2 DEF Sound, TypeOK, database, steady
    <2>4. \A u \in DOMAIN todo' : (Exists(u) /\ Sendable(rows[u]))'
        BY <1>2, <2>1 DEF Sound, OnlySendable, Exists, Sendable, database, steady
    <2>5. \A v \in Workers : worker'[v].at \in {"submit", "waiting"} =>
                (Exists(worker[v].id) /\ Sendable(rows[worker[v].id]))'
        <3>1. worker'[Ticker] = Calling(t, todo[t]) /\ \A v \in Workers : v # Ticker => worker'[v] = worker[v]
            BY <2>1, TickerWorks DEF Sound, TypeOK
        <3> QED
            BY <1>1, <1>2, <2>1, <3>1 DEF Sound, OnlySendable, Calling, Exists, Sendable, database, steady
    <2>6. OnlySendable'
        BY <1>2, <2>1, <2>4, <2>5 DEF Sound, OnlySendable, Exists, Sendable, database, steady
    <2>7. OutcomeIsEvidence' /\ RefundIsOwedOnce'
        BY <1>2, <2>1 DEF Sound, OutcomeIsEvidence, RefundIsOwedOnce, Refunds, Exists, database, steady
    <2> QED
        BY <2>3, <2>6, <2>7 DEF Sound
<1>4. CASE ~(a = "notfound" /\ Resubmits(t, todo[t]))
    <2> DEFINE outcome == lookedUp(t, todo[t], a)
    <2>1. recordTransfer(t, todo[t], outcome) /\ UNCHANGED worker /\ Passed(t)
        BY <1>4 DEF reconcileTransfer
    <2>2. /\ outcome \in States
          /\ outcome \in {"sent", "confirmed"} => chain[t] = "success"
          /\ outcome = "failed" => chain[t] = "failure"
        BY DEF lookedUp, reconcileTransfer, Answers, States, Open
    <2>3. Shrinks
        BY <2>1, PassedShrinks DEF Sound
    <2> HIDE DEF outcome
    <2> QED
        BY <1>1, <1>2, <2>1, <2>2, <2>3, RecordKeeps
<1> QED
    BY <1>3, <1>4

LEMMA RecordStepKeeps ==
    ASSUME Sound, NEW w \in Workers, NEW x \in States, Record(w, x)
    PROVE  Sound'
<1>1. /\ worker[w].id \in Ids /\ worker[w].from \in Open
      /\ Exists(worker[w].id) /\ Sendable(rows[worker[w].id])
    BY CallShape DEF Sound, OnlySendable, Record
<1>2. Shrinks
    BY FinishShrinks DEF Sound, Record
<1>3. /\ x \in {"sent", "confirmed"} => chain[worker[w].id] = "success"
      /\ x = "failed" => chain[worker[w].id] = "failure"
    BY DEF Record, executionOutcome
<1> QED
    BY <1>1, <1>2, <1>3, RecordKeeps DEF Record

LEMMA NotBroadcastKeeps == ASSUME Sound, NotBroadcast PROVE Sound'
<1>1. /\ worker[Ticker].id \in Ids /\ worker[Ticker].from \in Open
      /\ Exists(worker[Ticker].id) /\ Sendable(rows[worker[Ticker].id])
    BY CallShape, TickerWorks DEF Sound, OnlySendable, NotBroadcast
<1>2. Shrinks
    BY FinishShrinks, TickerWorks DEF Sound, NotBroadcast
<1>3. "unknown" \in States
    BY DEF States, Open
<1> QED
    BY <1>1, <1>2, <1>3, RecordKeeps DEF NotBroadcast

(* Ageing changes nothing else of a row. *)
LEMMA AgeChanges ==
    ASSUME TypeOK, NEW t \in Ids, Age(t)
    PROVE  /\ rows' \in [Ids -> Row \cup {NoRow}]
           /\ \A u \in Ids : /\ Exists(u)' <=> Exists(u)
                             /\ Sendable(rows[u])' <=> Sendable(rows[u])
                             /\ rows'[u].state = rows[u].state /\ rows'[u].kind = rows[u].kind
                             /\ rows'[u].orders = rows[u].orders /\ rows'[u].amount = rows[u].amount
<1>1. rows[t] \in Row
    BY RowExists DEF Age
<1>2. PICK a \in 0..2 : rows' = [rows EXCEPT ![t] = [rows[t] EXCEPT !.age = a]]
    <2> DEFINE a == IF rows[t].age = 0 /\ rows[t].state = "reserved" THEN 1 ELSE 2
    <2>1. a \in 0..2
        OBVIOUS
    <2>2. rows' = [rows EXCEPT ![t] = [rows[t] EXCEPT !.age = a]]
        BY DEF Age, TypeOK
    <2> HIDE DEF a
    <2> QED
        BY <2>1, <2>2
<1>3. /\ rows'[t] \in Row /\ rows'[t].kind = rows[t].kind /\ rows'[t].orders = rows[t].orders
      /\ rows'[t].state = rows[t].state /\ rows'[t].amount = rows[t].amount
      /\ \A u \in Ids : u # t => rows'[u] = rows[u]
    BY <1>1, <1>2 DEF TypeOK, Row
<1>4. rows' \in [Ids -> Row \cup {NoRow}]
    BY <1>2, <1>3 DEF TypeOK
<1> QED
    BY <1>1, <1>3, <1>4 DEF Exists, Sendable, NoRow, Row, Age, steady

LEMMA AgeKeeps == ASSUME Sound, NEW t \in Ids, Age(t) PROVE Sound'
<1>4. rows' \in [Ids -> Row \cup {NoRow}]
    BY AgeChanges DEF Sound
<1>5. TypeOK'
    BY <1>4 DEF Sound, TypeOK, Age, steady
<1>6. \A u \in Ids : /\ Exists(u)' <=> Exists(u)
                     /\ Sendable(rows[u])' <=> Sendable(rows[u])
                     /\ rows'[u].state = rows[u].state /\ rows'[u].kind = rows[u].kind
                     /\ rows'[u].orders = rows[u].orders
    BY AgeChanges DEF Sound
<1>7. \A v \in Workers : worker[v].at \in {"submit", "waiting"} => worker[v].id \in Ids
    BY CallShape DEF Sound
<1>8. OnlySendable'
    BY <1>6, <1>7 DEF Sound, TypeOK, OnlySendable, Age
<1>9. OutcomeIsEvidence' /\ RefundIsOwedOnce'
    <2>1. Refunds' = Refunds
        BY <1>6 DEF Refunds
    <2>2. RefundIsOwedOnce'
        BY <1>6, <2>1 DEF Sound, RefundIsOwedOnce, Refunds, Age
    <2>3. OutcomeIsEvidence'
        BY <1>6 DEF Sound, OutcomeIsEvidence, Age, steady
    <2> QED
        BY <2>2, <2>3
<1> QED
    BY <1>5, <1>8, <1>9 DEF Sound

LEMMA CrashKeeps == ASSUME Sound, Crash PROVE Sound'
<1>1. Idle \in Job
    BY DEF Job
<1>2. Shrinks
    BY <1>1 DEF Crash, Shrinks, Idle, NoPass
<1> QED
    BY <1>2, ShrinkKeeps DEF Crash

LEMMA CalmKeeps == ASSUME Sound, Calm PROVE Sound'
BY DEF Sound, TypeOK, OnlySendable, OutcomeIsEvidence, RefundIsOwedOnce, Refunds, Calm, Exists, Sendable, database

------------------------------------------------------------------------------
LEMMA StepKeepsSound == Sound /\ [Next]_vars => Sound'
<1> SUFFICES ASSUME Sound, [Next]_vars PROVE Sound'
    OBVIOUS
<1>1. CASE UNCHANGED vars
    BY <1>1 DEF Sound, TypeOK, OnlySendable, OutcomeIsEvidence, RefundIsOwedOnce, Refunds, vars, database, steady,
        Exists, Sendable
<1>2. CASE \E o \in Orders : Credit(o)
    BY <1>2, CreditKeeps
<1>3. CASE \E w \in Callers : RefundOnChain(w)
    BY <1>3, RefundKeeps DEF Workers
<1>4. CASE PayoutExecutor
    BY <1>4, PayoutExecutorKeeps
<1>5. CASE ReservePayout
    BY <1>5, PayoutKeeps
<1>6. CASE PayoutNotReserved
    BY <1>6, TickerWorks, FinishShrinks, ShrinkKeeps DEF PayoutNotReserved, Sound
<1>7. CASE \E w \in Workers : Proceed(w)
    BY <1>7, SubmitKeeps, RecordStepKeeps DEF Proceed
<1>8. CASE \E w \in Workers : RecordFails(w)
    BY <1>8, FinishShrinks, ShrinkKeeps DEF RecordFails, Sound
<1>9. CASE \E t \in Ids, r \in {"success", "failure"} : Execute(t, r)
    BY <1>9, ExecuteKeeps
<1>10. CASE ReconcileTransfers
    BY <1>10, ListKeeps
<1>11. CASE \E t \in Ids, a \in Lookup : reconcileTransfer(t, a)
    BY <1>11, LookupKeeps
<1>12. CASE NotBroadcast
    BY <1>12, NotBroadcastKeeps
<1>13. CASE \E t \in Ids : LookupNotRecorded(t)
    BY <1>13, PassedShrinks, ShrinkKeeps DEF LookupNotRecorded, Sound
<1>14. CASE \E t \in Ids : Age(t)
    BY <1>14, AgeKeeps
<1>15. CASE Crash
    BY <1>15, CrashKeeps
<1>16. CASE Calm
    BY <1>16, CalmKeeps
<1> QED
    BY <1>1, <1>2, <1>3, <1>4, <1>5, <1>6, <1>7, <1>8, <1>9, <1>10, <1>11, <1>12, <1>13, <1>14, <1>15, <1>16 DEF Next

LEMMA AlwaysSound == Spec => []Sound
BY InitSound, StepKeepsSound, PTL DEF Spec

------------------------------------------------------------------------------
(* The accounts.  What was earned is what the credited orders cost, and a   *)
(* row is only written when it moves something.                             *)
IncomeIsCredits == income = Value(Credited)
RowsMoveMoney == \A t \in Ids : Exists(t) => rows[t].amount > 0
Accounts == BalanceIsExact /\ IncomeIsCredits /\ RowsMoveMoney

(* Steps that leave the database alone, and steps that change nothing of    *)
(* a row but its age, leave the accounts alone.                             *)
LEMMA SameAccounts ==
    ASSUME Sound, Accounts, UNCHANGED <<order, balance, income>>,
           \A t \in Ids : /\ Exists(t)' <=> Exists(t)
                          /\ rows'[t].kind = rows[t].kind /\ rows'[t].state = rows[t].state
                          /\ rows'[t].amount = rows[t].amount
    PROVE  Accounts'
<1>1. Standing' = Standing /\ Amount' = Amount
    BY DEF Standing, Payouts, Amount
<1>2. BalanceIsExact'
    BY <1>1, BalanceForm, BalanceFormNext DEF Accounts
<1>3. IncomeIsCredits'
    <2>1. Credited' = Credited
        BY DEF Credited
    <2>2. Value(Credited') = Value(Credited)
        BY <2>1
    <2> QED
        BY <2>2 DEF Accounts, IncomeIsCredits, Value, MapThenSumSet, MapThenFoldSet
<1>4. RowsMoveMoney'
    BY DEF Accounts, RowsMoveMoney
<1> QED
    BY <1>2, <1>3, <1>4 DEF Accounts

(* A credited order adds its price on both sides. *)
LEMMA CreditAccounts == ASSUME Sound, Accounts, NEW o \in Orders, Credit(o) PROVE Accounts'
<1>1. Standing' = Standing /\ Amount' = Amount
    BY DEF Standing, Payouts, Amount, Exists, Credit
<1>2. Price[o] \in Nat /\ balance \in Nat /\ income \in Nat
    BY OrderPriceAssumption DEF Sound, TypeOK
<1>3. SumOver(Standing, Amount) \in Nat
    BY IdsFinite, Amounts, SumNat DEF Standing, Payouts, Sound
<1>4. BalanceIsExact'
    BY <1>1, <1>2, <1>3, BalanceForm, BalanceFormNext DEF Accounts, Credit
<1>5. Credited' = Credited \cup {o} /\ o \notin Credited
    BY DEF Credited, Credit, Outstanding, Sound, TypeOK
<1>6. SumOver(Credited \cup {o}, Price) = SumOver(Credited, Price) + Price[o]
    <2>1. IsFiniteSet(Credited) /\ \A p \in Credited : Price[p] \in Int
        BY OrderPriceAssumption, FS_Subset DEF Credited
    <2> QED
        BY <1>2, <1>5, <2>1, SumAdd
<1>7. IncomeIsCredits'
    <2>1. income' = Value(Credited')
        BY <1>2, <1>5, <1>6, ValueIsSum DEF Accounts, IncomeIsCredits, Credit
    <2> QED
        BY <2>1 DEF IncomeIsCredits, Value, MapThenSumSet, MapThenFoldSet
<1>8. RowsMoveMoney'
    BY DEF Accounts, RowsMoveMoney, Credit, Exists
<1> QED
    BY <1>4, <1>7, <1>8 DEF Accounts

(* A payout that becomes failed gives its amount back to the balance; no    *)
(* other outcome moves anything.                                            *)
LEMMA RecordAccounts ==
    ASSUME Sound, Accounts, NEW t \in Ids, NEW from \in Open, NEW outcome \in States,
           Exists(t), recordTransfer(t, from, outcome), UNCHANGED validAddress
    PROVE  Accounts'
<1>1. CASE rows[t].state # from
    BY <1>1, SameAccounts DEF recordTransfer, Unchanged, Exists
<1>2. CASE rows[t].state = from
    <2>1. rows' = [rows EXCEPT ![t] = Recorded(@, outcome)]
        BY <1>2 DEF recordTransfer, Unchanged
    <2>2. rows[t] \in Row
        BY RowExists DEF Sound
    <2>3. /\ rows'[t].kind = rows[t].kind /\ rows'[t].state = outcome
          /\ rows'[t].amount = rows[t].amount
          /\ \A u \in Ids : u # t => rows'[u] = rows[u]
        BY <2>1, <2>2 DEF Sound, TypeOK, Recorded, Row
    <2>4. \A u \in Ids : Exists(u)' <=> Exists(u)
        BY RecordKeepsTypes DEF Sound
    <2>5. Amount' = Amount
        BY <2>3, <2>4 DEF Amount
    <2>6. Payouts' = Payouts
        BY <2>3, <2>4 DEF Payouts
    <2>7. from # "failed"
        BY DEF Open
    <2>8. order' = order /\ income' = income
        BY DEF recordTransfer
    <2>9. BalanceIsExact'
        <3>1. /\ IsFiniteSet(Standing) /\ \A u \in Standing : Amount[u] \in Nat
              /\ Amount[t] = rows[t].amount /\ rows[t].amount \in Nat /\ balance \in Nat /\ income \in Nat
            BY <2>2, IdsFinite, Amounts DEF Standing, Payouts, Sound, TypeOK, Row
        <3>2. SumOver(Standing, Amount) \in Nat
            BY <3>1, SumNat
        <3>3. CASE outcome = "failed" /\ rows[t].kind = "payout"
            <4>1. t \in Standing /\ Standing' = Standing \ {t}
                BY <1>2, <2>3, <2>6, <2>7, <3>3 DEF Standing, Payouts
            <4>2. balance' = balance + rows[t].amount
                BY <1>2, <3>3 DEF recordTransfer, Unchanged
            <4>3. SumOver(Standing, Amount) = Amount[t] + SumOver(Standing \ {t}, Amount)
                BY <3>1, <4>1, SumRemove
            <4>4. SumOver(Standing \ {t}, Amount) \in Int
                <5> DEFINE U == Standing \ {t}
                <5>1. IsFiniteSet(U) /\ \A u \in U : Amount[u] \in Int
                    BY <3>1, FS_Subset
                <5> HIDE DEF U
                <5>2. SumOver(U, Amount) \in Int
                    BY <5>1, SumInt
                <5> QED
                    BY <5>2 DEF U
            <4> QED
                BY <2>5, <2>8, <3>1, <3>2, <4>1, <4>2, <4>3, <4>4, BalanceForm, BalanceFormNext DEF Accounts
        <3>4. CASE ~(outcome = "failed" /\ rows[t].kind = "payout")
            <4>1. Standing' = Standing
                BY <1>2, <2>3, <2>6, <2>7, <3>4 DEF Standing, Payouts
            <4>2. balance' = balance
                BY <1>2, <3>4 DEF recordTransfer, Unchanged
            <4> QED
                BY <2>5, <2>8, <4>1, <4>2, BalanceForm, BalanceFormNext DEF Accounts
        <3> QED
            BY <3>3, <3>4
    <2>10. IncomeIsCredits'
        <3>1. Credited' = Credited
            BY <2>8 DEF Credited
        <3>2. income' = Value(Credited')
            BY <2>8, <3>1 DEF Accounts, IncomeIsCredits
        <3> QED
            BY <3>2 DEF IncomeIsCredits, Value, MapThenSumSet, MapThenFoldSet
    <2>11. RowsMoveMoney'
        BY <2>3, <2>4 DEF Accounts, RowsMoveMoney
    <2> QED
        BY <2>9, <2>10, <2>11 DEF Accounts
<1> QED
    BY <1>1, <1>2

(* A reserved payout takes its amount out of the balance; a refund takes    *)
(* orders that were not credited.                                           *)
LEMMA ReserveAccounts ==
    ASSUME Sound, Accounts, NEW job, NEW t \in Ids,
           job.kind \in {"refund", "payout"}, job.orders \in SUBSET Orders, job.amount \in Nat,
           job.kind = "payout" => job.orders = {}, job.amount = 0 => job.orders = {},
           DecideAndReserve(job, t)
    PROVE  Accounts'
<1>1. \A o \in job.orders : order[o] = "outstanding"
    BY DEF DecideAndReserve, Decides, StillOutstanding, Outstanding
<1>2. income' = income /\ Credited' = Credited
    BY <1>1 DEF DecideAndReserve, Credited
<1>3. IncomeIsCredits'
    <2>1. income' = Value(Credited')
        BY <1>2 DEF Accounts, IncomeIsCredits
    <2> QED
        BY <2>1 DEF IncomeIsCredits, Value, MapThenSumSet, MapThenFoldSet
<1>4. CASE job.amount = 0
    <2>1. rows' = rows /\ balance' = balance
        BY <1>4 DEF DecideAndReserve, Remaining, Sound, TypeOK
    <2>2. Standing' = Standing /\ Amount' = Amount
        BY <2>1 DEF Standing, Payouts, Amount, Exists
    <2>3. BalanceIsExact'
        BY <1>2, <2>1, <2>2, BalanceForm, BalanceFormNext DEF Accounts
    <2>4. RowsMoveMoney'
        BY <2>1 DEF Accounts, RowsMoveMoney, Exists
    <2> QED
        BY <1>3, <2>3, <2>4 DEF Accounts
<1>5. CASE job.amount # 0
    <2>1. ~Exists(t) /\ rows' = [rows EXCEPT ![t] = NewRow(job)]
        BY <1>5 DEF DecideAndReserve, NextId
    <2>2. /\ rows'[t] = NewRow(job) /\ \A u \in Ids : u # t => rows'[u] = rows[u]
          /\ NewRow(job) # NoRow /\ NewRow(job).kind = job.kind /\ NewRow(job).amount = job.amount
        BY <2>1 DEF Sound, TypeOK, NewRow, NoRow
    <2>3. Exists(t)' /\ \A u \in Ids : u # t => (Exists(u)' <=> Exists(u))
        BY <2>2 DEF Exists
    <2>4. t \notin Standing /\ Standing \subseteq Ids
        BY <2>1 DEF Standing, Payouts
    <2>5. \A u \in Standing : Amount'[u] = Amount[u]
        BY <2>2, <2>3, <2>4 DEF Amount
    <2>6. /\ IsFiniteSet(Standing) /\ \A u \in Standing : Amount[u] \in Nat
          /\ balance \in Nat /\ income \in Nat
        BY <2>4, IdsFinite, Amounts DEF Sound, TypeOK
    <2>7. SumOver(Standing, Amount') = SumOver(Standing, Amount) /\ SumOver(Standing, Amount) \in Nat
        BY <2>5, <2>6, SumSame, SumNat
    <2>8. BalanceIsExact'
        <3>1. CASE job.kind = "payout"
            <4>1. Standing' = Standing \cup {t}
                BY <2>2, <2>3, <3>1 DEF Standing, Payouts, NewRow, Sendable
            <4>2. balance' = balance - job.amount
                BY <3>1 DEF DecideAndReserve, Remaining
            <4>3. Amount'[t] = job.amount
                BY <2>2, <2>3 DEF Amount
            <4>4. SumOver(Standing \cup {t}, Amount') = SumOver(Standing, Amount') + Amount'[t]
                <5>1. \A u \in Standing : Amount'[u] \in Int
                    BY <2>5, <2>6
                <5> DEFINE f == Amount'
                <5>2. \A u \in Standing : f[u] \in Int
                    BY <5>1
                <5>3. f[t] \in Int
                    BY <4>3
                <5> HIDE DEF f
                <5>4. SumOver(Standing \cup {t}, f) = SumOver(Standing, f) + f[t]
                    BY <2>4, <2>6, <5>2, <5>3, SumAdd
                <5> QED
                    BY <5>4 DEF f
            <4>5. income' = balance' + SumOver(Standing', Amount')
                BY <1>2, <2>6, <2>7, <4>1, <4>2, <4>3, <4>4, BalanceForm DEF Accounts
            <4> QED
                BY <4>5, BalanceFormNext
        <3>2. CASE job.kind = "refund"
            <4>1. Standing' = Standing
                BY <2>1, <2>2, <2>3, <3>2 DEF Standing, Payouts
            <4>2. balance' = balance
                BY <3>2 DEF DecideAndReserve
            <4>3. income' = balance' + SumOver(Standing', Amount')
                BY <1>2, <2>7, <4>1, <4>2, BalanceForm DEF Accounts
            <4> QED
                BY <4>3, BalanceFormNext
        <3> QED
            BY <3>1, <3>2
    <2>9. RowsMoveMoney'
        BY <1>5, <2>2, <2>3 DEF Accounts, RowsMoveMoney
    <2> QED
        BY <1>3, <2>8, <2>9 DEF Accounts
<1> QED
    BY <1>4, <1>5

(* Every step keeps the accounts. *)
LEMMA StepKeepsAccounts == Sound /\ Accounts /\ [Next]_vars => Accounts'
<1> SUFFICES ASSUME Sound, Accounts, [Next]_vars PROVE Accounts'
    OBVIOUS
<1>1. CASE UNCHANGED database
    BY <1>1, SameAccounts DEF database, Exists
<1>2. CASE \E o \in Orders : Credit(o)
    BY <1>2, CreditAccounts
<1>3. ASSUME NEW w \in Callers, RefundOnChain(w) PROVE Accounts'
    <2>1. PICK job \in RefundJobs, t \in Ids : DecideAndReserve(job, t)
        BY <1>3 DEF RefundOnChain
    <2> QED
        BY <2>1, RefundJobShape, ReserveAccounts
<1>4. CASE ReservePayout
    <2> DEFINE job == [kind |-> "payout", orders |-> {}, amount |-> worker[Ticker].amount, whole |-> FALSE]
    <2>1. PICK t \in Ids : DecideAndReserve(job, t)
        BY <1>4 DEF ReservePayout
    <2>2. job.kind = "payout" /\ job.orders = {} /\ job.amount = worker[Ticker].amount
        OBVIOUS
    <2>3. worker[Ticker].amount \in Nat
        BY <1>4, TickerWorks DEF Sound, TypeOK, ReservePayout, Job, Idle
    <2> HIDE DEF job
    <2> QED
        BY <2>1, <2>2, <2>3, ReserveAccounts
<1>5. ASSUME NEW w \in Workers, NEW x \in States, Record(w, x) PROVE Accounts'
    <2>1. worker[w].id \in Ids /\ worker[w].from \in Open /\ Exists(worker[w].id)
        BY <1>5, CallShape DEF Sound, OnlySendable, Record
    <2> QED
        BY <1>5, <2>1, RecordAccounts DEF Record, steady
<1>6. ASSUME NEW t \in Ids, NEW a \in Lookup, reconcileTransfer(t, a) PROVE Accounts'
    <2>1. Exists(t) /\ todo[t] \in Open
        BY <1>6 DEF Sound, TypeOK, OnlySendable, reconcileTransfer, IsNext
    <2>2. lookedUp(t, todo[t], a) \in States
        BY DEF lookedUp, States, Open
    <2> QED
        BY <1>1, <1>6, <2>1, <2>2, RecordAccounts DEF reconcileTransfer, steady
<1>7. CASE NotBroadcast
    <2>1. worker[Ticker].id \in Ids /\ worker[Ticker].from \in Open /\ Exists(worker[Ticker].id)
        BY <1>7, CallShape, TickerWorks DEF Sound, OnlySendable, NotBroadcast
    <2>2. "unknown" \in States
        BY DEF States, Open
    <2> QED
        BY <1>7, <2>1, <2>2, RecordAccounts DEF NotBroadcast, steady
<1>8. ASSUME NEW t \in Ids, Age(t) PROVE Accounts'
    <2>1. /\ UNCHANGED <<order, balance, income>>
          /\ \A u \in Ids : /\ Exists(u)' <=> Exists(u)
                            /\ rows'[u].kind = rows[u].kind /\ rows'[u].state = rows[u].state
                            /\ rows'[u].amount = rows[u].amount
        BY <1>8, AgeChanges DEF Sound, Age
    <2> QED
        BY <2>1, SameAccounts
<1>9. CASE UNCHANGED vars
    BY <1>1, <1>9 DEF vars
<1> QED
    BY <1>1, <1>2, <1>3, <1>4, <1>5, <1>6, <1>7, <1>8, <1>9 DEF Next, Proceed, PayoutExecutor, PayoutNotReserved,
        Submit, RecordFails, Execute, ReconcileTransfers, LookupNotRecorded, Crash, Calm

LEMMA InitAccounts == Init => Accounts
<1> SUFFICES ASSUME Init PROVE Accounts
    OBVIOUS
<1>1. Standing = {} /\ Credited = {}
    BY DEF Init, Standing, Payouts, Exists, Credited
<1>2. BalanceIsExact
    BY <1>1, SumEmpty, BalanceForm DEF Init
<1>3. IncomeIsCredits
    BY <1>1, SumEmpty, ValueIsSum DEF Init, IncomeIsCredits
<1> QED
    BY <1>2, <1>3 DEF Accounts, RowsMoveMoney, Init, Exists

LEMMA AlwaysAccounts == Spec => []Accounts
BY InitAccounts, StepKeepsAccounts, AlwaysSound, PTL DEF Spec

(* The state of settlement keeps its types (balance and amounts never       *)
(* negative), for every number of orders and transfers.                     *)
THEOREM TransferTypes == Spec => []TypeOK
<1>1. Sound => TypeOK
    BY DEF Sound
<1> QED
    BY <1>1, AlwaysSound, PTL

(* A recorded outcome is what the chain did, whatever was lost, repeated or *)
(* interrupted (executionOutcome, reconcileTransfer, recordTransfer).       *)
THEOREM OutcomesHaveEvidence == Spec => []OutcomeIsEvidence
<1>1. Sound => OutcomeIsEvidence
    BY DEF Sound
<1> QED
    BY <1>1, AlwaysSound, PTL

(* A refunded order is owed by exactly one transfer (refundOnChain).        *)
THEOREM RefundsAreOwedOnce == Spec => []RefundIsOwedOnce
<1>1. Sound => RefundIsOwedOnce
    BY DEF Sound
<1> QED
    BY <1>1, AlwaysSound, PTL

(* Every unit the executor earned is in its balance or in one payout that   *)
(* did not fail, and every refund is owed once, for any orders and prices   *)
(* (settleOrder, ReservePayout, recordTransfer, refundOnChain).             *)
THEOREM MoneyStaysExact == Spec => []MoneyIsExact
<1>1. Sound /\ Accounts => MoneyIsExact
    BY DEF Sound, Accounts, MoneyIsExact
<1> QED
    BY <1>1, AlwaysSound, AlwaysAccounts, PTL

------------------------------------------------------------------------------
(* The refinement. *)

LEMMA PaidOutForm == PaidOut = SumOver(Payouts \cap Executed, Amount)
BY DEF PaidOut, Sum, SumOver

LEMMA PaidOutFormNext == PaidOut' = SumOver(Payouts' \cap Executed', Amount')
BY DEF PaidOut, Sum, SumOver, MapThenSumSet, MapThenFoldSet

LEMMA LedgerValue == ASSUME NEW S PROVE Ledger!Value(S) = Value(S)
BY DEF Ledger!Value, Value, MapThenSumSet, MapThenFoldSet, Ledger!MapThenSumSet, Ledger!MapThenFoldSet

(* Only rows that exist are executed. *)
LEMMA ExecutedExist == ASSUME Sound PROVE \A t \in Executed : t \in Ids /\ Exists(t)
BY DEF Sound, OnlySendable, Executed

(* Rows are never removed, and what they are for does not change. *)
RowsStay ==
    \A t \in Ids : Exists(t) =>
        /\ Exists(t)'
        /\ rows'[t].kind = rows[t].kind /\ rows'[t].orders = rows[t].orders
        /\ rows'[t].amount = rows[t].amount

LEMMA RecordRowsStay ==
    ASSUME Sound, NEW t \in Ids, NEW from \in Open, NEW outcome \in States,
           Exists(t), recordTransfer(t, from, outcome), validAddress' = validAddress
    PROVE  RowsStay
BY RecordKeepsTypes DEF Sound, RowsStay

LEMMA ReserveRowsStay ==
    ASSUME Sound, NEW job, NEW t \in Ids, DecideAndReserve(job, t)
    PROVE  RowsStay
<1>1. CASE rows' = rows
    BY <1>1 DEF RowsStay, Exists
<1>2. CASE ~Exists(t) /\ rows' = [rows EXCEPT ![t] = NewRow(job)]
    BY <1>2 DEF RowsStay, Exists, Sound, TypeOK
<1> QED
    BY <1>1, <1>2 DEF DecideAndReserve, NextId

(* While the chain does nothing, nothing is paid and nothing returned. *)
LEMMA NothingMoves ==
    ASSUME Sound, RowsStay, chain' = chain
    PROVE  PaidOut' = PaidOut /\ Returned' = Returned
<1>1. Executed' = Executed
    BY DEF Executed
<1>2. \A t \in Executed : /\ t \in Ids /\ Exists(t) /\ Exists(t)'
                          /\ rows'[t].kind = rows[t].kind /\ rows'[t].orders = rows[t].orders
                          /\ rows'[t].amount = rows[t].amount
    BY ExecutedExist DEF RowsStay
<1>3. Payouts' \cap Executed' = Payouts \cap Executed
    BY <1>1, <1>2 DEF Payouts
<1>4. Refunds' \cap Executed' = Refunds \cap Executed
    BY <1>1, <1>2 DEF Refunds
<1>5. Returned' = Returned
    BY <1>2, <1>4 DEF Returned
<1>6. PaidOut' = PaidOut
    <2> DEFINE T == Payouts \cap Executed
    <2>1. IsFiniteSet(T) /\ \A t \in T : Amount[t] \in Int /\ Amount'[t] = Amount[t]
        BY <1>2, IdsFinite, Amounts DEF Amount, Payouts, Sound
    <2> HIDE DEF T
    <2> DEFINE f == Amount'
    <2>2. \A t \in T : f[t] = Amount[t]
        BY <2>1
    <2> HIDE DEF f
    <2>3. SumOver(T, f) = SumOver(T, Amount)
        BY <2>1, <2>2, SumSame
    <2> QED
        BY <1>3, <2>3, PaidOutForm, PaidOutFormNext DEF T, f
<1> QED
    BY <1>5, <1>6

(* Execution is the ledger's step: a payout is within what was credited, a  *)
(* refund returns orders that were not returned before.                     *)
LEMMA ExecuteMoves ==
    ASSUME Sound, Accounts, NEW t \in Ids, NEW r \in {"success", "failure"}, Execute(t, r)
    PROVE  Ledger!LedgerNext \/ UNCHANGED Ledger!ledger
<1>1. /\ rows' = rows /\ order' = order /\ Fate' = Fate /\ chain[t] = "none" /\ net[t]
      /\ Executed' = IF r = "success" THEN Executed \cup {t} ELSE Executed
      /\ t \notin Executed
    BY DEF Execute, database, Fate, Executed, Sound, TypeOK
<1>2. Payouts' = Payouts /\ Refunds' = Refunds /\ Amount' = Amount
    BY <1>1 DEF Payouts, Refunds, Amount, Exists
<1>3. Exists(t) /\ rows[t] \in Row
    BY <1>1, RowExists DEF Sound, OnlySendable
<1>4. CASE r = "failure"
    <2>1. PaidOut' = PaidOut
        BY <1>1, <1>2, <1>4, PaidOutForm, PaidOutFormNext
    <2>2. Returned' = Returned
        BY <1>1, <1>2, <1>4 DEF Returned
    <2> QED
        BY <1>1, <2>1, <2>2 DEF Ledger!ledger
<1>5. CASE r = "success" /\ rows[t].kind = "payout"
    <2> DEFINE T == Payouts \cap Executed
               n == Amount[t]
    <2>1. n = rows[t].amount /\ n \in Nat /\ n > 0
        BY <1>3, Amounts DEF Sound, Accounts, RowsMoveMoney
    <2>2. Payouts' \cap Executed' = T \cup {t} /\ t \notin T
        BY <1>1, <1>2, <1>3, <1>5 DEF Payouts
    <2>3. T \cup {t} \subseteq Standing
        <3>1. \A u \in Executed \cup {t} : u \in Ids /\ Exists(u) /\ rows[u].state # "failed"
            BY <1>1, <1>3, ExecutedExist DEF Sound, OutcomeIsEvidence, Executed
        <3> QED
            BY <1>3, <1>5, <3>1 DEF Standing, Payouts
    <2>4. /\ IsFiniteSet(T) /\ IsFiniteSet(Standing) /\ \A u \in Standing : Amount[u] \in Nat
        BY IdsFinite, Amounts DEF Standing, Payouts, Sound
    <2>5. SumOver(T \cup {t}, Amount) = SumOver(T, Amount) + n /\ SumOver(T, Amount) \in Nat
        <3>1. \A u \in T : Amount[u] \in Nat
            BY <2>3, <2>4
        <3> HIDE DEF T
        <3> QED
            BY <2>1, <2>2, <2>4, <3>1, SumAdd, SumNat
    <2>6. PaidOut' = PaidOut + n /\ PaidOut \in Nat
        BY <1>2, <2>2, <2>5, PaidOutForm, PaidOutFormNext
    <2>7. PaidOut + n <= income
        <3>1. /\ SumOver(Standing, Amount) = SumOver(T \cup {t}, Amount) + SumOver(Standing \ (T \cup {t}), Amount)
              /\ SumOver(T \cup {t}, Amount) \in Nat /\ SumOver(Standing \ (T \cup {t}), Amount) \in Nat
            <4> DEFINE U == T \cup {t}
            <4>1. U \in SUBSET Standing
                BY <2>3
            <4> HIDE DEF U
            <4>2. /\ SumOver(Standing, Amount) = SumOver(U, Amount) + SumOver(Standing \ U, Amount)
                  /\ SumOver(U, Amount) \in Nat /\ SumOver(Standing \ U, Amount) \in Nat
                BY <2>4, <4>1, SumPart
            <4> QED
                BY <4>2 DEF U
        <3>2. income = balance + SumOver(Standing, Amount) /\ balance \in Nat
            BY BalanceForm DEF Accounts, Sound, TypeOK
        <3>3. PaidOut = SumOver(T, Amount)
            BY PaidOutForm
        <3> HIDE DEF T, n
        <3> QED
            BY <2>1, <2>5, <3>1, <3>2, <3>3
    <2>8. Ledger!Owed("executor") = Credited
        BY DEF Ledger!Owed, Credited, Fate, Sound, TypeOK
    <2>9. income = Ledger!Value(Ledger!Owed("executor")) /\ income <= Ledger!Value(Orders)
        BY <2>8, LedgerValue, ValueGrows DEF Accounts, IncomeIsCredits, Credited
    <2>10. Returned' = Returned
        BY <1>1, <1>2, <1>5 DEF Returned, Refunds
    <2> HIDE DEF n
    <2>11. Ledger!PayOut(n)
        BY <1>1, <2>6, <2>7, <2>9, <2>10 DEF Ledger!PayOut
    <2>12. n \in 1..Ledger!Value(Orders)
        <3>1. Ledger!Value(Orders) \in Nat
            BY LedgerValue, ValueOfOrders
        <3>2. income \in Nat
            BY DEF Sound, TypeOK
        <3> QED
            BY <2>1, <2>6, <2>7, <2>9, <3>1, <3>2
    <2> QED
        BY <2>11, <2>12 DEF Ledger!LedgerNext
<1>6. CASE r = "success" /\ rows[t].kind = "refund"
    <2>1. Payouts' \cap Executed' = Payouts \cap Executed
        BY <1>1, <1>2, <1>6 DEF Payouts
    <2>2. PaidOut' = PaidOut
        BY <1>2, <2>1, PaidOutForm, PaidOutFormNext
    <2>3. t \in Refunds
        BY <1>3, <1>6 DEF Refunds
    <2>4. Returned' = Returned \cup rows[t].orders
        BY <1>1, <1>2, <1>6, <2>3 DEF Returned
    <2>5. rows[t].orders \in SUBSET Orders
        BY <1>3 DEF Row
    <2>6. rows[t].orders \subseteq Ledger!Owed("buyer")
        BY <2>3, <2>5 DEF Ledger!Owed, Fate, Sound, TypeOK, RefundIsOwedOnce
    <2>7. \A o \in rows[t].orders : o \notin Returned
        BY <1>1, <2>3, <2>5 DEF Returned, Sound, RefundIsOwedOnce
    <2>8. Ledger!Return(rows[t].orders)
        BY <1>1, <2>2, <2>4, <2>6, <2>7 DEF Ledger!Return
    <2> QED
        BY <2>5, <2>8 DEF Ledger!LedgerNext
<1> QED
    BY <1>3, <1>4, <1>5, <1>6 DEF Row

LEMMA ReserveDecides ==
    ASSUME Sound, NEW job, NEW t \in Ids, job.orders \in SUBSET Orders, job.kind = "refund",
           DecideAndReserve(job, t)
    PROVE  Ledger!LedgerNext \/ UNCHANGED Ledger!ledger
<1>1. PaidOut' = PaidOut /\ Returned' = Returned
    BY ReserveRowsStay, NothingMoves DEF DecideAndReserve
<1>2. \A o \in job.orders : order[o] = "outstanding"
    BY DEF DecideAndReserve, Decides, StillOutstanding, Outstanding
<1>3. Fate' = [o \in Orders |-> IF o \in job.orders THEN "buyer" ELSE Fate[o]]
    BY DEF Fate, DecideAndReserve
<1>4. \A o \in job.orders : Fate[o] = "held"
    BY <1>2 DEF Fate
<1>5. CASE job.orders = {}
    <2>1. Fate' = Fate
        BY <1>3, <1>5 DEF Fate
    <2> QED
        BY <1>1, <2>1 DEF Ledger!ledger
<1>6. CASE job.orders # {}
    <2>1. Ledger!Decide(job.orders, "buyer")
        BY <1>1, <1>3, <1>4, <1>6 DEF Ledger!Decide
    <2> QED
        BY <2>1 DEF Ledger!LedgerNext
<1> QED
    BY <1>5, <1>6

LEMMA CreditDecides ==
    ASSUME Sound, NEW o \in Orders, Credit(o)
    PROVE  Ledger!LedgerNext
<1>1. PaidOut' = PaidOut /\ Returned' = Returned
    <2>1. RowsStay
        BY DEF RowsStay, Credit, Exists
    <2> QED
        BY <2>1, NothingMoves DEF Credit
<1>2. Fate' = [p \in Orders |-> IF p \in {o} THEN "executor" ELSE Fate[p]]
    BY DEF Fate, Credit, Sound, TypeOK
<1>3. Fate[o] = "held"
    BY DEF Fate, Credit, Outstanding
<1>4. Ledger!Decide({o}, "executor")
    BY <1>1, <1>2, <1>3 DEF Ledger!Decide
<1> QED
    BY <1>4 DEF Ledger!LedgerNext

(* Steps that decide nothing and are not the chain's. *)
LEMMA OtherStepsStutter ==
    ASSUME Sound, RowsStay, UNCHANGED <<order, chain>>
    PROVE  UNCHANGED Ledger!ledger
<1>1. PaidOut' = PaidOut /\ Returned' = Returned
    BY NothingMoves
<1>2. Fate' = Fate
    BY DEF Fate
<1> QED
    BY <1>1, <1>2 DEF Ledger!ledger

LEMMA StepRefinesLedger ==
    Sound /\ Accounts /\ [Next]_vars => [Ledger!LedgerNext]_(Ledger!ledger)
<1> SUFFICES ASSUME Sound, Accounts, [Next]_vars
             PROVE  Ledger!LedgerNext \/ UNCHANGED Ledger!ledger
    OBVIOUS
<1>1. CASE UNCHANGED <<database, chain>>
    <2>1. RowsStay
        BY <1>1 DEF database, RowsStay, Exists
    <2> QED
        BY <1>1, <2>1, OtherStepsStutter DEF database
<1>2. CASE \E o \in Orders : Credit(o)
    BY <1>2, CreditDecides
<1>3. ASSUME NEW w \in Callers, RefundOnChain(w) PROVE Ledger!LedgerNext \/ UNCHANGED Ledger!ledger
    <2>1. PICK job \in RefundJobs, t \in Ids : DecideAndReserve(job, t)
        BY <1>3 DEF RefundOnChain
    <2> QED
        BY <2>1, RefundJobShape, ReserveDecides
<1>4. CASE ReservePayout
    <2> DEFINE job == [kind |-> "payout", orders |-> {}, amount |-> worker[Ticker].amount, whole |-> FALSE]
    <2>1. PICK t \in Ids : DecideAndReserve(job, t)
        BY <1>4 DEF ReservePayout
    <2>2. job.orders = {}
        OBVIOUS
    <2> HIDE DEF job
    <2>3. order' = order /\ chain' = chain
        BY <2>1, <2>2 DEF DecideAndReserve, Sound, TypeOK
    <2> QED
        BY <2>1, <2>3, ReserveRowsStay, OtherStepsStutter
<1>5. ASSUME NEW w \in Workers, NEW x \in States, Record(w, x) PROVE UNCHANGED Ledger!ledger
    <2>1. worker[w].id \in Ids /\ worker[w].from \in Open /\ Exists(worker[w].id)
        BY <1>5, CallShape DEF Sound, OnlySendable, Record
    <2>2. RowsStay
        BY <1>5, <2>1, RecordRowsStay DEF Record, steady
    <2> QED
        BY <1>5, <2>2, OtherStepsStutter DEF Record, recordTransfer
<1>6. ASSUME NEW t \in Ids, NEW a \in Lookup, reconcileTransfer(t, a) PROVE UNCHANGED Ledger!ledger
    <2>1. Exists(t) /\ todo[t] \in Open
        BY <1>6 DEF Sound, TypeOK, OnlySendable, reconcileTransfer, IsNext
    <2>2. lookedUp(t, todo[t], a) \in States
        BY DEF lookedUp, States, Open
    <2>3. RowsStay /\ order' = order
        <3>1. CASE UNCHANGED database
            BY <3>1 DEF database, RowsStay, Exists
        <3>2. CASE recordTransfer(t, todo[t], lookedUp(t, todo[t], a))
            BY <1>6, <2>1, <2>2, <3>2, RecordRowsStay DEF reconcileTransfer, recordTransfer, steady
        <3> QED
            BY <1>6, <3>1, <3>2 DEF reconcileTransfer
    <2> QED
        BY <1>6, <2>3, OtherStepsStutter DEF reconcileTransfer
<1>7. CASE NotBroadcast
    <2>1. worker[Ticker].id \in Ids /\ worker[Ticker].from \in Open /\ Exists(worker[Ticker].id)
        BY <1>7, CallShape, TickerWorks DEF Sound, OnlySendable, NotBroadcast
    <2>2. "unknown" \in States
        BY DEF States, Open
    <2>3. RowsStay
        BY <1>7, <2>1, <2>2, RecordRowsStay DEF NotBroadcast, steady
    <2> QED
        BY <1>7, <2>3, OtherStepsStutter DEF NotBroadcast, recordTransfer
<1>8. ASSUME NEW t \in Ids, Age(t) PROVE UNCHANGED Ledger!ledger
    <2>1. RowsStay
        BY <1>8, AgeChanges DEF Sound, RowsStay
    <2> QED
        BY <1>8, <2>1, OtherStepsStutter DEF Age
<1>9. CASE \E t \in Ids, r \in {"success", "failure"} : Execute(t, r)
    BY <1>9, ExecuteMoves
<1>10. CASE UNCHANGED vars
    BY <1>1, <1>10 DEF vars
<1> QED
    BY <1>1, <1>2, <1>3, <1>4, <1>5, <1>6, <1>7, <1>8, <1>9, <1>10 DEF Next, Proceed, PayoutExecutor,
        PayoutNotReserved, Submit, RecordFails, ReconcileTransfers, LookupNotRecorded, Crash, Calm

(* The transfers implement the ledger: whatever is retried, answered late   *)
(* or interrupted, the chain pays the executor no more than it was credited *)
(* and returns refunded orders only, each once.                             *)
THEOREM TransfersImplementLedger == Spec => ImplementsLedger
<1>1. Init => Ledger!LedgerInit
    <2> SUFFICES ASSUME Init PROVE Ledger!LedgerInit
        OBVIOUS
    <2>1. Payouts \cap Executed = {} /\ Refunds \cap Executed = {}
        BY DEF Init, Executed
    <2>2. PaidOut = 0 /\ Returned = {}
        BY <2>1, SumEmpty, PaidOutForm DEF Returned
    <2>3. Fate = [o \in Orders |-> "held"]
        BY DEF Init, Fate
    <2> QED
        BY <2>2, <2>3 DEF Ledger!LedgerInit
<1> QED
    BY <1>1, StepRefinesLedger, AlwaysSound, AlwaysAccounts, PTL DEF Spec, ImplementsLedger, Ledger!LedgerSpec

------------------------------------------------------------------------------
(* The payment listener. *)

USE MaxHeightAssumption, MaxMishapsAssumption, NobodyAssumption, NoCursorAssumption

Busy == {"range", "subscribed", "gap", "record"}

(* No checkpoint, receipt or cursor is ahead of the chain. *)
Chained ==
    /\ indexed <= height
    /\ \A e \in Receipts : at[e] <= height
    /\ stored # NoCursor => stored <= height

(* The cursor in memory is the stored one, and a range is read from it. *)
Remembered ==
    /\ pc # "down" => cursor = stored
    /\ stored = NoCursor <=> first = NoCursor
    /\ pc \in Busy => stored # NoCursor
    /\ pc \in {"range", "gap"} => stored < to /\ to <= indexed

(* What was taken out of pending is settled. *)
RangeSettled ==
    pc \in {"range", "gap"} => \A e \in Receipt(stored, to) \ pending : Settled(e)

RecordSettled ==
    pc = "record" => \A e \in Receipt(last - 1, last) \ pending : Settled(e)

(* The streamed run is settled up to the checkpoint in hand. *)
RunEnd == IF pc \in {"gap", "record"} THEN last - 1 ELSE last

RunSettled ==
    /\ pc \in {"gap", "record"} => running
    /\ running => /\ 1 <= runStart /\ runStart <= last /\ last <= height
                  /\ \A e \in Receipt(runStart - 1, RunEnd) : Settled(e)

Covered == ListenerTypeOK /\ Chained /\ Remembered /\ RangeSettled /\ RecordSettled
        /\ RunSettled /\ CursorCoversRecorded

------------------------------------------------------------------------------
(* Initially there is no cursor and nothing to cover. *)
LEMMA InitCovered == ListenerInit => Covered
<1> SUFFICES ASSUME ListenerInit PROVE Covered
  OBVIOUS
<1>1. ListenerTypeOK
  BY DEF ListenerInit, ListenerTypeOK, Stages, Statuses, Cursors
<1>2. Chained /\ Remembered
  BY DEF ListenerInit, Chained, Remembered, Busy
<1>3. RangeSettled /\ RecordSettled /\ RunSettled /\ CursorCoversRecorded
  BY DEF ListenerInit, RangeSettled, RecordSettled, RunSettled, CursorCoversRecorded
<1> QED BY <1>1, <1>2, <1>3 DEF Covered

(* A disposition is "none" only for a receipt that is not ours. *)
LEMMA SettlesReceipt ==
    ASSUME ListenerTypeOK, NEW e \in Receipts, form[e] # "garbled"
    PROVE  /\ settleReceipt(e) \in Dispositions \cup {"none"}
           /\ settleReceipt(e) = "none" => Foreign(e)
           /\ settleReceipt(e) = "applied" => nonce[e] \in Transactions
BY DEF ListenerTypeOK, settleReceipt, Foreign, Dispositions, Forms

(* Applying a receipt keeps the types, settles it and unsettles no other. *)
LEMMA ApplySettles ==
    ASSUME ListenerTypeOK, NEW e \in Receipts, form[e] # "garbled",
           ApplyPaymentReceipt(e), UNCHANGED <<nonce, form>>
    PROVE  /\ row' \in [Receipts -> Dispositions \cup {"none"}]
           /\ payment' \in [Transactions -> Statuses]
           /\ Settled(e)'
           /\ \A f \in Receipts : Settled(f) => Settled(f)'
<1>1. /\ settleReceipt(e) \in Dispositions \cup {"none"}
      /\ settleReceipt(e) = "none" => Foreign(e)
      /\ settleReceipt(e) = "applied" => nonce[e] \in Transactions
  BY SettlesReceipt
<1> QED
  BY <1>1 DEF ListenerTypeOK, ApplyPaymentReceipt, Known, Settled, Foreign, Statuses

(* Steps that leave rows alone leave every receipt as settled as it was. *)
LEMMA SameSettled ==
    ASSUME UNCHANGED <<nonce, form, row>>, NEW e \in Receipts
    PROVE  Settled(e)' = Settled(e)
BY DEF Settled, Foreign

(* Every step keeps the inductive invariant. *)
LEMMA StepKeepsCovered == Covered /\ [ListenerNext]_listenerVars => Covered'
<1> SUFFICES ASSUME Covered, [ListenerNext]_listenerVars PROVE Covered'
  OBVIOUS
<1> USE DEF Covered
<1>1. ASSUME NEW S \in SUBSET Receipts, Checkpoint(S) PROVE Covered'
  <2>1. \A e \in Receipts : Settled(e)' = Settled(e)
    BY <1>1, SameSettled DEF Checkpoint
  <2>2. ListenerTypeOK'
    BY <1>1 DEF Checkpoint, ListenerTypeOK, memory
  <2>3. /\ Chained' /\ Remembered'
    BY <1>1 DEF Checkpoint, ListenerTypeOK, Chained, Remembered, memory, Cursors
  <2>4. \A e \in Receipts, a, b \in Int : b <= height /\ e \in Receipt(a, b)' => e \in Receipt(a, b)
    BY <1>1 DEF Checkpoint, ListenerTypeOK, Receipt
  <2>5. RangeSettled'
    BY <1>1, <2>1, <2>4 DEF Checkpoint, ListenerTypeOK, RangeSettled, Chained, Remembered, memory, Receipt, Cursors, Busy
  <2>6. RunSettled' /\ RecordSettled'
    BY <1>1, <2>1 DEF Checkpoint, ListenerTypeOK, RunSettled, RecordSettled, RunEnd, memory, Receipt
  <2>7. CursorCoversRecorded'
    BY <1>1, <2>1 DEF Checkpoint, ListenerTypeOK, CursorCoversRecorded, Chained, Remembered, Receipt, Cursors
  <2> QED BY <2>2, <2>3, <2>5, <2>6, <2>7
<1>2. CASE Ingest
  <2>1. \A e \in Receipts : Settled(e)' = Settled(e)
    BY <1>2, SameSettled DEF Ingest
  <2> QED
    BY <1>2, <2>1 DEF Ingest, ListenerTypeOK, Chained, Remembered, RangeSettled, RecordSettled, RunSettled,
       RunEnd, CursorCoversRecorded, Receipt, memory, Cursors
<1>3. ASSUME NEW t \in Transactions, RefundPaidTransaction(t) PROVE Covered'
  <2>1. \A e \in Receipts : Settled(e)' = Settled(e)
    BY <1>3, SameSettled DEF RefundPaidTransaction, sui
  <2> QED
    BY <1>3, <2>1 DEF RefundPaidTransaction, ListenerTypeOK, Chained, Remembered, RangeSettled, RecordSettled,
       RunSettled, RunEnd, CursorCoversRecorded, Receipt, memory, sui, Statuses
<1>4. CASE loadCursor
  <2>1. \A e \in Receipts : Settled(e)' = Settled(e)
    BY <1>4, SameSettled DEF loadCursor, sui
  <2> QED
    BY <1>4, <2>1 DEF loadCursor, ListenerTypeOK, Chained, Remembered, RangeSettled, RecordSettled,
       RunSettled, RunEnd, CursorCoversRecorded, Receipt, sui, Stages, Busy
<1>5. CASE CatchUpFresh
  <2>1. \A e \in Receipts : Settled(e)' = Settled(e)
    BY <1>5, SameSettled DEF CatchUpFresh, sui
  <2>2. Bound \in Nat /\ Bound <= height
    BY DEF Bound, ListenerTypeOK, Chained
  <2>3. stored = NoCursor
    BY <1>5 DEF CatchUpFresh, Remembered
  <2>4. /\ UNCHANGED <<nonce, form, height, indexed, at, row, payment, to, pending, mishaps>>
        /\ stored' = Bound /\ cursor' = Bound /\ first' = Bound
        /\ pc' = "subscribed" /\ running' = FALSE /\ runStart' = 0 /\ last' = 0
    BY <1>5, <2>3 DEF CatchUpFresh, storeCursor, Subscribe, sui
  <2>5. ListenerTypeOK' /\ Chained' /\ Remembered'
    <3>1. Bound # NoCursor
      BY <2>2
    <3> QED BY <2>2, <2>4, <3>1 DEF ListenerTypeOK, Chained, Remembered, Stages, Busy, Cursors
  <2>6. RangeSettled' /\ RecordSettled' /\ RunSettled'
    BY <2>4 DEF RangeSettled, RecordSettled, RunSettled
  <2>7. CursorCoversRecorded'
    BY <2>2, <2>4 DEF CursorCoversRecorded, Receipt, ListenerTypeOK
  <2> QED BY <2>5, <2>6, <2>7
<1>6. CASE CatchUpNone
  <2>1. \A e \in Receipts : Settled(e)' = Settled(e)
    BY <1>6, SameSettled DEF CatchUpNone, sui
  <2> QED
    BY <1>6, <2>1 DEF CatchUpNone, Subscribe, ListenerTypeOK, Chained, Remembered, RangeSettled, RecordSettled,
       RunSettled, RunEnd, CursorCoversRecorded, Receipt, sui, Stages, Busy
<1>7. CASE CatchUpBegin
  <2>1. \A e \in Receipts : Settled(e)' = Settled(e)
    BY <1>7, SameSettled DEF CatchUpBegin, sui
  <2>2. Bound \in Nat /\ Bound <= indexed
    BY DEF Bound, ListenerTypeOK
  <2>3. cursor \in Nat /\ cursor = stored /\ cursor < Bound
    BY <1>7, <2>2 DEF CatchUpBegin, Remembered, UpToDate, ListenerTypeOK, Cursors
  <2>4. /\ UNCHANGED <<nonce, form, height, indexed, at, stored, row, payment, cursor, runStart, last, running, first, mishaps>>
        /\ pc = "retry" /\ pc' = "range" /\ to' = Bound /\ pending' = Receipt(stored, Bound)
    BY <1>7, <2>3 DEF CatchUpBegin, sui
  <2>5. ListenerTypeOK' /\ Chained' /\ Remembered'
    BY <2>2, <2>3, <2>4 DEF ListenerTypeOK, Chained, Remembered, Stages, Busy, Receipt, Cursors
  <2>6. RangeSettled' /\ RecordSettled' /\ RunSettled'
    BY <2>1, <2>4 DEF RangeSettled, RecordSettled, RunSettled, RunEnd, Receipt
  <2>7. CursorCoversRecorded'
    BY <2>1, <2>4 DEF CursorCoversRecorded, Receipt
  <2> QED BY <2>5, <2>6, <2>7
<1>8. ASSUME NEW e \in Receipts, processPaymentReceipt(e) PROVE Covered'
  <2>1. /\ UNCHANGED <<nonce, form, height, indexed, at, stored, pc, cursor, to, runStart, last, running, first, mishaps>>
        /\ pending' = pending \ {e} /\ form[e] # "garbled" /\ ApplyPaymentReceipt(e)
    BY <1>8 DEF processPaymentReceipt, sui
  <2>2. /\ row' \in [Receipts -> Dispositions \cup {"none"}]
        /\ payment' \in [Transactions -> Statuses]
        /\ Settled(e)'
        /\ \A f \in Receipts : Settled(f) => Settled(f)'
    BY <2>1, ApplySettles
  <2>3. ListenerTypeOK' /\ Chained' /\ Remembered'
    BY <2>1, <2>2 DEF ListenerTypeOK, Chained, Remembered
  <2>4. RangeSettled' /\ RecordSettled' /\ RunSettled'
    BY <2>1, <2>2 DEF RangeSettled, RecordSettled, RunSettled, RunEnd, Receipt
  <2>5. CursorCoversRecorded'
    BY <2>1, <2>2 DEF CursorCoversRecorded, Receipt
  <2> QED BY <2>3, <2>4, <2>5
<1>9. CASE RangeDone
  <2>1. \A e \in Receipts : Settled(e)' = Settled(e)
    BY <1>9, SameSettled DEF RangeDone, sui
  <2>2. /\ UNCHANGED <<nonce, form, height, indexed, at, row, payment, mishaps>>
        /\ pc \in {"range", "gap"} /\ pending = {}
        /\ stored' = to /\ cursor' = to /\ to' = 0
        /\ stored # NoCursor /\ stored \in Nat /\ first' = first /\ stored < to /\ to <= indexed
    BY <1>9 DEF RangeDone, storeCursor, sui, Remembered, Busy, ListenerTypeOK, Cursors
  <2>3. CursorCoversRecorded'
    <3> SUFFICES ASSUME NEW e \in Receipts, first < at[e], at[e] <= to PROVE Settled(e)
      BY <2>1, <2>2 DEF CursorCoversRecorded, Receipt
    <3>1. CASE at[e] <= stored
      BY <2>2, <3>1 DEF CursorCoversRecorded, Receipt
    <3>2. CASE stored < at[e]
      BY <2>2, <3>2 DEF RangeSettled, Receipt
    <3> QED BY <2>2, <3>1, <3>2 DEF ListenerTypeOK
  <2>4. CASE pc = "range"
    <3>1. pc' = "subscribed" /\ running' = FALSE /\ runStart' = 0 /\ last' = 0 /\ pending' = pending
      BY <1>9, <2>4 DEF RangeDone, Subscribe
    <3>2. to # NoCursor /\ to \in Nat
      BY DEF ListenerTypeOK
    <3>3. ListenerTypeOK'
      BY <2>2, <3>1, <3>2 DEF ListenerTypeOK, Stages, Cursors
    <3>4. Chained' /\ Remembered'
      BY <2>2, <3>1, <3>2 DEF ListenerTypeOK, Chained, Remembered, Busy
    <3>5. RangeSettled' /\ RecordSettled' /\ RunSettled'
      BY <3>1 DEF RangeSettled, RecordSettled, RunSettled
    <3> QED BY <2>3, <3>3, <3>4, <3>5
  <2>5. CASE pc = "gap"
    <3>1. pc' = "record" /\ pending' = Receipt(last - 1, last) /\ UNCHANGED <<runStart, last, running>>
      BY <1>9, <2>5 DEF RangeDone
    <3>2. ListenerTypeOK' /\ Chained' /\ Remembered'
      BY <2>2, <3>1 DEF ListenerTypeOK, Chained, Remembered, Stages, Busy, Cursors, Receipt
    <3>3. RangeSettled' /\ RecordSettled' /\ RunSettled'
      BY <2>1, <2>2, <2>5, <3>1 DEF RangeSettled, RecordSettled, RunSettled, RunEnd, Receipt
    <3> QED BY <2>3, <3>2, <3>3
  <2> QED BY <2>2, <2>4, <2>5
<1>10. ASSUME NEW seq \in 1..height, Recv(seq) PROVE Covered'
  <2>1. \A e \in Receipts : Settled(e)' = Settled(e)
    BY <1>10, SameSettled DEF Recv, sui
  <2>2. /\ UNCHANGED <<nonce, form, height, indexed, at, stored, row, payment, cursor, first, mishaps>>
        /\ pc = "subscribed" /\ running' = TRUE /\ last' = seq /\ runStart' = RunStart(seq)
        /\ cursor = stored /\ stored \in Nat /\ stored # NoCursor
        /\ running => seq > last
    BY <1>10 DEF Recv, sui, Remembered, Busy, ListenerTypeOK, Cursors
  <2>3. /\ RunStart(seq) \in Nat /\ 1 <= RunStart(seq) /\ RunStart(seq) <= seq /\ seq <= height /\ seq \in Nat
        /\ running /\ seq = last + 1 => RunStart(seq) = runStart
        /\ ~(running /\ seq = last + 1) => RunStart(seq) = seq
    BY <2>2 DEF RunStart, ListenerTypeOK, RunSettled
  <2>4. \A e \in Receipt(RunStart(seq) - 1, seq - 1) : Settled(e)
    <3>1. CASE running /\ seq = last + 1
      BY <2>2, <2>3, <3>1 DEF RunSettled, RunEnd, ListenerTypeOK
    <3>2. CASE ~(running /\ seq = last + 1)
      BY <2>3, <3>2 DEF Receipt, ListenerTypeOK
    <3> QED BY <3>1, <3>2
  <2>5. CursorCoversRecorded' /\ Chained'
    BY <2>1, <2>2 DEF CursorCoversRecorded, Chained, Receipt
  <2>6. CASE cursor + 1 < RunStart(seq) /\ GapBound(seq) > cursor
    <3>1. pc' = "gap" /\ to' = GapBound(seq) /\ pending' = Receipt(stored, GapBound(seq))
      BY <1>10, <2>2, <2>6 DEF Recv
    <3>2. GapBound(seq) \in Nat /\ GapBound(seq) <= indexed /\ stored < GapBound(seq)
      BY <2>2, <2>3, <2>6 DEF GapBound, ListenerTypeOK
    <3>3. ListenerTypeOK' /\ Remembered'
      BY <2>2, <2>3, <3>1, <3>2 DEF ListenerTypeOK, Remembered, Stages, Busy, Receipt
    <3>4. RangeSettled' /\ RecordSettled'
      BY <2>2, <3>1 DEF RangeSettled, RecordSettled, Receipt
    <3>5. RunSettled'
      BY <2>1, <2>2, <2>3, <2>4, <3>1 DEF RunSettled, RunEnd, Receipt
    <3> QED BY <2>5, <3>3, <3>4, <3>5
  <2>7. CASE ~(cursor + 1 < RunStart(seq) /\ GapBound(seq) > cursor)
    <3>1. pc' = "record" /\ to' = to /\ pending' = Receipt(seq - 1, seq)
      BY <1>10, <2>7 DEF Recv
    <3>3. ListenerTypeOK' /\ Remembered'
      BY <2>2, <2>3, <3>1 DEF ListenerTypeOK, Remembered, Stages, Busy, Receipt
    <3>4. RangeSettled' /\ RecordSettled'
      BY <2>2, <3>1 DEF RangeSettled, RecordSettled, Receipt
    <3>5. RunSettled'
      BY <2>1, <2>2, <2>3, <2>4, <3>1 DEF RunSettled, RunEnd, Receipt
    <3> QED BY <2>5, <3>3, <3>4, <3>5
  <2> QED BY <2>6, <2>7
<1>11. CASE RecordDone
  <2>1. \A e \in Receipts : Settled(e)' = Settled(e)
    BY <1>11, SameSettled DEF RecordDone, sui
  <2>2. /\ UNCHANGED <<nonce, form, height, indexed, at, row, payment, to, pending, runStart, last, running, mishaps>>
        /\ pc = "record" /\ pc' = "subscribed" /\ pending = {} /\ running
        /\ cursor = stored /\ stored \in Nat /\ stored # NoCursor
    BY <1>11 DEF RecordDone, sui, Remembered, Busy, ListenerTypeOK, Cursors, RunSettled
  <2>3. \A e \in Receipt(runStart - 1, last) : Settled(e)
    <3> SUFFICES ASSUME NEW e \in Receipts, runStart - 1 < at[e], at[e] <= last PROVE Settled(e)
      BY DEF Receipt
    <3>1. CASE at[e] <= last - 1
      BY <2>2, <3>1 DEF RunSettled, RunEnd, Receipt
    <3>2. CASE at[e] = last
      BY <2>2, <3>2 DEF RecordSettled, Receipt, ListenerTypeOK
    <3> QED BY <3>1, <3>2 DEF ListenerTypeOK
  <2>4. RangeSettled' /\ RecordSettled' /\ RunSettled'
    BY <2>1, <2>2, <2>3 DEF RangeSettled, RecordSettled, RunSettled, RunEnd, Receipt
  <2>5. CASE StaysBehind
    <3>1. UNCHANGED <<stored, cursor, first>>
      BY <1>11, <2>5 DEF RecordDone
    <3> QED BY <2>1, <2>2, <2>4, <3>1 DEF ListenerTypeOK, Chained, Remembered, CursorCoversRecorded, Receipt, Stages, Busy
  <2>6. CASE ~StaysBehind
    <3>1. stored' = last /\ cursor' = last /\ first' = first
      BY <1>11, <2>2, <2>6 DEF RecordDone, storeCursor
    <3>2. runStart <= stored + 1 /\ last \in Nat /\ runStart \in Nat /\ last <= height
      BY <2>2, <2>6 DEF StaysBehind, ListenerTypeOK, RunSettled
    <3>3. CursorCoversRecorded'
      <4> SUFFICES ASSUME NEW e \in Receipts, first < at[e], at[e] <= last PROVE Settled(e)
        BY <2>1, <2>2, <3>1 DEF CursorCoversRecorded, Receipt
      <4>1. CASE at[e] <= stored
        BY <2>2, <4>1 DEF CursorCoversRecorded, Receipt
      <4>2. CASE stored < at[e]
        BY <2>2, <2>3, <3>2, <4>2 DEF Receipt, ListenerTypeOK
      <4> QED BY <2>2, <4>1, <4>2 DEF ListenerTypeOK
    <3> QED BY <2>2, <2>4, <3>1, <3>2, <3>3 DEF ListenerTypeOK, Chained, Remembered, Stages, Busy, Cursors
  <2> QED BY <2>5, <2>6
<1>12. ASSUME (\/ pc' = "down" /\ cursor' = NoCursor
               \/ pc # "down" /\ pc' = "retry" /\ UNCHANGED cursor),
              Forget, UNCHANGED <<nonce, form, height, indexed, at, stored, first>>,
              row' \in [Receipts -> Dispositions \cup {"none"}], payment' \in [Transactions -> Statuses],
              \A f \in Receipts : Settled(f) => Settled(f)', mishaps' \in Nat
       PROVE Covered'
  <2>1. to' = 0 /\ pending' = {} /\ runStart' = 0 /\ last' = 0 /\ running' = FALSE
    BY <1>12 DEF Forget
  <2>2. ListenerTypeOK'
    BY <1>12, <2>1 DEF ListenerTypeOK, Stages, Cursors
  <2>3. Chained' /\ Remembered'
    BY <1>12 DEF Chained, Remembered, Busy
  <2>4. RangeSettled' /\ RecordSettled' /\ RunSettled'
    BY <1>12, <2>1 DEF RangeSettled, RecordSettled, RunSettled
  <2>5. CursorCoversRecorded'
    BY <1>12 DEF CursorCoversRecorded, Receipt
  <2> QED BY <2>2, <2>3, <2>4, <2>5
<1>14. CASE Fails
  <2>1. /\ pc # "down" /\ pc' = "retry" /\ Forget /\ mishaps' \in Nat
        /\ UNCHANGED <<nonce, form, height, indexed, at, stored, first, cursor>>
    BY <1>14 DEF Fails, Interrupted, Mishap, sui, ListenerTypeOK
  <2>2. CASE UNCHANGED <<row, payment>>
    <3>1. \A e \in Receipts : Settled(e)' = Settled(e)
      BY <2>1, <2>2, SameSettled
    <3>2. row' \in [Receipts -> Dispositions \cup {"none"}] /\ payment' \in [Transactions -> Statuses]
      BY <2>2 DEF ListenerTypeOK
    <3> QED BY <1>12, <2>1, <3>1, <3>2
  <2>3. ASSUME NEW e \in pending, form[e] # "garbled", ApplyPaymentReceipt(e) PROVE Covered'
    <3>1. e \in Receipts
      BY DEF ListenerTypeOK
    <3>2. /\ row' \in [Receipts -> Dispositions \cup {"none"}]
          /\ payment' \in [Transactions -> Statuses]
          /\ \A f \in Receipts : Settled(f) => Settled(f)'
      BY <2>1, <2>3, <3>1, ApplySettles
    <3> QED BY <1>12, <2>1, <3>2
  <2> QED BY <1>14, <2>2, <2>3 DEF Fails
<1>15. CASE DecodeFails \/ StreamEnds
  <2>1. /\ pc # "down" /\ pc' = "retry" /\ Forget /\ UNCHANGED <<row, payment, mishaps>>
        /\ UNCHANGED <<nonce, form, height, indexed, at, stored, first, cursor>>
    BY <1>15 DEF DecodeFails, StreamEnds, Interrupted, sui
  <2>2. \A e \in Receipts : Settled(e)' = Settled(e)
    BY <2>1, SameSettled
  <2>3. row' \in [Receipts -> Dispositions \cup {"none"}] /\ payment' \in [Transactions -> Statuses] /\ mishaps' \in Nat
    BY <2>1 DEF ListenerTypeOK
  <2> QED BY <1>12, <2>1, <2>2, <2>3
<1>16. CASE ListenerCrash
  <2>1. /\ pc' = "down" /\ cursor' = NoCursor /\ Forget /\ UNCHANGED <<row, payment>> /\ mishaps' \in Nat
        /\ UNCHANGED <<nonce, form, height, indexed, at, stored, first>>
    BY <1>16 DEF ListenerCrash, Mishap, sui, ListenerTypeOK
  <2>2. \A e \in Receipts : Settled(e)' = Settled(e)
    BY <2>1, SameSettled
  <2>3. row' \in [Receipts -> Dispositions \cup {"none"}] /\ payment' \in [Transactions -> Statuses]
    BY <2>1 DEF ListenerTypeOK
  <2>4. \A e \in Receipts : Settled(e) => Settled(e)'
    BY <2>2
  <2>5. \/ pc' = "down" /\ cursor' = NoCursor
        \/ pc # "down" /\ pc' = "retry" /\ UNCHANGED cursor
    BY <2>1
  <2> QED BY <1>12, <2>1, <2>3, <2>4, <2>5, Zenon
<1>13. CASE UNCHANGED listenerVars
  BY <1>13 DEF listenerVars, sui, memory, ListenerTypeOK, Chained, Remembered, RangeSettled, RecordSettled,
     RunSettled, RunEnd, CursorCoversRecorded, Receipt, Settled, Foreign
<1> QED
  BY <1>1, <1>2, <1>3, <1>4, <1>5, <1>6, <1>7, <1>8, <1>9, <1>10, <1>11, <1>13, <1>14, <1>15, <1>16 DEF ListenerNext, Listener

(* Types: in particular a receipt's row holds a recorded disposition only.  *)
THEOREM ReceiptTypes == ListenerSpec => []ListenerTypeOK
BY InitCovered, StepKeepsCovered, PTL DEF ListenerSpec, Covered

(* Whatever is skipped, read twice or interrupted, no receipt between the   *)
(* first and the present cursor is without its row (Listener.Start).        *)
THEOREM CursorIsProven == ListenerSpec => []CursorCoversRecorded
BY InitCovered, StepKeepsCovered, PTL DEF ListenerSpec, Covered

(* The stored cursor never goes back. *)
THEOREM CursorIsMonotone == ListenerSpec => CursorAdvances
<1>1. Covered /\ [ListenerNext]_listenerVars => [stored # NoCursor => stored' # NoCursor /\ stored' >= stored]_listenerVars
  <2> SUFFICES ASSUME Covered, ListenerNext, stored # NoCursor PROVE stored' # NoCursor /\ stored' >= stored
    OBVIOUS
  <2>0. stored \in Nat /\ to # NoCursor /\ last # NoCursor /\ to \in Nat /\ last \in Nat
    BY DEF Covered, ListenerTypeOK, Cursors
  <2>1. CASE RangeDone
    BY <2>0, <2>1 DEF RangeDone, storeCursor, Covered, Remembered
  <2>2. CASE RecordDone
    BY <2>0, <2>2 DEF RecordDone, storeCursor, StaysBehind, Covered, Remembered
  <2>3. CASE CatchUpFresh
    BY <2>3 DEF CatchUpFresh, Covered, Remembered
  <2>4. CASE stored' = stored
    BY <2>0, <2>4
  <2> QED
    BY <2>1, <2>2, <2>3, <2>4 DEF ListenerNext, Listener, Checkpoint, Ingest, RefundPaidTransaction, loadCursor,
       CatchUpNone, CatchUpBegin, processPaymentReceipt, Recv, Fails, DecodeFails, StreamEnds, Interrupted, ListenerCrash
<1> QED BY <1>1, InitCovered, StepKeepsCovered, PTL DEF ListenerSpec, CursorAdvances

(* A transaction is paid by exactly one receipt, however often and in       *)
(* whatever order its receipts are read (ApplyPaymentReceipt).              *)
THEOREM PaidOnce == ListenerSpec => []PaidByOneReceipt
<1>1. ListenerInit => PaidByOneReceipt
  BY DEF ListenerInit, PaidByOneReceipt, Pays
<1>2. ASSUME ListenerTypeOK, PaidByOneReceipt, NEW e \in Receipts, form[e] # "garbled",
             ApplyPaymentReceipt(e), UNCHANGED <<nonce, form>>
      PROVE  PaidByOneReceipt'
  <2>1. CASE UNCHANGED <<row, payment>>
    BY <1>2, <2>1 DEF PaidByOneReceipt, Pays
  <2>2. CASE row[e] = "none" /\ settleReceipt(e) # "applied"
    <3>1. payment' = payment /\ row' = [row EXCEPT ![e] = settleReceipt(e)]
      BY <1>2, <2>2 DEF ApplyPaymentReceipt, Known
    <3>2. \A f \in Receipts, t \in Transactions : Pays(f, t)' <=> Pays(f, t)
      BY <1>2, <2>2, <3>1 DEF Pays, ListenerTypeOK
    <3> QED BY <1>2, <3>1, <3>2 DEF PaidByOneReceipt
  <2>3. CASE row[e] = "none" /\ settleReceipt(e) = "applied"
    <3>1. /\ nonce[e] \in Transactions /\ payment[nonce[e]] = "outstanding"
          /\ payment' = [payment EXCEPT ![nonce[e]] = "paid"] /\ row' = [row EXCEPT ![e] = "applied"]
      BY <1>2, <2>3 DEF ApplyPaymentReceipt, Known, settleReceipt, MarkPaid, Foreign, ListenerTypeOK, Forms
    <3>2. \A f \in Receipts, t \in Transactions : Pays(f, t)' <=> Pays(f, t) \/ (f = e /\ t = nonce[e])
      BY <1>2, <2>3, <3>1 DEF Pays, ListenerTypeOK
    <3>3. \A f \in Receipts : ~Pays(f, nonce[e])
      BY <1>2, <3>1 DEF PaidByOneReceipt
    <3>4. \A t \in Transactions : t # nonce[e] => payment'[t] = payment[t]
      BY <3>1, <1>2 DEF ListenerTypeOK
    <3>5. payment'[nonce[e]] = "paid"
      BY <3>1, <1>2 DEF ListenerTypeOK
    <3> SUFFICES ASSUME NEW t \in Transactions
                 PROVE  IF payment'[t] = "outstanding" THEN \A f \in Receipts : ~Pays(f, t)'
                        ELSE \E g \in Receipts : Pays(g, t)' /\ \A f \in Receipts : Pays(f, t)' => f = g
      BY DEF PaidByOneReceipt
    <3>6. CASE t = nonce[e]
      BY <3>2, <3>3, <3>5, <3>6
    <3>7. CASE t # nonce[e]
      <4>1. \A f \in Receipts : Pays(f, t)' <=> Pays(f, t)
        BY <3>2, <3>7
      <4> QED BY <1>2, <3>4, <3>7, <4>1 DEF PaidByOneReceipt
    <3> QED BY <3>6, <3>7
  <2> QED BY <1>2, <2>1, <2>2, <2>3 DEF ApplyPaymentReceipt, Known
<1>3. ListenerTypeOK /\ PaidByOneReceipt /\ [ListenerNext]_listenerVars => PaidByOneReceipt'
  <2> SUFFICES ASSUME ListenerTypeOK, PaidByOneReceipt, [ListenerNext]_listenerVars PROVE PaidByOneReceipt'
    OBVIOUS
  <2>1. CASE UNCHANGED <<nonce, row, payment>>
    BY <2>1 DEF PaidByOneReceipt, Pays
  <2>2. ASSUME NEW t \in Transactions, RefundPaidTransaction(t) PROVE PaidByOneReceipt'
    <3>1. \A u \in Transactions : payment'[u] = "outstanding" <=> payment[u] = "outstanding"
      BY <2>2 DEF RefundPaidTransaction, ListenerTypeOK
    <3>2. UNCHANGED <<row, nonce>>
      BY <2>2 DEF RefundPaidTransaction, sui
    <3> QED BY <3>1, <3>2 DEF PaidByOneReceipt, Pays
  <2>3. ASSUME NEW e \in Receipts, processPaymentReceipt(e) PROVE PaidByOneReceipt'
    BY <1>2, <2>3 DEF processPaymentReceipt, sui
  <2>4. CASE Fails
    <3>1. UNCHANGED <<nonce, form>>
      BY <2>4 DEF Fails, Interrupted, sui
    <3>2. ASSUME NEW e \in pending, form[e] # "garbled", ApplyPaymentReceipt(e) PROVE PaidByOneReceipt'
      <4>1. e \in Receipts
        BY DEF ListenerTypeOK
      <4> QED BY <1>2, <3>1, <3>2, <4>1
    <3> QED BY <2>1, <2>4, <3>1, <3>2 DEF Fails
  <2> QED
    BY <2>1, <2>2, <2>3, <2>4 DEF ListenerNext, Listener, Checkpoint, Ingest, loadCursor, CatchUpFresh, CatchUpNone,
       CatchUpBegin, RangeDone, RecordDone, DecodeFails, StreamEnds, Interrupted, Recv, ListenerCrash, sui, listenerVars
<1> QED BY <1>1, <1>3, ReceiptTypes, PTL DEF ListenerSpec

(* What the listener has stored is true, over every interruption: the cursor *)
(* passed no receipt by, and no transaction is paid twice.                   *)
THEOREM ListenerIsHonest == ListenerSpec => []ReceiptsAreHonest
BY ReceiptTypes, CursorIsProven, PaidOnce, PTL DEF ReceiptsAreHonest
==============================================================================
