--------------------------- MODULE PaymentReceipts ---------------------------
(***************************************************************************)
(* How the dispatcher learns that a transaction was paid on the chain.     *)
(*                                                                         *)
(* sui.Listener reads payment receipt events from two sources: a GraphQL   *)
(* indexer, asked for ranges of checkpoints it has ingested, and a         *)
(* subscription of the full node, which starts at the live checkpoint and  *)
(* may skip some.  One stored cursor names the last checkpoint whose       *)
(* receipts are all recorded.  PaymentHandler.ApplyPaymentReceipt records  *)
(* one receipt and marks the transaction it pays.                          *)
(*                                                                         *)
(* The chain (height, indexed, at) is external: it only ever appends       *)
(* checkpoints, and the indexer follows it at any distance.  A call that   *)
(* fails, a subscription that breaks and the death of the process are      *)
(* counted in mishaps.                                                     *)
(***************************************************************************)
EXTENDS Integers

CONSTANTS
    Receipts,      \* receipt events the chain may emit
    Transactions,  \* local transactions a receipt's nonce may name
    Says,          \* receipt -> the pairs <<nonce, form>> it may carry
    Nobody,        \* the nonce that names no local transaction
    NoCursor,      \* transaction_states holds no cursor
    MaxHeight,     \* bound: checkpoints of the chain
    MaxMishaps     \* bound: failed calls, broken streams and crashes

(* "misaddressed": another receiver.  "mispriced": another method, coin    *)
(* type, deposit network or amount.  "late": after the transaction         *)
(* expired.  "garbled": an event that does not decode.                     *)
Forms == {"exact", "misaddressed", "mispriced", "late", "garbled"}

ASSUME MaxHeightAssumption == MaxHeight \in Nat
ASSUME MaxMishapsAssumption == MaxMishaps \in Nat
ASSUME NobodyAssumption == Nobody \notin Transactions
ASSUME SaysAssumption == Says \in [Receipts -> SUBSET ((Transactions \cup {Nobody}) \X Forms)]
ASSUME NoCursorAssumption == NoCursor \notin Int

VARIABLES
    nonce,      \* receipt -> the transaction its nonce names, or Nobody
    form,       \* receipt -> what else it says
    height,     \* the full node's last checkpoint
    indexed,    \* the last checkpoint the indexer serves events of
    at,         \* receipt -> its checkpoint, 0 before it is emitted
    stored,     \* the cursor in the database
    row,        \* receipt -> its recorded disposition, or "none"
    payment,    \* transaction -> outstanding, paid or refunded
    pc,         \* where Listener.Start is
    cursor,     \* its cursor in memory
    to,         \* upper end of the range being read
    pending,    \* receipts of the range or checkpoint not yet processed
    runStart, last, running,   \* streamState
    first,      \* history: the first cursor ever stored
    mishaps     \* history: failures so far

sui == <<nonce, form, height, indexed, at>>
memory == <<cursor, to, pending, runStart, last, running>>
listenerVars == <<sui, stored, row, payment, pc, memory, first, mishaps>>

Dispositions == {"applied", "mismatch", "unknown_intent", "expired"}
Statuses == {"outstanding", "paid", "refunded"}
Cursors == Nat \cup {NoCursor}
Stages == {"down", "retry", "range", "subscribed", "gap", "record"}

ListenerInit ==
    /\ nonce \in [Receipts -> Transactions \cup {Nobody}]
    /\ form \in [Receipts -> Forms]
    /\ \A e \in Receipts : <<nonce[e], form[e]>> \in Says[e]
    /\ height = 0 /\ indexed = 0
    /\ at = [e \in Receipts |-> 0]
    /\ stored = NoCursor /\ cursor = NoCursor /\ first = NoCursor
    /\ row = [e \in Receipts |-> "none"]
    /\ payment = [t \in Transactions |-> "outstanding"]
    /\ pc = "down"
    /\ to = 0 /\ pending = {}
    /\ runStart = 0 /\ last = 0 /\ running = FALSE
    /\ mishaps = 0

------------------------------------------------------------------------------
(* The chain. *)

(* A checkpoint with the receipts S. *)
Checkpoint(S) ==
    /\ height < MaxHeight
    /\ \A e \in S : at[e] = 0
    /\ height' = height + 1
    /\ at' = [e \in Receipts |-> IF e \in S THEN height + 1 ELSE at[e]]
    /\ UNCHANGED <<nonce, form, indexed, stored, row, payment, pc, memory, first, mishaps>>

Ingest ==
    /\ indexed < height
    /\ indexed' = indexed + 1
    /\ UNCHANGED <<nonce, form, height, at, stored, row, payment, pc, memory, first, mishaps>>

------------------------------------------------------------------------------
(* Recording a receipt. *)

Receipt(after, upto) == {e \in Receipts : after < at[e] /\ at[e] <= upto}

(* A receipt to another address with an unknown nonce is not recorded. *)
Foreign(e) == nonce[e] = Nobody /\ form[e] = "misaddressed"

(* MarkTransactionPaid: only an outstanding transaction is paid. *)
MarkPaid(e) == payment[nonce[e]] = "outstanding"

settleReceipt(e) ==
    CASE Foreign(e) -> "none"
      [] nonce[e] = Nobody /\ ~Foreign(e) -> "unknown_intent"
      [] nonce[e] # Nobody /\ form[e] \in {"mispriced", "misaddressed"} -> "mismatch"
      [] nonce[e] # Nobody /\ form[e] = "late" -> "expired"
      [] nonce[e] # Nobody /\ form[e] = "exact" ->
            IF MarkPaid(e) THEN "applied" ELSE "mismatch"
      [] OTHER -> "none"

(* One SQL transaction: a receipt that has its row is not settled again. *)
KnownApplied(e) == row[e] \in {"applied", "mismatch"}

Known(e) == row[e] # "none"

ApplyPaymentReceipt(e) ==
    IF Known(e) THEN UNCHANGED <<row, payment>>
    ELSE /\ row' = [row EXCEPT ![e] = settleReceipt(e)]
         /\ payment' = IF settleReceipt(e) = "applied"
                      THEN [payment EXCEPT ![nonce[e]] = "paid"] ELSE payment

(* A paid transaction whose batch failed is refunded. *)
RefundPaidTransaction(t) ==
    /\ payment[t] = "paid"
    /\ payment' = [payment EXCEPT ![t] = "refunded"]
    /\ UNCHANGED <<sui, stored, row, pc, memory, first, mishaps>>

------------------------------------------------------------------------------
(* The listener. *)

Mishap ==
    /\ mishaps < MaxMishaps
    /\ mishaps' = mishaps + 1

loadCursor ==
    /\ pc = "down"
    /\ pc' = "retry" /\ cursor' = stored
    /\ UNCHANGED <<sui, stored, row, payment, to, pending, runStart, last, running, first, mishaps>>

(* One stored cursor, also remembered; the first one is the starting point. *)
storeCursor(seq) ==
    /\ stored' = seq /\ cursor' = seq
    /\ first' = IF stored = NoCursor THEN seq ELSE first

Bound == IF height < indexed THEN height ELSE indexed

(* A subscription starts with an empty streamState. *)
Subscribe == pc' = "subscribed" /\ running' = FALSE /\ runStart' = 0 /\ last' = 0

(* Without a cursor the proven bound becomes the starting point. *)
CatchUpFresh ==
    /\ pc = "retry" /\ cursor = NoCursor
    /\ storeCursor(Bound)
    /\ Subscribe
    /\ UNCHANGED <<sui, row, payment, to, pending, mishaps>>

UpToDateNearly(bound) == cursor + 1 >= bound

UpToDate(bound) == cursor >= bound

CatchUpNone ==
    /\ pc = "retry" /\ cursor # NoCursor
    /\ UpToDate(Bound)
    /\ Subscribe
    /\ UNCHANGED <<sui, stored, row, payment, cursor, to, pending, first, mishaps>>

(* catchUpRange asks for the events of (cursor, bound]. *)
CatchUpBegin ==
    /\ pc = "retry" /\ cursor # NoCursor
    /\ ~UpToDate(Bound)
    /\ pc' = "range" /\ to' = Bound /\ pending' = Receipt(cursor, Bound)
    /\ UNCHANGED <<sui, stored, row, payment, cursor, runStart, last, running, first, mishaps>>

(* Events come in the order of the chain; one that does not decode is an error. *)
IsNextReceipt(e) == e \in pending /\ \A f \in pending : at[e] <= at[f]

processPaymentReceipt(e) ==
    /\ pc \in {"range", "gap", "record"}
    /\ IsNextReceipt(e) /\ form[e] # "garbled"
    /\ ApplyPaymentReceipt(e)
    /\ pending' = pending \ {e}
    /\ UNCHANGED <<sui, stored, pc, cursor, to, runStart, last, running, first, mishaps>>

(* The range is recorded: its end is stored, and Start subscribes or the    *)
(* streamed checkpoint that met the gap is recorded next.                   *)
RangeDone ==
    /\ pc \in {"range", "gap"} /\ pending = {}
    /\ storeCursor(to)
    /\ to' = 0
    /\ \/ pc = "range" /\ Subscribe /\ UNCHANGED pending
       \/ /\ pc = "gap" /\ pc' = "record"
          /\ pending' = Receipt(last - 1, last)
          /\ UNCHANGED <<runStart, last, running>>
    /\ UNCHANGED <<sui, row, payment, mishaps>>

(* A streamed checkpoint starts a new run unless it follows the last one. *)
RunStart(seq) == IF running /\ seq = last + 1 THEN runStart ELSE seq

GapBound(seq) == IF indexed < RunStart(seq) - 1 THEN indexed ELSE RunStart(seq) - 1

(* stream.Recv and the first half of streamCheckpoint: checkpoints between  *)
(* the cursor and the run are read from the indexer, as far as it has them. *)
Recv(seq) ==
    /\ pc = "subscribed" /\ seq \in 1..height
    /\ running => seq > last
    /\ runStart' = RunStart(seq) /\ last' = seq /\ running' = TRUE
    /\ IF cursor + 1 < RunStart(seq) /\ GapBound(seq) > cursor
       THEN pc' = "gap" /\ to' = GapBound(seq) /\ pending' = Receipt(cursor, GapBound(seq))
       ELSE pc' = "record" /\ pending' = Receipt(seq - 1, seq) /\ UNCHANGED to
    /\ UNCHANGED <<sui, stored, row, payment, cursor, first, mishaps>>

(* The cursor moves over a streamed checkpoint only when the run reaches it. *)
StaysBehindSeen == cursor >= last
StaysBehindRun == cursor + 1 < runStart

StaysBehind == cursor + 1 < runStart \/ cursor >= last

RecordDone ==
    /\ pc = "record" /\ pending = {}
    /\ pc' = "subscribed"
    /\ IF StaysBehind THEN UNCHANGED <<stored, cursor, first>> ELSE storeCursor(last)
    /\ UNCHANGED <<sui, row, payment, to, pending, runStart, last, running, mishaps>>

(* What a failed range or checkpoint leaves: nothing but the cursor. *)
Forget == to' = 0 /\ pending' = {} /\ runStart' = 0 /\ last' = 0 /\ running' = FALSE

Interrupted == pc' = "retry" /\ Forget /\ UNCHANGED <<sui, stored, cursor, first>>

(* A query, a write or the subscription fails.  A commit that reports an    *)
(* error may have taken effect.                                             *)
Fails ==
    /\ pc \in {"range", "gap", "record", "subscribed"}
    /\ Mishap /\ Interrupted
    /\ \/ UNCHANGED <<row, payment>>
       \/ \E e \in pending : IsNextReceipt(e) /\ form[e] # "garbled" /\ ApplyPaymentReceipt(e)

(* An undecodable receipt stops the range every time it is read. *)
DecodeFails ==
    /\ pc \in {"range", "gap", "record"}
    /\ \E e \in pending : IsNextReceipt(e) /\ form[e] = "garbled"
    /\ Interrupted
    /\ UNCHANGED <<row, payment, mishaps>>

(* The subscription ends with nothing more to come: what the bounded chain  *)
(* has instead of its next checkpoint.                                      *)
StreamEnds ==
    /\ pc = "subscribed" /\ height = MaxHeight
    /\ Interrupted
    /\ UNCHANGED <<row, payment, mishaps>>

ListenerCrash ==
    /\ pc # "down" /\ Mishap
    /\ pc' = "down"
    /\ cursor' = NoCursor /\ Forget
    /\ UNCHANGED <<sui, stored, row, payment, first>>

Listener ==
    \/ loadCursor \/ CatchUpFresh \/ CatchUpNone \/ CatchUpBegin
    \/ \E e \in Receipts : processPaymentReceipt(e)
    \/ RangeDone \/ RecordDone \/ DecodeFails \/ StreamEnds

ListenerNext ==
    \/ \E S \in SUBSET Receipts : Checkpoint(S)
    \/ Ingest
    \/ \E t \in Transactions : RefundPaidTransaction(t)
    \/ Listener
    \/ \E seq \in 1..height : Recv(seq)
    \/ Fails \/ ListenerCrash

ListenerSpec == ListenerInit /\ [][ListenerNext]_listenerVars

(* The listener goroutine keeps running and the indexer keeps ingesting.    *)
FairListenerSpec ==
    /\ ListenerSpec
    /\ WF_listenerVars(Listener) /\ WF_listenerVars(Ingest) /\ WF_listenerVars(Checkpoint({}))

------------------------------------------------------------------------------
ListenerTypeOK ==
    /\ nonce \in [Receipts -> Transactions \cup {Nobody}]
    /\ form \in [Receipts -> Forms]
    /\ height \in Nat /\ indexed \in Nat
    /\ at \in [Receipts -> Nat]
    /\ stored \in Cursors /\ cursor \in Cursors /\ first \in Cursors
    /\ row \in [Receipts -> Dispositions \cup {"none"}]
    /\ payment \in [Transactions -> Statuses]
    /\ pc \in Stages
    /\ to \in Nat /\ pending \subseteq Receipts
    /\ runStart \in Nat /\ last \in Nat /\ running \in BOOLEAN
    /\ mishaps \in Nat

(* A receipt that is recorded, or is not ours to record. *)
Settled(e) == row[e] # "none" \/ (Foreign(e) /\ form[e] # "garbled")

(* "The stored cursor names the last checkpoint whose receipts are all      *)
(* recorded" (Listener.Start): no receipt after the starting point is ever  *)
(* behind the cursor without its row, whatever was skipped, read twice,     *)
(* interrupted or restarted.                                                *)
CursorCoversRecorded ==
    stored # NoCursor => \A e \in Receipt(first, stored) : Settled(e)

Pays(e, t) == nonce[e] = t /\ row[e] = "applied"

(* A transaction has left outstanding exactly when one receipt was applied  *)
(* to it, and never more than one (ApplyPaymentReceipt, settleReceipt).     *)
PaidByOneReceipt ==
    \A t \in Transactions :
        IF payment[t] = "outstanding" THEN \A e \in Receipts : ~Pays(e, t)
        ELSE \E e \in Receipts : Pays(e, t) /\ \A f \in Receipts : Pays(f, t) => f = e

(* The stored cursor never goes back (streamCheckpoint's last condition,    *)
(* catchUpTo's bound).                                                      *)
CursorAdvances ==
    [][stored # NoCursor => stored' # NoCursor /\ stored' >= stored]_listenerVars

(* Every receipt emitted after the starting point is recorded in the end,   *)
(* unless an event does not decode: that one stops the cursor on purpose.   *)
ReceiptIsRecorded ==
    \A e \in Receipts :
        (first # NoCursor /\ at[e] > first /\ \A f \in Receipts : form[f] # "garbled")
            ~> Settled(e)

(* What the listener has stored is true: its cursor passed nothing by, and  *)
(* each transaction was paid by one receipt (streamCheckpoint,              *)
(* ApplyPaymentReceipt).                                                    *)
ReceiptsAreHonest == ListenerTypeOK /\ CursorCoversRecorded /\ PaidByOneReceipt

==============================================================================
