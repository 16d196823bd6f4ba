-------------------------- MODULE SettlementLedger --------------------------
(***************************************************************************)
(* What the dispatcher promises about the money it holds for orders: each  *)
(* order's price goes to the executor or back to the buyer, decided once;  *)
(* the chain never moves more to the executor than it was credited, and    *)
(* never returns an order that was not refunded, or one twice.             *)
(***************************************************************************)
EXTENDS Integers, FiniteSetsExt

CONSTANTS Orders, Price

VARIABLES
    fate,      \* order -> "held", "executor" or "buyer"
    paid,      \* moved to the executor on the chain
    returned   \* orders whose price went back to the buyer on the chain

ledger == <<fate, paid, returned>>

Value(S) == MapThenSumSet(LAMBDA o : Price[o], S)
Owed(who) == {o \in Orders : fate[o] = who}

LedgerInit == fate = [o \in Orders |-> "held"] /\ paid = 0 /\ returned = {}

(* Orders leave "held" once. *)
Decide(S, who) ==
    /\ S # {} /\ \A o \in S : fate[o] = "held"
    /\ fate' = [o \in Orders |-> IF o \in S THEN who ELSE fate[o]]
    /\ UNCHANGED <<paid, returned>>

(* The chain pays the executor part of what it was credited. *)
PayOut(n) ==
    /\ paid + n <= Value(Owed("executor"))
    /\ paid' = paid + n
    /\ UNCHANGED <<fate, returned>>

(* The chain returns refunded orders. *)
Return(S) ==
    /\ S \subseteq Owed("buyer") \ returned
    /\ returned' = returned \cup S
    /\ UNCHANGED <<fate, paid>>

LedgerNext ==
    \/ \E S \in SUBSET Orders, who \in {"executor", "buyer"} : Decide(S, who)
    \/ \E n \in 1..Value(Orders) : PayOut(n)
    \/ \E S \in SUBSET Orders : Return(S)

LedgerSpec == LedgerInit /\ [][LedgerNext]_ledger
==============================================================================
