----------------------------- MODULE RunContract -----------------------------
(***************************************************************************)
(* What a client, an executor and the accounts are promised about the runs *)
(* of one paid batch: the batch is admitted whole or not at all, each run  *)
(* ends once, and its payment follows its end: the executor is credited    *)
(* for a success and for nothing else.  Only a batch whose submission      *)
(* failed is refunded ahead of that.  RunLifecycle implements this.        *)
(***************************************************************************)
CONSTANT Runs

VARIABLES
  verdict,  \* verdict[r]: "none", "open", "success", "failure" or "cancelled"
  money     \* money[r]: "outstanding", "credited" or "refunded"

contractVars == <<verdict, money>>

ContractInit ==
  /\ verdict = [r \in Runs |-> "none"] /\ money = [r \in Runs |-> "outstanding"]

AdmitBatch ==
  /\ \A r \in Runs : verdict[r] = "none" /\ money[r] = "outstanding"
  /\ verdict' = [r \in Runs |-> "open"] /\ UNCHANGED money

Decide(r, v) ==
  /\ verdict[r] = "open" /\ v \in {"success", "failure", "cancelled"}
  /\ verdict' = [verdict EXCEPT ![r] = v] /\ UNCHANGED money

Pay(r) ==
  /\ money[r] = "outstanding" /\ verdict[r] \in {"success", "failure", "cancelled"}
  /\ money' = [money EXCEPT ![r] = IF verdict[r] = "success" THEN "credited" ELSE "refunded"]
  /\ UNCHANGED verdict

\* What is still outstanding goes back; a credit stands.
RefundBatch ==
  /\ money' = [r \in Runs |-> IF money[r] = "outstanding" THEN "refunded" ELSE money[r]]
  /\ UNCHANGED verdict

ContractNext ==
  \/ AdmitBatch \/ RefundBatch
  \/ \E r \in Runs : Pay(r) \/ \E v \in {"success", "failure", "cancelled"} : Decide(r, v)

ContractSpec == ContractInit /\ [][ContractNext]_contractVars
=============================================================================
