----------------------------- MODULE RunCustody -----------------------------
(***************************************************************************)
(* What the executor promises about one stored run, whatever happens to    *)
(* the process: it is accepted once, marked before it starts, started at   *)
(* most once per acceptance, and a mark left behind by a dead process      *)
(* never leads to a start.  ExecutorScheduler implements this.             *)
(***************************************************************************)
EXTENDS Naturals

CONSTANT Runs

VARIABLES
  custody,  \* custody[r]: "absent", "accepted", "marked" or "spent"
  starts    \* starts[r]: times the accepted run's body was started

custodyVars == <<custody, starts>>

CustodyInit ==
  /\ custody = [r \in Runs |-> "absent"] /\ starts = [r \in Runs |-> 0]

Accept(r) ==
  /\ custody[r] = "absent" /\ custody' = [custody EXCEPT ![r] = "accepted"]
  /\ starts' = [starts EXCEPT ![r] = 0]

Mark(r) ==
  /\ custody[r] = "accepted" /\ custody' = [custody EXCEPT ![r] = "marked"]
  /\ UNCHANGED starts

Start(r) ==
  /\ custody[r] = "marked" /\ custody' = [custody EXCEPT ![r] = "spent"]
  /\ starts' = [starts EXCEPT ![r] = @ + 1]

\* The chance to start is gone: a cancellation won.
Lapse(r) ==
  /\ custody[r] = "marked" /\ custody' = [custody EXCEPT ![r] = "spent"]
  /\ UNCHANGED starts

\* The process died: every mark it left is spent.
LapseAll ==
  /\ custody' = [r \in Runs |-> IF custody[r] = "marked" THEN "spent" ELSE custody[r]]
  /\ UNCHANGED starts

Remove(r) ==
  /\ custody[r] \in {"accepted", "spent"} /\ custody' = [custody EXCEPT ![r] = "absent"]
  /\ starts' = [starts EXCEPT ![r] = 0]

CustodyNext ==
  \/ LapseAll
  \/ \E r \in Runs : Accept(r) \/ Mark(r) \/ Start(r) \/ Lapse(r) \/ Remove(r)

CustodySpec == CustodyInit /\ [][CustodyNext]_custodyVars
=============================================================================
