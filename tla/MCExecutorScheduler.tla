------------------------ MODULE MCExecutorScheduler ------------------------
(* Small instances of ExecutorScheduler for TLC. *)
EXTENDS ExecutorScheduler

CONSTANTS r1, r2, c1

\* r1 is due at once, r2 one tick later.
MCStartTime == [r \in Runs |-> IF r = r1 THEN 0 ELSE 1]
=============================================================================
