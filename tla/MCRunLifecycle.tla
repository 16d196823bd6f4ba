--------------------------- MODULE MCRunLifecycle ---------------------------
(* RunLifecycle for TLC. *)
EXTENDS RunLifecycle, TLC

CONSTANTS r1, r2, c1, c2

OneRun == {r1}
TwoRuns == {r1, r2}
OneSubmitter == {c1}
TwoSubmitters == {c1, c2}
Symmetry == Permutations(Runs) \cup Permutations(Submitters)
=============================================================================
