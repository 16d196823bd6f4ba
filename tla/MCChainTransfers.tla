-------------------------- MODULE MCChainTransfers --------------------------
(* ChainTransfers on a small instance. *)
EXTENDS ChainTransfers
CONSTANTS o1, o2, c1
MCPrice == [o \in Orders |-> 1]
=============================================================================
