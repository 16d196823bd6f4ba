------------------------ MODULE MCBandwidthDelivery ------------------------
(* Small instances of BandwidthDelivery for TLC. *)
EXTENDS BandwidthDelivery

CONSTANT e1

\* A denial that expires and a limit that does not.
MCRequests == {[kind |-> "deny", exp |-> TRUE], [kind |-> "limit", exp |-> FALSE]}
=============================================================================
