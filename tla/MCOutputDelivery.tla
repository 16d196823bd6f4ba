-------------------------- MODULE MCOutputDelivery --------------------------
(* Small instances of OutputDelivery for TLC. *)
EXTENDS OutputDelivery

CONSTANT r1
=============================================================================
