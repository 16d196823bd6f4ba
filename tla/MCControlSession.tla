-------------------------- MODULE MCControlSession --------------------------
(* ControlSession with finite constants.                                    *)
EXTENDS ControlSession

CONSTANT c1
=============================================================================
