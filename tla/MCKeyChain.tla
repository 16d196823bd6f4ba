----------------------------- MODULE MCKeyChain -----------------------------
(* One executor with one tagger and two heartbeat handlers at the dispatcher. *)
EXTENDS KeyChain

CONSTANT r1
=============================================================================
