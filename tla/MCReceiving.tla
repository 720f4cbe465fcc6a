---------------------------- MODULE MCReceiving -----------------------------
(* Receiving with two messages and a pin that holds one.                   *)
EXTENDS Receiving
=============================================================================
