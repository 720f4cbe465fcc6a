----------------------------- MODULE MCRegistry ------------------------------
(* Registry with two anonymous agents and one that comes with its number.  *)
EXTENDS Registry
=============================================================================
