-------------------------- MODULE MCDispatchGates ---------------------------
(* DispatchGates with the default degradation triggers and short times.    *)
EXTENDS DispatchGates
=============================================================================
