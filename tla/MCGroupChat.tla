---------------------------- MODULE MCGroupChat -----------------------------
(* GroupChat with two agents; one tick is the reply cooldown, 30 s.        *)
EXTENDS GroupChat
=============================================================================
