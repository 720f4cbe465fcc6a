---------------------------- MODULE MCAimClient -----------------------------
(* AimClient on two or three messages; the counters of the scheduler, which *)
(* decide no dispatch, are cut to one value.                               *)
EXTENDS AimClient
=============================================================================
