---- MODULE MCGroups ----
EXTENDS Groups

CONSTANTS o, x

C(by, op, for) == [by |-> by, op |-> op, for |-> for]

(* What an applicant x and the owner o may do. *)
MCCommands == {C(o, "create", o), C(x, "join", x), C(o, "approve", x),
               C(o, "reject", x), C(x, "leave", x), C(o, "leave", x),
               C(o, "announce", o)}
====
