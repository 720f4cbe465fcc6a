---------------------------- MODULE DurableQueue ----------------------------
(***************************************************************************)
(* What the persistence of the queue promises, without files, tasks or     *)
(* compaction: the operations on messages become durable one by one in the *)
(* order they were issued, the last operation on a message decides whether *)
(* a restart brings it back, the end of the process forgets only the       *)
(* operations issued last, and a write that fails costs its own operation  *)
(* and, when it damages the file, one operation more                       *)
(* (aim_client/queue_persist.py, lines 3-7).                               *)
(***************************************************************************)
EXTENDS Integers, Sequences

CONSTANT Messages

VARIABLES
    durable,    \* the messages a restart would bring back
    waiting,    \* the operations issued and not yet durable, in order
    damaged     \* the next operation to become durable will be lost

vars == <<durable, waiting, damaged>>

Entries == [op : {"enqueue", "ack", "nack"}, id : Messages]

Apply(S, entry) ==
    IF entry.op = "enqueue" THEN S \cup {entry.id} ELSE S \ {entry.id}

Init == durable = {} /\ waiting = <<>> /\ damaged = FALSE

Issue ==
    /\ \E entry \in Entries : waiting' = Append(waiting, entry)
    /\ UNCHANGED <<durable, damaged>>

BecomeDurable ==
    /\ waiting # <<>> /\ ~damaged
    /\ durable' = Apply(durable, Head(waiting))
    /\ waiting' = Tail(waiting)
    /\ UNCHANGED damaged

Fail ==
    /\ waiting # <<>>
    /\ waiting' = Tail(waiting)
    /\ damaged' \in {TRUE, damaged}
    /\ UNCHANGED durable

LoseOne ==
    /\ waiting # <<>> /\ damaged
    /\ waiting' = Tail(waiting)
    /\ damaged' = FALSE
    /\ UNCHANGED durable

Repair == damaged' = FALSE /\ UNCHANGED <<durable, waiting>>

Stop ==
    /\ \E k \in 0 .. Len(waiting) - 1 : waiting' = SubSeq(waiting, 1, k)
    /\ UNCHANGED <<durable, damaged>>

Next == Issue \/ BecomeDurable \/ Fail \/ LoseOne \/ Repair \/ Stop

Spec == Init /\ [][Next]_vars

=============================================================================
