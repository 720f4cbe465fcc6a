---------------------------- MODULE MessageQueue ----------------------------
(***************************************************************************)
(* The in-memory message queue of aim_client/queue.py: a bounded FIFO of   *)
(* pending messages, one slot for the message being processed, and a dead  *)
(* queue.  One operator per method; the modules that use the queue (a      *)
(* session of it, its persistence, the client's dispatch loop) conjoin     *)
(* these operators with their own changes.                                 *)
(*                                                                         *)
(* Timestamps are abstracted: whether a negatively acknowledged message    *)
(* has been held longer than processing_timeout is the argument `late',    *)
(* and which dead messages have outlived dead_ttl is chosen by PurgeDead.  *)
(***************************************************************************)
EXTENDS Integers, Sequences

CONSTANTS
    Capacity,   \* MessageQueue.capacity
    NoMsg       \* the value of _processing when no message is in the slot

(* With a capacity of 0 the first enqueue would pop an empty deque. *)
ASSUME CapacityAssumption == Capacity \in Nat \ {0}

VARIABLES
    pending,      \* _pending, a deque of messages
    processing,   \* _processing, a message or NoMsg
    dead          \* _dead, without the expiry times

queueVars == <<pending, processing, dead>>

QueueInit ==
    /\ pending = <<>>
    /\ processing = NoMsg
    /\ dead = <<>>

(* The messages the queue holds, in the order they will be dispatched. *)
Backlog ==
    IF processing = NoMsg THEN pending ELSE <<processing>> \o pending

-----------------------------------------------------------------------------

(* Fault: the boundary of the capacity. *)
FullBeyond == Len(pending) > Capacity

Full == Len(pending) >= Capacity

(* enqueue: a full queue drops its oldest pending message first. *)
Enqueue(m) ==
    /\ pending' = Append(IF Full THEN Tail(pending) ELSE pending, m)
    /\ UNCHANGED <<processing, dead>>

(* dequeue returns None while a message is in the slot. *)
CanDequeue == processing = NoMsg /\ pending # <<>>

Dequeue ==
    /\ CanDequeue
    /\ processing' = Head(pending)
    /\ pending' = Tail(pending)
    /\ UNCHANGED dead

(* ack of any other message than the one in the slot only logs a warning. *)
Ack(m) ==
    /\ processing' = IF processing = m THEN NoMsg ELSE processing
    /\ UNCHANGED <<pending, dead>>

(* Fault: a retried message goes to the tail. *)
NackToTail(m, late) ==
    IF processing = m
    THEN /\ processing' = NoMsg
         /\ pending' = IF late THEN pending ELSE Append(pending, m)
         /\ dead' = IF late THEN Append(dead, m) ELSE dead
    ELSE UNCHANGED queueVars

(* Fault: the slot is not freed. *)
NackKeepsSlot(m, late) ==
    IF processing = m
    THEN /\ pending' = IF late THEN pending ELSE <<m>> \o pending
         /\ dead' = IF late THEN Append(dead, m) ELSE dead
         /\ UNCHANGED processing
    ELSE UNCHANGED queueVars

(* nack: back to the head of pending, or to the dead queue when late. *)
Nack(m, late) ==
    IF processing = m
    THEN /\ processing' = NoMsg
         /\ pending' = IF late THEN pending ELSE <<m>> \o pending
         /\ dead' = IF late THEN Append(dead, m) ELSE dead
    ELSE UNCHANGED queueVars

(* The dispatch loop acknowledges some messages in the step in which it    *)
(* dequeues them: the slot is free again.                                  *)
DequeueAndAck ==
    /\ CanDequeue
    /\ pending' = Tail(pending)
    /\ UNCHANGED <<processing, dead>>

(* purge_dead: entries are appended with the same time to live, so the     *)
(* expired ones are a prefix.                                              *)
PurgeDead ==
    /\ \E k \in 1 .. Len(dead) : dead' = SubSeq(dead, k + 1, Len(dead))
    /\ UNCHANGED <<pending, processing>>

=============================================================================
