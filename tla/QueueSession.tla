---------------------------- MODULE QueueSession ----------------------------
(***************************************************************************)
(* One lifetime of a MessageQueue (aim_client/queue.py) under every        *)
(* sequence of calls its interface allows.  Messages are numbered by the   *)
(* order of their arrival, so that the order the queue promises can be     *)
(* stated; `restored' is what init_persist put into the fresh queue,       *)
(* which is not checked against the capacity.                              *)
(***************************************************************************)
EXTENDS MessageQueue

CONSTANTS
    MaxArrivals,   \* bound: number of messages that arrive in a session
    MaxRestored    \* bound: number of messages a restart may restore

ASSUME SessionAssumption ==
    MaxArrivals \in Nat /\ MaxRestored \in Nat /\ NoMsg = 0

VARIABLES
    arrived,    \* history: how many messages have entered the queue
    restored,   \* history: how many of them were there at the start
    acked,      \* history: the messages that were acknowledged
    evicted,    \* history: the messages a full queue dropped
    expired     \* history: the messages purged from the dead queue

sessionVars == <<pending, processing, dead, arrived, restored, acked, evicted, expired>>

SessionInit ==
    /\ restored \in 0 .. MaxRestored
    /\ pending = [i \in 1 .. restored |-> i]
    /\ processing = NoMsg
    /\ dead = <<>>
    /\ arrived = restored
    /\ acked = {} /\ evicted = {} /\ expired = {}

-----------------------------------------------------------------------------

SessionEnqueue ==
    /\ arrived < restored + MaxArrivals
    /\ arrived' = arrived + 1
    /\ Enqueue(arrived + 1)
    /\ evicted' = IF Full THEN evicted \cup {Head(pending)} ELSE evicted
    /\ UNCHANGED <<restored, acked, expired>>

SessionDequeue ==
    /\ Dequeue
    /\ UNCHANGED <<arrived, restored, acked, evicted, expired>>

SessionAck ==
    /\ processing # NoMsg
    /\ Ack(processing)
    /\ acked' = acked \cup {processing}
    /\ UNCHANGED <<arrived, restored, evicted, expired>>

SessionNack ==
    /\ processing # NoMsg
    /\ \E late \in BOOLEAN : Nack(processing, late)
    /\ UNCHANGED <<arrived, restored, acked, evicted, expired>>

SessionPurge ==
    /\ PurgeDead
    /\ expired' = expired \cup
          {dead[i] : i \in 1 .. (Len(dead) - Len(dead'))}
    /\ UNCHANGED <<arrived, restored, acked, evicted>>

SessionNext == SessionEnqueue \/ SessionDequeue \/ SessionAck \/ SessionNack \/ SessionPurge

SessionSpec == SessionInit /\ [][SessionNext]_sessionVars

-----------------------------------------------------------------------------

Occupied == IF processing = NoMsg THEN 0 ELSE 1

(* Every message known to the session is a number up to `arrived'; the    *)
(* slot and both deques hold messages only.                                *)
SessionTypeOK ==
    /\ arrived \in Nat
    /\ restored \in 0 .. MaxRestored
    /\ pending \in Seq(1 .. arrived)
    /\ processing \in 0 .. arrived
    /\ dead \in Seq(1 .. arrived)
    /\ acked \subseteq 1 .. arrived
    /\ evicted \subseteq 1 .. arrived
    /\ expired \subseteq 1 .. arrived

(* First in, first out, through every mixture of retries and drops: the    *)
(* message being processed is older than every pending one and the pending *)
(* ones are in arrival order.  nack puts a message back at the head        *)
(* (queue.py:124) and enqueue drops from the head, so the order could be   *)
(* broken by either.                                                       *)
ArrivalOrder ==
    /\ \A i, j \in 1 .. Len(pending) : i < j => pending[i] < pending[j]
    /\ processing # NoMsg =>
          \A i \in 1 .. Len(pending) : processing < pending[i]

(* The bound a capacity really gives (queue.py:67): enqueue checks only    *)
(* the pending deque and nack checks nothing, so the queue holds at most   *)
(* one message above the capacity, or above what a restart restored.       *)
BacklogBound ==
    Len(pending) + Occupied <=
        (IF restored > Capacity THEN restored ELSE Capacity) + 1

(* No message is in two places or lost without a trace: every message that *)
(* arrived is in exactly one of the pending deque, the slot, the dead      *)
(* queue, or was acknowledged, dropped or purged.                          *)
Places == <<{pending[i] : i \in 1 .. Len(pending)},
            {processing} \ {NoMsg},
            {dead[i] : i \in 1 .. Len(dead)},
            acked, evicted, expired>>

EveryMessageInOnePlace ==
    /\ UNION {Places[i] : i \in 1 .. 6} = 1 .. arrived
    /\ \A i, j \in 1 .. 6 : i # j => Places[i] \cap Places[j] = {}
    /\ \A i, j \in 1 .. Len(dead) : i # j => dead[i] # dead[j]

=============================================================================
