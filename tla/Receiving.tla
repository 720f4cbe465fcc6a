----------------------------- MODULE Receiving ------------------------------
(***************************************************************************)
(* An agent that receives what is addressed to it twice over, by a plain   *)
(* subscription and by a durable consumer (AIMNATSClient, aim_nats_sdk.py),*)
(* and what is said in groups by another, and tells with its pin what it   *)
(* has already got.                                                        *)
(*                                                                         *)
(* The copies of the SDK differ in the order of marking and handling:      *)
(* aim_nats_sdk.py and aim-client/aim_nats_sdk.py mark first, the one in   *)
(* src/ when the handler is done.  markFirst tells which one it is.        *)
(*                                                                         *)
(* The callback of a subscription runs for one message at a time, and so   *)
(* does the loop of the consumer.  The server delivers what is not         *)
(* acknowledged again, at any time and MaxDeliver times at most: it does   *)
(* so after a nak and when ack_wait has passed.                            *)
(***************************************************************************)
EXTENDS Pin, SequencesExt

CONSTANTS
    Direct,        \* the messages to the agent itself, the others are a group's
    MaxCopies,     \* bound: how often a message is stored
    MaxDeliver,    \* max_deliver of setup_consumer
    MaxFaults      \* bound: failing handlers, lost acks, crashes, file errors

Copies == Messages \X (1 .. MaxCopies)
Paths == {"dm", "grp", "js"}

ASSUME ReceivingAssumption ==
    /\ Direct \subseteq Messages /\ None \notin Copies
    /\ MaxCopies \in Nat \ {0} /\ MaxDeliver \in Nat \ {0} /\ MaxFaults \in Nat

VARIABLES
    markFirst,    \* which copy of the SDK it is
    stored,       \* the copies in the stream aim-messages
    deliveries,   \* per copy, how often it was delivered
    acked,        \* the copies the server takes for acknowledged
    arrived,      \* per path, what the client has received and not begun
    task,         \* per path, what its handler works on, or None
    faults,       \* counter for the bound
    begun,        \* history: per message, the age of its last handling
    finished,     \* history: messages handled to the end
    again,        \* history: handled again within the time to live
    excused,      \* history: the pin may have forgotten the last handling
    crashed       \* history: the process has died

stream == <<stored, deliveries, acked>>
client == <<arrived, task>>
history == <<begun, finished, again, excused, crashed>>
vars == <<pin, markFirst, stream, client, faults, history>>

Init ==
    /\ PinInit
    /\ markFirst \in BOOLEAN
    /\ stored = {} /\ deliveries = [c \in Copies |-> 0] /\ acked = {}
    /\ arrived = [p \in Paths |-> <<>>] /\ task = [p \in Paths |-> None]
    /\ faults = 0
    /\ begun = [m \in Messages |-> None] /\ finished = {}
    /\ again = {} /\ excused = {} /\ crashed = FALSE

Fault == faults < MaxFaults /\ faults' = faults + 1

-----------------------------------------------------------------------------
(* The server.  A sender that tries again may publish a message again; the *)
(* stream leaves it out within duplicate_window, the subscription does not.*)
(* Who is not connected does not hear what is published.                   *)
Arrive(p, c) == arrived' = [arrived EXCEPT ![p] = Append(@, c)]

Publish(m) ==
    \E i \in 1 .. MaxCopies :
        /\ <<m, i>> \notin stored /\ (i > 1 => <<m, i - 1>> \in stored)
        /\ stored' = stored \union {<<m, i>>}
        /\ Arrive(IF m \in Direct THEN "dm" ELSE "grp", <<m, i>>) \/ UNCHANGED arrived
        /\ UNCHANGED <<pin, markFirst, deliveries, acked, task, faults, history>>

Deliver(c) ==
    /\ c \in stored \ acked /\ c[1] \in Direct /\ deliveries[c] < MaxDeliver
    /\ deliveries' = [deliveries EXCEPT ![c] = @ + 1]
    /\ Arrive("js", c)
    /\ UNCHANGED <<pin, markFirst, stored, acked, task, faults, history>>

-----------------------------------------------------------------------------
(* The client. *)
Take(p) == arrived' = [arrived EXCEPT ![p] = Tail(@)]
Waits(p) == arrived[p] # <<>> /\ task[p] = None

(* An acknowledgement is sent and not waited for. *)
Acknowledge(p, c) ==
    IF p # "js" THEN UNCHANGED <<acked, faults>>
    ELSE \/ acked' = acked \union {c} /\ UNCHANGED faults
         \/ Fault /\ UNCHANGED acked

(* The file is read unless that fails. *)
Reading(readable) ==
    \/ readable /\ UNCHANGED faults
    \/ ~readable /\ Fault

(* The marks other than m's that went over the capacity and are in memory  *)
(* only.                                                                   *)
Forgotten(m) ==
    {n \in Held(cache) \ persisted : n # m /\ cache'[n] = None}

(* A message the pin does not know goes to the handler. *)
Begin(p, readable) ==
    LET m == Head(arrived[p])[1] IN
    /\ Waits(p) /\ Reading(readable)
    /\ IF markFirst THEN CheckAndMark(m, readable) ELSE IsNew(m, readable)
    /\ excused' = (excused \ {m}) \union Forgotten(m)
    /\ begun' = [begun EXCEPT ![m] = 0]
    /\ again' = IF begun[m] # None /\ begun[m] < Ttl /\ m \notin excused /\ readable
                THEN again \union {m} ELSE again
    /\ Take(p) /\ task' = [task EXCEPT ![p] = Head(arrived[p])]
    /\ UNCHANGED <<markFirst, stream, finished, crashed>>

(* A duplicate is dropped, and acknowledged to the consumer. *)
Drop(p) ==
    LET c == Head(arrived[p]) IN
    /\ Waits(p)
    /\ IsDuplicate(c[1], TRUE)
    /\ Take(p) /\ Acknowledge(p, c)
    /\ UNCHANGED <<markFirst, stored, deliveries, task, history>>

Ends(p) == task' = [task EXCEPT ![p] = None]

(* Without marking first the message is marked now. *)
HandlerReturns(p) ==
    LET c == task[p] IN
    /\ c # None
    /\ IF markFirst THEN UNCHANGED pin
       ELSE MarkIn(cache, c[1]) /\ UNCHANGED <<persisted, db>>
    /\ finished' = finished \union {c[1]}
    /\ Ends(p) /\ Acknowledge(p, c)
    /\ UNCHANGED <<markFirst, stored, deliveries, arrived, begun, again, excused, crashed>>

(* Faults: what failed is acknowledged, or marked, like what succeeded.    *)
HandlerRaisesAcked(p) ==
    /\ task[p] # None
    /\ Fault /\ Ends(p)
    /\ acked' = IF p = "js" THEN acked \union {task[p]} ELSE acked
    /\ UNCHANGED <<pin, markFirst, stored, deliveries, arrived, history>>

HandlerRaisesMarked(p) ==
    /\ task[p] # None
    /\ Fault /\ Ends(p)
    /\ MarkIn(cache, task[p][1])
    /\ UNCHANGED <<persisted, db, markFirst, stream, arrived, history>>

(* An exception is logged; the consumer's message is not acknowledged.     *)
HandlerRaises(p) ==
    /\ task[p] # None
    /\ Fault /\ Ends(p)
    /\ UNCHANGED <<pin, markFirst, stream, arrived, history>>

-----------------------------------------------------------------------------
(* _periodic_flush, and the flush of disconnect before the process ends. *)
Flush ==
    /\ PersistBatch
    /\ UNCHANGED <<markFirst, stream, client, faults, history>>

Clear ==
    /\ Fault /\ ClearPin
    /\ excused' = Messages
    /\ UNCHANGED <<markFirst, stream, client, begun, finished, again, crashed>>

(* The process ends, orderly or not, and a new one subscribes. *)
Restart ==
    /\ Fault /\ ReopenPin
    /\ arrived' = [p \in Paths |-> <<>>] /\ task' = [p \in Paths |-> None]
    /\ excused' = {m \in Messages : db'[m] # begun[m]}
    /\ crashed' = TRUE
    /\ UNCHANGED <<markFirst, stream, begun, finished, again>>

Tick ==
    /\ AgePin
    /\ begun' = [m \in Messages |-> Older(begun[m])]
    /\ UNCHANGED <<markFirst, stream, client, faults, finished, again, excused, crashed>>

Step(p) == Begin(p, TRUE) \/ Drop(p) \/ HandlerReturns(p)

Next ==
    \/ \E m \in Messages : Publish(m)
    \/ \E c \in Copies : Deliver(c)
    \/ \E p \in Paths : Step(p) \/ Begin(p, FALSE) \/ HandlerRaises(p)
    \/ Flush \/ Clear \/ Restart \/ Tick

Spec == Init /\ [][Next]_vars

(* The server delivers what is stored, and the loops run: a handler ends.  *)
FairSpec ==
    /\ Spec
    /\ \A c \in Copies : WF_vars(Deliver(c))
    /\ \A p \in Paths : WF_vars(Step(p))

-----------------------------------------------------------------------------
TypeOK ==
    /\ PinTypeOK
    /\ markFirst \in BOOLEAN
    /\ stored \subseteq Copies /\ acked \subseteq stored
    /\ deliveries \in [Copies -> 0 .. MaxDeliver]
    /\ arrived \in [Paths -> Seq(Copies)]
    /\ task \in [Paths -> Copies \union {None}]
    /\ faults \in 0 .. MaxFaults
    /\ begun \in [Messages -> Mark]
    /\ finished \subseteq Messages /\ again \subseteq Messages
    /\ excused \subseteq Messages /\ crashed \in BOOLEAN

(* Where the message is marked first it is not handled again within the    *)
(* time to live, by whichever path it comes and whatever the server        *)
(* delivers again, after a restart too, unless the mark was evicted,       *)
(* cleared, unreadable, or not yet in the file when the process ended.     *)
HandledOnce == markFirst => again = {}

(* What the server takes for acknowledged was handled to the end, or, if   *)
(* marks come first, handed to the handler at least.                       *)
AckedIsHandled ==
    \A c \in acked : IF markFirst THEN begun[c[1]] # None ELSE c[1] \in finished

(* A message to the agent is handled to the end, unless it was marked before its *)
(* handler failed, or the process died: a redelivery makes up for a        *)
(* handler that fails as long as there are more deliveries than failures.  *)
EventuallyHandled ==
    \A m \in Direct :
        <<m, 1>> \in stored ~>
            m \in finished \/ crashed \/ (markFirst /\ begun[m] # None)
=============================================================================
