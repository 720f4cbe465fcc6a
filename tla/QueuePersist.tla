---------------------------- MODULE QueuePersist ----------------------------
(***************************************************************************)
(* The message queue with its persistence: aim_client/queue.py on top of   *)
(* aim_client/queue_persist.py, through stops, crashes and restarts.       *)
(*                                                                         *)
(* Every operation of the queue creates an asyncio task that puts one      *)
(* entry on the write queue; the writer task appends the entries to a      *)
(* JSONL file; every write task looks at the file afterwards and may       *)
(* rewrite it in place (compaction) while entries are still waiting.  A    *)
(* task runs from one suspension to the next without interruption, tasks   *)
(* start in the order they were created, and putting on the unbounded      *)
(* write queue does not suspend: the put and the compaction after it are   *)
(* one step.                                                               *)
(***************************************************************************)
EXTENDS MessageQueue, SequencesExt, FiniteSetsExt

CONSTANTS
    Messages,        \* message ids
    MinLines,        \* COMPACT_MIN_LINES; the ratio applies above half of it
    Redelivery,      \* whether an id may arrive again in a later lifetime
    MaxFaults,       \* bound: failing writes
    MaxBoots         \* bound: lifetimes of the process

ASSUME PersistAssumption ==
    /\ NoMsg \notin Messages
    /\ MinLines \in Nat /\ MaxFaults \in Nat /\ MaxBoots \in Nat
    /\ Redelivery \in BOOLEAN

VARIABLES
    phase,     \* down, subscribed (before init_persist), up, closing
    tasks,     \* the write tasks created and not yet run
    writeQ,    \* _write_queue
    file,      \* the lines of queue.jsonl: entries or Garbage
    torn,      \* the last line has no newline: a write was cut short
    seen,      \* the ids the receiver deduplicates (main.py:1351)
    boots, faults,       \* counters for the bounds
    unlogged,  \* history: enqueued while _persist was None
    settled,   \* history: acked or dead since their last enqueue
    dropped,   \* history: dropped by a full queue
    failed,    \* history: an append of theirs failed
    spoiled    \* history: an entry of theirs joined a line that was cut short

memory == <<pending, processing, dead>>
history == <<unlogged, settled, dropped, failed, spoiled>>
vars == <<memory, phase, tasks, writeQ, file, torn, seen, boots, faults, history>>

Garbage == [op |-> "garbage"]
Entry(op, m) == [op |-> op, id |-> m]
Entries == [op : {"enqueue", "ack", "nack"}, id : Messages]
Lines == Entries \cup {Garbage}

-----------------------------------------------------------------------------
(* Reading the file, line after line.  The loops of the code are functions *)
(* by recursion on the sequence they go through.                           *)

(* Fault: reading stops at the first line that does not parse. *)
ReadUntilGarbage(lines) ==
    LET bad == {i \in DOMAIN lines : lines[i] = Garbage}
    IN  IF bad = {} THEN lines ELSE SubSeq(lines, 1, Min(bad) - 1)

(* The lines that parse. *)
Parsed[lines \in Seq(Lines)] ==
    IF lines = <<>> THEN <<>>
    ELSE IF Last(lines) = Garbage THEN Parsed[Front(lines)]
    ELSE Append(Parsed[Front(lines)], Last(lines))

(* _read_all_ops skips the lines that do not parse. *)
ReadAllOps(lines) == Parsed[lines]

(* last_ops[mid] = entry: a key that is assigned again keeps its place in  *)
(* the dictionary, a new key goes last.                                    *)
Assign(dict, entry) ==
    IF \E i \in DOMAIN dict : dict[i].id = entry.id
    THEN [i \in DOMAIN dict |-> IF dict[i].id = entry.id THEN entry ELSE dict[i]]
    ELSE Append(dict, entry)

(* The dictionary last_ops that restore and compact build. *)
LastOps[ops \in Seq(Entries)] ==
    IF ops = <<>> THEN <<>> ELSE Assign(LastOps[Front(ops)], Last(ops))

(* The items of last_ops whose operation is an enqueue.  Nothing calls     *)
(* write_retry, so no line is a retry.                                     *)
Enqueues[dict \in Seq(Entries)] ==
    IF dict = <<>> THEN <<>>
    ELSE IF Last(dict).op = "enqueue" THEN Append(Enqueues[Front(dict)], Last(dict))
    ELSE Enqueues[Front(dict)]

Unsettled(ops) == Enqueues[LastOps[ops]]

(* The messages that restore brings back. *)
Restore(lines) ==
    LET kept == Unsettled(ReadAllOps(lines)) IN [i \in DOMAIN kept |-> kept[i].id]

(* Fault: compaction writes the messages in the reverse order. *)
CompactReversed(lines) ==
    LET ops == ReadAllOps(lines)
    IN  IF Len(ops) < 2 THEN lines ELSE Reverse(Unsettled(ops))

(* compact keeps the last operation of an id only if it is an enqueue, and *)
(* leaves a file of fewer than two operations as it is.                    *)
Compact(lines) ==
    LET ops == ReadAllOps(lines)
    IN  IF Len(ops) < 2 THEN lines ELSE Unsettled(ops)

(* The thresholds of _maybe_compact; the size of the file depends on the   *)
(* length of the messages and may exceed 50 KB at any number of lines.     *)
ShouldCompact(lines, large) ==
    LET n == Len(lines)
        settles == Quantify(DOMAIN lines, LAMBDA i : lines[i].op \in {"ack", "nack"})
    IN  \/ large
        \/ n >= MinLines
        \/ n > MinLines \div 2 /\ 5 * settles > 2 * n

-----------------------------------------------------------------------------

Init ==
    /\ QueueInit
    /\ phase = "down"
    /\ tasks = <<>> /\ writeQ = <<>>
    /\ file = <<>> /\ torn = FALSE
    /\ seen = {}
    /\ boots = 0 /\ faults = 0
    /\ unlogged = {} /\ settled = {} /\ dropped = {}
    /\ failed = {} /\ spoiled = {}

(* A new process has subscribed and its queue is empty; the persistence is *)
(* attached later (main.py:795 and 825).                                   *)
Boot ==
    /\ phase = "down" /\ boots < MaxBoots
    /\ phase' = "subscribed"
    /\ boots' = boots + 1
    /\ seen' = IF Redelivery THEN {} ELSE seen
    /\ pending' = <<>> /\ processing' = NoMsg /\ dead' = <<>>
    /\ unlogged' = {} /\ settled' = {} /\ dropped' = {}
    /\ failed' = {} /\ spoiled' = {}
    /\ UNCHANGED <<tasks, writeQ, file, torn, faults>>

(* init_persist: what the file holds goes behind what has already arrived. *)
InitPersist ==
    /\ phase = "subscribed"
    /\ phase' = "up"
    /\ pending' = pending \o Restore(file)
    /\ UNCHANGED <<processing, dead, tasks, writeQ, file, torn, seen, boots,
                   faults, history>>

(* _schedule_persist *)
Schedule(entry) ==
    tasks' = IF phase = "up" THEN Append(tasks, entry) ELSE tasks

EnqueueNext(m) ==
    /\ phase \in {"subscribed", "up"}
    /\ m \notin seen
    /\ seen' = seen \cup {m}
    /\ Enqueue(m)
    /\ Schedule(Entry("enqueue", m))
    /\ settled' = settled \ {m}
    /\ dropped' = (IF Full THEN dropped \cup {Head(pending)} ELSE dropped) \ {m}
    /\ unlogged' = IF phase = "up" THEN unlogged \ {m} ELSE unlogged \cup {m}
    /\ UNCHANGED <<phase, writeQ, file, torn, boots, faults, failed, spoiled>>

(* The dispatch loop is started after init_persist. *)
DequeueNext ==
    /\ phase = "up"
    /\ Dequeue
    /\ UNCHANGED <<phase, tasks, writeQ, file, torn, seen, boots, faults, history>>

(* Fault: the acknowledgement is not recorded. *)
AckUnrecorded ==
    /\ phase = "up" /\ processing # NoMsg
    /\ Ack(processing)
    /\ settled' = settled \cup {processing}
    /\ UNCHANGED <<phase, tasks, writeQ, file, torn, seen, boots, faults, unlogged,
                   dropped, failed, spoiled>>

AckNext ==
    /\ phase = "up" /\ processing # NoMsg
    /\ Ack(processing)
    /\ Schedule(Entry("ack", processing))
    /\ settled' = settled \cup {processing}
    /\ UNCHANGED <<phase, writeQ, file, torn, seen, boots, faults, unlogged,
                   dropped, failed, spoiled>>

(* Fault: a nack that puts the message back is recorded as well. *)
NackAlwaysRecorded(late) ==
    /\ phase = "up" /\ processing # NoMsg
    /\ Nack(processing, late)
    /\ Schedule(Entry("nack", processing))
    /\ settled' = IF late THEN settled \cup {processing} ELSE settled
    /\ UNCHANGED <<phase, writeQ, file, torn, seen, boots, faults, unlogged,
                   dropped, failed, spoiled>>

(* Only a nack to the dead queue is recorded. *)
NackNext(late) ==
    /\ phase = "up" /\ processing # NoMsg
    /\ Nack(processing, late)
    /\ IF late
       THEN /\ Schedule(Entry("nack", processing))
            /\ settled' = settled \cup {processing}
       ELSE UNCHANGED <<tasks, settled>>
    /\ UNCHANGED <<phase, writeQ, file, torn, seen, boots, faults, unlogged,
                   dropped, failed, spoiled>>

-----------------------------------------------------------------------------

(* One write task: put the entry, then _maybe_compact. *)
RunWriteTask(large) ==
    /\ phase = "up" /\ tasks # <<>>
    /\ tasks' = Tail(tasks)
    /\ writeQ' = Append(writeQ, Head(tasks))
    /\ IF ShouldCompact(file, large) /\ Len(ReadAllOps(file)) >= 2
       THEN file' = Compact(file) /\ torn' = FALSE
       ELSE UNCHANGED <<file, torn>>
    /\ UNCHANGED <<memory, phase, seen, boots, faults, history>>

(* Fault: the entry put last is written first. *)
WriteLastFirst ==
    /\ phase \in {"up", "closing"} /\ writeQ # <<>>
    /\ writeQ' = Front(writeQ)
    /\ file' = IF torn THEN file ELSE Append(file, Last(writeQ))
    /\ torn' = FALSE
    /\ UNCHANGED <<memory, phase, tasks, seen, boots, faults, history>>

(* Fault: the writer waits for a batch of two. *)
WriteBatch ==
    /\ phase \in {"up", "closing"} /\ Len(writeQ) >= 2
    /\ writeQ' = Tail(Tail(writeQ))
    /\ file' = file \o SubSeq(writeQ, 1, 2)
    /\ torn' = FALSE
    /\ UNCHANGED <<memory, phase, tasks, seen, boots, faults, history>>

(* _append_line: the entry joins an unfinished last line if there is one,  *)
(* and the line of both does not parse.                                    *)
WriteLine ==
    /\ phase \in {"up", "closing"} /\ writeQ # <<>>
    /\ writeQ' = Tail(writeQ)
    /\ file' = IF torn THEN file ELSE Append(file, Head(writeQ))
    /\ torn' = FALSE
    /\ spoiled' = IF torn THEN spoiled \cup {Head(writeQ).id} ELSE spoiled
    /\ UNCHANGED <<memory, phase, tasks, seen, boots, faults, unlogged, settled,
                   dropped, failed>>

(* _append_line swallows every exception: nothing or part of the line is   *)
(* in the file and the entry is gone.                                      *)
WriteLineFails(partial) ==
    /\ phase \in {"up", "closing"} /\ writeQ # <<>>
    /\ faults < MaxFaults
    /\ faults' = faults + 1
    /\ writeQ' = Tail(writeQ)
    /\ failed' = failed \cup {Head(writeQ).id}
    /\ file' = IF partial /\ ~torn THEN Append(file, Garbage) ELSE file
    /\ torn' = (partial \/ torn)
    /\ UNCHANGED <<memory, phase, tasks, seen, boots, unlogged, settled,
                   dropped, spoiled>>

-----------------------------------------------------------------------------

(* The orderly end: asyncio.run cancels the tasks that have not started,   *)
(* then close_persist flushes the write queue (main.py:1729-1734).         *)
Close ==
    /\ phase = "up"
    /\ phase' = "closing"
    /\ tasks' = <<>>
    /\ UNCHANGED <<memory, writeQ, file, torn, seen, boots, faults, history>>

Closed ==
    /\ phase = "closing" /\ writeQ = <<>>
    /\ phase' = "down"
    /\ UNCHANGED <<memory, tasks, writeQ, file, torn, seen, boots, faults, history>>

(* SIGKILL, a power loss, or the alarm that ends a shutdown after 10 s.    *)
Crash ==
    /\ phase # "down"
    /\ phase' = "down"
    /\ tasks' = <<>> /\ writeQ' = <<>>
    /\ UNCHANGED <<memory, file, torn, seen, boots, faults, history>>

Next ==
    \/ Boot \/ InitPersist
    \/ \E m \in Messages : EnqueueNext(m)
    \/ DequeueNext \/ AckNext
    \/ \E late \in BOOLEAN : NackNext(late)
    \/ \E large \in BOOLEAN : RunWriteTask(large)
    \/ WriteLine
    \/ \E partial \in BOOLEAN : WriteLineFails(partial)
    \/ Close \/ Closed \/ Crash

Spec == Init /\ [][Next]_vars

(* The event loop runs every task that is ready, and the writer is one. *)
FairSpec ==
    /\ Spec
    /\ WF_vars(\E large \in BOOLEAN : RunWriteTask(large))
    /\ WF_vars(WriteLine)

-----------------------------------------------------------------------------

(* Everything written or on its way to the file, in order. *)
Log == file \o writeQ \o tasks

TypeOK ==
    /\ phase \in {"down", "subscribed", "up", "closing"}
    /\ pending \in Seq(Messages) /\ dead \in Seq(Messages)
    /\ processing \in Messages \cup {NoMsg}
    /\ tasks \in Seq(Entries) /\ writeQ \in Seq(Entries)
    /\ file \in Seq(Lines) /\ torn \in BOOLEAN
    /\ torn => file # <<>> /\ Last(file) = Garbage
    /\ seen \in SUBSET Messages /\ boots \in Nat /\ faults \in Nat
    /\ unlogged \in SUBSET Messages /\ settled \in SUBSET Messages
    /\ dropped \in SUBSET Messages /\ failed \in SUBSET Messages
    /\ spoiled \in SUBSET Messages

(* Crash safety (queue_persist.py:4): a message in memory whose operations *)
(* were recorded without an error is brought back by a restart, or will be *)
(* as soon as what is on its way to the file has been written.  Messages   *)
(* that entered before the persistence was attached are not covered.       *)
NothingForgotten ==
    phase = "up" =>
        \A m \in ToSet(Backlog) \ (unlogged \cup settled \cup failed \cup spoiled) :
            Contains(Restore(Log), m)

(* The other direction: what a restart would bring back is still in memory *)
(* or was dropped by a full queue (the drop is not recorded, so a restart  *)
(* undoes it), unless an append failed or joined a line cut short.  An     *)
(* acknowledged or dead message never comes back, whatever the compaction  *)
(* did between its operations.                                             *)
NothingResurrected ==
    phase = "up" =>
        ToSet(Restore(Log)) \subseteq
            ToSet(Backlog) \cup dropped \cup failed \cup spoiled

(* A write that fails harms its own operation and, when it left part of a  *)
(* line behind, the one appended after it: never more than one other       *)
(* message per failure is forgotten or resurrected.                        *)
DamageIsBounded ==
    phase = "up" =>
        LET forgotten == ToSet(Backlog) \ (unlogged \cup settled \cup failed
                                              \cup ToSet(Restore(Log)))
            resurrected == ToSet(Restore(Log)) \
                               (ToSet(Backlog) \cup dropped \cup failed)
        IN  Cardinality(forgotten \cup resurrected) <= faults

(* Some m comes before some n. *)
Before(s, m, n) == \E i, j \in DOMAIN s : i < j /\ s[i] = m /\ s[j] = n

(* A restart keeps the order of the queue, through retries that went back  *)
(* to the head and through compaction.  It needs ids that arrive once: an  *)
(* id that arrives again takes the place of its first entry.               *)
OrderSurvives ==
    phase = "up" =>
        \A m, n \in ToSet(Restore(Log)) :
            Before(Backlog, m, n) => Before(Restore(Log), m, n) /\ ~Before(Restore(Log), n, m)

(* The file and the write queue implement the abstract durable queue:      *)
(* compaction is invisible but for the damage it repairs, so is the start  *)
(* of a task, an append makes one operation durable or, after a write that *)
(* was cut short, loses it, and a crash loses only the last operations.    *)
Promise == INSTANCE DurableQueue WITH
    durable <- ToSet(Restore(file)),
    waiting <- writeQ \o tasks,
    damaged <- torn

ImplementsDurableQueue == Promise!Spec

(* An acknowledgement does not stay in memory for ever: unless the process *)
(* ends, a write fails or the id arrives again, the message eventually     *)
(* cannot be restored from the file alone.                                 *)
EventuallyDurable ==
    \A m \in Messages :
        (m \in settled /\ phase = "up")
            ~> \/ m \notin settled \/ phase # "up" \/ faults > 0
               \/ m \notin ToSet(Restore(file))

=============================================================================
