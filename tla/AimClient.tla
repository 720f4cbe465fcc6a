----------------------------- MODULE AimClient ------------------------------
(***************************************************************************)
(* The dispatch of direct messages in aim-client/main.py: the receiving    *)
(* callback, the dispatch loop with its stall watchdog, the health loop,   *)
(* and the queue, scheduler and breaker they share.                        *)
(*                                                                         *)
(* All of it runs on one event loop: a task is interrupted only where it   *)
(* awaits.  `pc' is where the dispatch loop stands; it is Suspended at an  *)
(* await, and the other tasks run only then.  One tick is the unit of the  *)
(* stall timeout and of the breaker's cooldown.                            *)
(***************************************************************************)
EXTENDS MessageQueue, Scheduler, DispatchBreaker, SequencesExt

CONSTANTS
    Msgs,            \* direct messages that pass the receiver's filters
    Operational,     \* those _skip_adapter_for_operational answers itself
    Exits,           \* how adapter calls may end
    SendMayFail,     \* whether a reply may fail to be sent
    Stall,           \* the stall timeout, in ticks
    MaxGroupCalls,   \* bound: adapter calls of group messages under way
    MaxRestarts      \* bound: restarts of the process

(* The loop suppression of _call_adapter answers nothing without calling. *)
AllExits == {"reply", "empty", "suppressed", "timeout", "retryable",
             "exit2", "exit3", "exit4"}

ASSUME ClientAssumption ==
    /\ NoMsg \notin Msgs /\ Operational \subseteq Msgs
    /\ Exits \subseteq AllExits
    /\ SendMayFail \in BOOLEAN
    /\ Stall \in Nat /\ MaxGroupCalls \in Nat /\ MaxRestarts \in Nat

VARIABLES
    durable,       \* the messages the persistence would restore, in order
    seen,          \* _processed_ids, the receiver's deduplication
    inFlight,      \* _in_flight
    dispatched,    \* _dispatched_ids
    sched, brk,    \* the scheduler and the breaker
    event,         \* _dispatch_event
    idle,          \* ticks since _last_dispatch_time, up to Stall + 1
    recovery,      \* _stall_recovery_count
    exit2Recent,   \* _degrade_history holds an exit 2 of the last 30 s
    pc,            \* where the dispatch loop stands
    groupCalls,    \* adapter calls of _grp_direct_route under way
    restarts,      \* counter for the bound
    fate,          \* history: what became of each message
    replies,       \* history: replies published per message and lifetime
    fatal          \* history: an adapter has answered exit 3

queues == <<pending, processing, dead, durable>>
tracking == <<seen, inFlight, dispatched>>
watchdog == <<event, idle, recovery>>
history == <<fate, replies, fatal>>
vars == <<queues, tracking, sched, brk, watchdog, exit2Recent, pc, groupCalls,
          restarts, history>>

(* An acknowledgement takes a message out of what would be restored. *)
Without(s, m) ==
    IF m \in ToSet(s) THEN RemoveAt(s, CHOOSE i \in DOMAIN s : s[i] = m) ELSE s

(* A copy of m leaves the queue unanswered; a copy of a message that has   *)
(* been handled already changes nothing.                                   *)
Gone(m, result) == fate' = [fate EXCEPT ![m] = IF @ = "queued" THEN result ELSE @]

(* The loop works on a message: it calls its adapter or sends its reply. *)
Working == pc \in {"adapter", "send", "resend"}

(* Stages at which the loop awaits; check and inner lie between awaits. *)
Suspended == pc \notin {"check", "inner"}

Init ==
    /\ QueueInit /\ durable = <<>>
    /\ seen = {} /\ inFlight = {} /\ dispatched = {}
    /\ sched = NewScheduler /\ brk = NewBreaker
    /\ event = TRUE /\ idle = Stall + 1 /\ recovery = 0
    /\ exit2Recent = FALSE
    /\ pc = "wait"
    /\ groupCalls = 0 /\ restarts = 0
    /\ fate = [m \in Msgs |-> "new"]
    /\ replies = [m \in Msgs |-> 0]
    /\ fatal = FALSE

-----------------------------------------------------------------------------
(* The other tasks of the event loop *)

(* _handle_message, from the deduplication to the end: no await between. *)
Receive(m) ==
    /\ Suspended
    /\ m \notin seen
    /\ seen' = seen \cup {m}
    /\ Enqueue(m)
    /\ durable' = IF m \in ToSet(durable) THEN durable ELSE Append(durable, m)
    /\ event' = TRUE
    /\ fate' = [x \in Msgs |->
                   IF x = m THEN IF m \in dispatched \/ m = processing
                                 THEN fate[m] ELSE "queued"
                   ELSE IF Full /\ x = Head(pending) /\ fate[x] = "queued"
                        THEN "dropped" ELSE fate[x]]
    /\ UNCHANGED <<inFlight, dispatched, sched, brk, idle, recovery, exit2Recent,
                   pc, groupCalls, restarts, replies, fatal>>

(* Fault: a report that frees the scheduler does not wake the loop. *)
SilentReport(status) ==
    /\ Suspended
    /\ sched' = UpdateState(sched, status)
    /\ UNCHANGED <<queues, tracking, brk, watchdog, exit2Recent, pc,
                   groupCalls, restarts, history>>

(* One round of _health_probe_loop. *)
HealthReport(status) ==
    /\ Suspended
    /\ sched' = UpdateState(sched, status)
    /\ event' = (event \/ (~ShouldDispatch(sched) /\ ShouldDispatch(sched')))
    /\ UNCHANGED <<queues, tracking, brk, idle, recovery, exit2Recent, pc,
                   groupCalls, restarts, history>>

(* A group message calls the adapter beside the dispatch loop. *)
GroupCallStarts ==
    /\ Suspended
    /\ groupCalls < MaxGroupCalls
    /\ groupCalls' = groupCalls + 1
    /\ UNCHANGED <<queues, tracking, sched, brk, watchdog, exit2Recent, pc,
                   restarts, history>>

GroupCallEnds(exit) ==
    /\ Suspended
    /\ groupCalls > 0
    /\ groupCalls' = groupCalls - 1
    /\ brk' = AfterCall(brk, exit)
    /\ exit2Recent' = (exit2Recent \/ exit = "exit2")
    /\ UNCHANGED <<queues, tracking, sched, watchdog, pc, restarts, history>>

(* The passing of time; at some tick the last exit 2 is 30 s old. *)
Tick ==
    /\ Suspended
    /\ idle' = IF idle <= Stall THEN idle + 1 ELSE idle
    /\ brk' = Later(brk)
    /\ exit2Recent' \in {FALSE, exit2Recent}
    /\ UNCHANGED <<queues, tracking, sched, event, recovery, pc, groupCalls,
                   restarts, history>>

(* The process ends after its writes and starts again.  QueuePersist shows *)
(* what a crash before the writes does.                                    *)
Restart ==
    /\ Suspended
    /\ restarts < MaxRestarts
    /\ restarts' = restarts + 1
    /\ pending' = durable /\ processing' = NoMsg /\ dead' = <<>>
    /\ seen' = {} /\ inFlight' = {} /\ dispatched' = {}
    /\ sched' = NewScheduler /\ brk' = NewBreaker
    /\ event' = TRUE /\ idle' = Stall + 1 /\ recovery' = 0
    /\ exit2Recent' = FALSE
    /\ pc' = "wait"
    /\ groupCalls' = 0
    /\ fate' = [m \in Msgs |-> IF m \in ToSet(durable) THEN "queued" ELSE fate[m]]
    /\ replies' = [m \in Msgs |-> 0]
    /\ fatal' = FALSE
    /\ UNCHANGED durable

-----------------------------------------------------------------------------
(* The dispatch loop: waiting and the watchdog *)

(* Fault: no stall timeout, the loop waits for the event only. *)
WaitForEvent ==
    /\ pc = "wait" /\ event
    /\ pc' = "check"
    /\ event' = FALSE
    /\ UNCHANGED <<queues, tracking, sched, brk, idle, recovery, exit2Recent,
                   groupCalls, restarts, history>>

(* The wait ends with the event or after the stall timeout. *)
WaitEnds ==
    /\ pc = "wait"
    /\ event \/ idle > Stall
    /\ pc' = "check"
    /\ event' = FALSE
    /\ UNCHANGED <<queues, tracking, sched, brk, idle, recovery, exit2Recent,
                   groupCalls, restarts, history>>

Stalled == pending # <<>> /\ idle > Stall

NoStall ==
    /\ pc = "check" /\ ~Stalled
    /\ pc' = "inner"
    /\ UNCHANGED <<queues, tracking, sched, brk, watchdog, exit2Recent,
                   groupCalls, restarts, history>>

(* The first and the second recovery force the scheduler to IDLE. *)
WatchdogResets ==
    /\ pc = "check" /\ Stalled /\ recovery < 2
    /\ recovery' = recovery + 1
    /\ sched' = ResetToIdle(sched)
    /\ event' = TRUE /\ idle' = 0
    /\ pc' = "inner"
    /\ UNCHANGED <<queues, tracking, brk, exit2Recent, groupCalls, restarts, history>>

(* The third discards the oldest message, when it can be dequeued. *)
WatchdogDiscards ==
    /\ pc = "check" /\ Stalled /\ recovery >= 2
    /\ recovery' = 0
    /\ IF CanDequeue
       THEN /\ DequeueAndAck
            /\ durable' = Without(durable, Head(pending))
            /\ Gone(Head(pending), "discarded")
       ELSE UNCHANGED <<queues, fate>>
    /\ event' = TRUE /\ idle' = 0
    /\ pc' = "inner"
    /\ UNCHANGED <<tracking, sched, brk, exit2Recent, groupCalls, restarts,
                   replies, fatal>>

-----------------------------------------------------------------------------
(* The dispatch loop: the inner while, from one dequeue to the next *)

Dispatchable == ShouldDispatch(sched) /\ pending # <<>>

NothingToDispatch ==
    /\ pc = "inner" /\ ~Dispatchable
    /\ pc' = "wait"
    /\ UNCHANGED <<queues, tracking, sched, brk, watchdog, exit2Recent,
                   groupCalls, restarts, history>>

BreakerHolds ==
    /\ pc = "inner" /\ Dispatchable /\ IsOpen(brk)
    /\ pc' = "sleep"
    /\ UNCHANGED <<queues, tracking, sched, brk, watchdog, exit2Recent,
                   groupCalls, restarts, history>>

SleepEnds ==
    /\ pc = "sleep"
    /\ event' = TRUE
    /\ pc' = "wait"
    /\ UNCHANGED <<queues, tracking, sched, brk, idle, recovery, exit2Recent,
                   groupCalls, restarts, history>>

(* is_open moves the breaker to HALF_OPEN when its cooldown is over. *)
LookAtBreaker ==
    /\ pc = "inner" /\ Dispatchable /\ ~IsOpen(brk)
    /\ brk' = AutoTransition(brk)

(* dequeue returns None: the slot is taken. *)
SlotTaken ==
    /\ LookAtBreaker
    /\ ~CanDequeue
    /\ pc' = "wait"
    /\ UNCHANGED <<queues, tracking, sched, watchdog, exit2Recent, groupCalls,
                   restarts, history>>

(* A dequeued message that is in flight already is acknowledged and left   *)
(* to the task that is supposed to handle it.                              *)
SkipInFlight ==
    /\ LookAtBreaker
    /\ CanDequeue /\ Head(pending) \in inFlight
    /\ DequeueAndAck
    /\ durable' = Without(durable, Head(pending))
    /\ Gone(Head(pending), "lost")
    /\ UNCHANGED <<tracking, sched, watchdog, exit2Recent, pc, groupCalls,
                   restarts, replies, fatal>>

(* A second copy of a message that was dispatched; its fate is settled. *)
SkipDispatched ==
    /\ LookAtBreaker
    /\ CanDequeue /\ Head(pending) \in dispatched \ inFlight
    /\ DequeueAndAck
    /\ durable' = Without(durable, Head(pending))
    /\ UNCHANGED <<tracking, sched, watchdog, exit2Recent, pc, groupCalls,
                   restarts, history>>

(* Fault: what was dispatched before is not remembered. *)
FreshUnlessInFlight == CanDequeue /\ Head(pending) \notin inFlight

Fresh == CanDequeue /\ Head(pending) \notin inFlight \cup dispatched

(* An operational message goes through BUSY and back without an await. *)
SkipOperational ==
    /\ LookAtBreaker
    /\ Fresh /\ Head(pending) \in Operational
    /\ DequeueAndAck
    /\ durable' = Without(durable, Head(pending))
    /\ sched' = OnProcessingDone(OnDispatchStarted(sched))
    /\ idle' = 0 /\ event' = TRUE
    /\ fate' = [fate EXCEPT ![Head(pending)] = "skipped"]
    /\ UNCHANGED <<tracking, recovery, exit2Recent, pc, groupCalls, restarts,
                   replies, fatal>>

CallAdapter ==
    /\ LookAtBreaker
    /\ Fresh /\ Head(pending) \notin Operational
    /\ Dequeue
    /\ inFlight' = inFlight \cup {Head(pending)}
    /\ sched' = OnDispatchStarted(sched)
    /\ idle' = 0
    /\ pc' = "adapter"
    /\ UNCHANGED <<durable, seen, dispatched, event, recovery, exit2Recent,
                   groupCalls, restarts, history>>

-----------------------------------------------------------------------------
(* The dispatch loop: the end of an adapter call *)

(* The message in the slot is done with: acknowledged, remembered as       *)
(* dispatched, out of flight, and the scheduler is free again.             *)
Settle(result) ==
    /\ Ack(processing)
    /\ durable' = Without(durable, processing)
    /\ inFlight' = inFlight \ {processing}
    /\ dispatched' = dispatched \cup {processing}
    /\ sched' = OnProcessingDone(sched)
    /\ recovery' = 0
    /\ fate' = [fate EXCEPT ![processing] = result]
    /\ UNCHANGED seen

AdapterReplies ==
    /\ pc = "adapter" /\ "reply" \in Exits
    /\ brk' = AfterCall(brk, "reply")
    /\ pc' = "send"
    /\ UNCHANGED <<queues, tracking, sched, watchdog, exit2Recent, groupCalls,
                   restarts, history>>

AdapterIsSilent ==
    /\ pc = "adapter"
    /\ \E exit \in Exits \cap {"empty", "suppressed"} : brk' = AfterCall(brk, exit)
    /\ Settle("silent")
    /\ event' = TRUE
    /\ pc' = "inner"
    /\ UNCHANGED <<idle, exit2Recent, groupCalls, restarts, replies, fatal>>

(* RetryableError: a timeout, exit 1, a signal, or the first exit 2 in 30  *)
(* s.  The message is acknowledged; the adapter may be trimmed afterwards. *)
AdapterFails ==
    /\ pc = "adapter"
    /\ \E exit \in Exits \cap {"timeout", "retryable", "exit2"} :
          /\ exit = "exit2" => ~exit2Recent
          /\ exit2Recent' = (exit2Recent \/ exit = "exit2")
          /\ brk' = AfterCall(brk, exit)
    /\ Settle("failed")
    /\ event' = TRUE
    /\ pc' \in {"inner", "trim"}
    /\ UNCHANGED <<idle, groupCalls, restarts, replies, fatal>>

TrimEnds ==
    /\ pc = "trim"
    /\ pc' = "inner"
    /\ UNCHANGED <<queues, tracking, sched, brk, watchdog, exit2Recent,
                   groupCalls, restarts, history>>

(* Fault: every nack is recorded as the end of the message. *)
PutBackRecorded ==
    \E late \in BOOLEAN :
        /\ Nack(processing, late)
        /\ durable' = Without(durable, processing)
        /\ fate' = [fate EXCEPT ![processing] = IF late THEN "dead" ELSE @]

(* DegradeError and HumanInterventionError: the message is nacked and      *)
(* stays in _in_flight; the event is set after the report is sent.         *)
PutBack ==
    \E late \in BOOLEAN :
        /\ Nack(processing, late)
        /\ durable' = IF late THEN Without(durable, processing) ELSE durable
        /\ fate' = [fate EXCEPT ![processing] = IF late THEN "dead" ELSE @]

AdapterDegrades ==
    /\ pc = "adapter"
    /\ \/ "exit2" \in Exits /\ exit2Recent
       \/ "exit4" \in Exits
    /\ sched' = OnDegrade(sched)
    /\ PutBack
    /\ pc' = "emit"
    /\ UNCHANGED <<tracking, brk, watchdog, exit2Recent, groupCalls, restarts,
                   replies, fatal>>

AdapterIsBroken ==
    /\ pc = "adapter" /\ "exit3" \in Exits
    /\ sched' = OnHumanIntervention(sched)
    /\ PutBack
    /\ fatal' = TRUE
    /\ pc' = "emit"
    /\ UNCHANGED <<tracking, brk, watchdog, exit2Recent, groupCalls, restarts, replies>>

EmitEnds ==
    /\ pc = "emit"
    /\ event' = TRUE
    /\ pc' = "inner"
    /\ UNCHANGED <<queues, tracking, sched, brk, idle, recovery, exit2Recent,
                   groupCalls, restarts, history>>

-----------------------------------------------------------------------------
(* The dispatch loop: sending the reply *)

Published == replies' = [replies EXCEPT ![processing] = @ + 1]

ReplySent ==
    /\ pc \in {"send", "resend"}
    /\ Published
    /\ Settle("answered")
    /\ pc' = "inner"
    /\ UNCHANGED <<brk, event, idle, exit2Recent, groupCalls, restarts, fatal>>

(* The content check refuses the reply; a shortened one is tried. *)
ReplyRefused ==
    /\ pc = "send"
    /\ pc' = "resend"
    /\ UNCHANGED <<queues, tracking, sched, brk, watchdog, exit2Recent,
                   groupCalls, restarts, history>>

(* Any other exception of send_dm, after or before it has published, is    *)
(* logged: the message stays in the slot and the scheduler BUSY.           *)
SendFails ==
    /\ SendMayFail
    /\ pc \in {"send", "resend"}
    /\ Published \/ UNCHANGED replies
    /\ Gone(processing, "stuck")
    /\ pc' = "inner"
    /\ UNCHANGED <<queues, tracking, sched, brk, watchdog, exit2Recent,
                   groupCalls, restarts, fatal>>

-----------------------------------------------------------------------------

LoopStep ==
    \/ WaitEnds \/ NoStall \/ WatchdogResets \/ WatchdogDiscards
    \/ NothingToDispatch \/ BreakerHolds \/ SleepEnds \/ SlotTaken
    \/ SkipInFlight \/ SkipDispatched \/ SkipOperational \/ CallAdapter
    \/ AdapterReplies \/ AdapterIsSilent \/ AdapterFails \/ TrimEnds
    \/ AdapterDegrades \/ AdapterIsBroken \/ EmitEnds
    \/ ReplySent \/ ReplyRefused \/ SendFails

Next ==
    \/ LoopStep
    \/ \E m \in Msgs : Receive(m)
    \/ \E status \in States : HealthReport(status)
    \/ GroupCallStarts
    \/ \E exit \in Exits : GroupCallEnds(exit)
    \/ Tick
    \/ Restart

Spec == Init /\ [][Next]_vars

(* The event loop runs what is ready, every await ends (an adapter call by *)
(* its timeout), and time passes however often the loop turns.             *)
FairSpec == Spec /\ WF_vars(LoopStep) /\ SF_vars(Tick)

-----------------------------------------------------------------------------

Stages == {"wait", "check", "inner", "sleep", "adapter", "trim", "emit",
           "send", "resend"}

Fates == {"new", "queued", "dropped", "lost", "skipped", "answered", "silent",
          "failed", "dead", "discarded", "stuck"}

QueuesTyped ==
    /\ pending \in Seq(Msgs) /\ dead \in Seq(Msgs) /\ durable \in Seq(Msgs)
    /\ processing \in Msgs \cup {NoMsg}
    /\ seen \subseteq Msgs /\ inFlight \subseteq Msgs /\ dispatched \subseteq Msgs

LoopTyped ==
    /\ sched \in Schedulers /\ brk \in Breakers
    /\ event \in BOOLEAN /\ exit2Recent \in BOOLEAN
    /\ idle \in 0 .. Stall + 1 /\ recovery \in 0 .. 2
    /\ pc \in Stages
    /\ groupCalls \in 0 .. MaxGroupCalls /\ restarts \in 0 .. MaxRestarts

HistoryTyped ==
    /\ fate \in [Msgs -> Fates]
    /\ replies \in [Msgs -> Nat]
    /\ fatal \in BOOLEAN

(* The types of the variables. *)
TypeOK == QueuesTyped /\ LoopTyped /\ HistoryTyped

(* At most one reply to a message in one lifetime of the process, although *)
(* the same message may be in the queue twice (restored and received       *)
(* again), may be put back, and the watchdog forces the scheduler to IDLE  *)
(* while a message is being handled (main.py:613-625).                     *)
AtMostOneReply == \A m \in Msgs : replies[m] <= 1

(* The scheduler is BUSY for a reason: a message is in the slot.  The two  *)
(* are changed by separate calls on nine paths of the loop, and a BUSY     *)
(* scheduler over an empty slot would stop dispatching until the watchdog. *)
BusyHasMessage == sched.state = "BUSY" => processing # NoMsg

(* The slot and the loop agree: while the loop calls an adapter or sends a *)
(* reply a message is in the slot, and a message that waits in the slot to *)
(* be handled is the one the loop works on.                                *)
SlotFollowsLoop ==
    /\ Working => processing # NoMsg
    /\ processing # NoMsg => Working \/ fate[processing] # "queued"

(* No lost wakeup: when the loop waits although a message could be         *)
(* dispatched, the event is set, so it need not wait for the stall timeout.*)
(* The event is cleared before the queue is looked at, and the health loop *)
(* sets it only if its own report made the difference (main.py:850-860).   *)
NoLostWakeup ==
    pc = "wait" /\ Dispatchable /\ CanDequeue => event

(* A restart brings back every message whose handling had not ended: one   *)
(* that is pending, put back, being worked on, or stuck in the slot.       *)
RestartKeepsUnsettled ==
    [][restarts' # restarts =>
          \A m \in Msgs : fate[m] \in {"queued", "stuck"} => m \in ToSet(pending')]_vars

(* types.py:18-22: a degraded runtime loses no message; it stays pending   *)
(* or goes to the dead queue.                                              *)
NothingLost == \A m \in Msgs : fate[m] # "lost"

(* main.py:707: exit 3 stops the dispatch for good. *)
FatalStops == [][fatal /\ fatal' /\ pc # "adapter" => pc' # "adapter"]_vars

(* A message stays in the slot after its reply could not be sent. *)
SlotStuck == processing # NoMsg /\ ~Working

(* Every message that is queued leaves the queue one way or another, unless*)
(* a reply cannot be sent: through restarts, put-backs, an OPEN breaker,   *)
(* failing health checks and messages received twice, the watchdog wakes a *)
(* loop that stands still (main.py:561, 572).                              *)
EveryMessageSettles ==
    \A m \in Msgs : fate[m] = "queued" ~> fate[m] # "queued" \/ SlotStuck

(* main.py:561, "StallWatchdog self-healing": a message does not stay in   *)
(* the queue for ever, whatever happened to the one before it.             *)
WatchdogHeals == \A m \in Msgs : fate[m] = "queued" ~> fate[m] # "queued"

=============================================================================
