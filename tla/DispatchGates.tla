--------------------------- MODULE DispatchGates ----------------------------
(***************************************************************************)
(* The two gates a message passes before its adapter is called: the        *)
(* scheduler must be IDLE and the circuit breaker must not be OPEN         *)
(* (main.py:599-601).  Everything that moves a gate is an action: health   *)
(* reports, the dispatch loop and the results of its adapter calls, its    *)
(* stall watchdog, and the calls of group messages, which run beside the   *)
(* loop, pass no gate and report to the breaker (main.py:1481).            *)
(*                                                                         *)
(* The queue is taken to hold a message at any time.  main.py calls        *)
(* neither on_retry nor on_timeout; `retrying' tells the clients that do.  *)
(***************************************************************************)
EXTENDS Scheduler, DispatchBreaker

CONSTANT MaxGroupCalls   \* bound: group calls at the same time

ASSUME GatesAssumption == MaxGroupCalls \in Nat

VARIABLES
    sched, brk,   \* the gates
    calling,      \* the dispatch loop waits for an adapter call
    groupCalls,   \* the adapter calls of group messages under way
    retrying,     \* whether retries and timeouts are told to the scheduler
    lastReport,   \* history: the last health report that was not BUSY
    failures,     \* history: OFFLINE reports since the last IDLE report
    openFor       \* history: ticks since the breaker last became OPEN

calls == <<calling, groupCalls, retrying>>
vars == <<sched, brk, calls, lastReport, failures, openFor>>

Outcomes == {"reply", "empty", "timeout", "other"}

Init ==
    /\ sched = NewScheduler /\ brk = NewBreaker
    /\ calling = FALSE /\ groupCalls = 0
    /\ retrying \in BOOLEAN
    /\ lastReport = "IDLE" /\ failures = 0 /\ openFor = 0

Observe == openFor' = IF brk.state # "OPEN" /\ brk'.state = "OPEN" THEN 0 ELSE openFor

-----------------------------------------------------------------------------

Report(status) ==
    /\ sched' = UpdateState(sched, status)
    /\ lastReport' = IF status = "BUSY" THEN lastReport ELSE status
    /\ failures' = CASE status = "IDLE" -> 0
                     [] status = "BUSY" -> failures
                     [] status = "OFFLINE" -> Increment(failures)
    /\ UNCHANGED <<brk, calls, openFor>>

GatesOpen == ~calling /\ ShouldDispatch(sched) /\ ~IsOpen(brk)

Dispatch ==
    /\ GatesOpen
    /\ brk' = AutoTransition(brk)
    /\ sched' = OnDispatchStarted(sched)
    /\ calling' = TRUE
    /\ Observe
    /\ UNCHANGED <<groupCalls, retrying, lastReport, failures>>

(* A message that needs no adapter goes through BUSY and back. *)
Operational ==
    /\ GatesOpen
    /\ brk' = AutoTransition(brk)
    /\ sched' = OnProcessingDone(OnDispatchStarted(sched))
    /\ Observe
    /\ UNCHANGED <<calls, lastReport, failures>>

(* What the loop tells the scheduler: nothing when the reply of an answered*)
(* call cannot be sent.                                                    *)
Told(outcome) ==
    CASE outcome = "reply" -> {OnProcessingDone(sched), sched}
      [] outcome = "empty" -> {OnProcessingDone(sched)}
      [] outcome = "timeout" ->
             {IF retrying THEN OnTimeout(sched) ELSE OnProcessingDone(sched)}
      [] outcome = "other" ->
             {OnProcessingDone(sched), OnDegrade(sched), OnHumanIntervention(sched)}

CallEnds(outcome) ==
    /\ calling
    /\ calling' = FALSE
    /\ brk' = AfterCall(brk, outcome)
    /\ sched' \in Told(outcome)
    /\ Observe
    /\ UNCHANGED <<groupCalls, retrying, lastReport, failures>>

(* A call that fails and is repeated at once. *)
Retry ==
    /\ calling /\ retrying
    /\ sched' = OnRetry(sched)
    /\ UNCHANGED <<brk, calls, lastReport, failures, openFor>>

WatchdogReset ==
    /\ ~calling
    /\ sched' = ResetToIdle(sched)
    /\ UNCHANGED <<brk, calls, lastReport, failures, openFor>>

GroupCallStarts ==
    /\ groupCalls < MaxGroupCalls
    /\ groupCalls' = groupCalls + 1
    /\ UNCHANGED <<sched, brk, calling, retrying, lastReport, failures, openFor>>

GroupCallEnds(outcome) ==
    /\ groupCalls > 0
    /\ groupCalls' = groupCalls - 1
    /\ brk' = AfterCall(brk, outcome)
    /\ Observe
    /\ UNCHANGED <<sched, calling, retrying, lastReport, failures>>

Tick ==
    /\ brk' = Later(brk)
    /\ openFor' = IF openFor < Cooldown THEN openFor + 1 ELSE openFor
    /\ UNCHANGED <<sched, calls, lastReport, failures>>

Next ==
    \/ \E status \in States : Report(status)
    \/ Dispatch \/ Operational \/ Retry \/ WatchdogReset
    \/ \E outcome \in Outcomes : CallEnds(outcome) \/ GroupCallEnds(outcome)
    \/ GroupCallStarts \/ Tick

Spec == Init /\ [][Next]_vars

(* Time passes, the loop looks again every 5 s (main.py:607), and every    *)
(* adapter call ends within processing_timeout.                            *)
FairSpec ==
    /\ Spec
    /\ WF_vars(Tick) /\ WF_vars(Dispatch)
    /\ WF_vars(\E outcome \in Outcomes : CallEnds(outcome))

-----------------------------------------------------------------------------

TypeOK ==
    /\ sched \in Schedulers /\ brk \in Breakers
    /\ calling \in BOOLEAN /\ retrying \in BOOLEAN
    /\ groupCalls \in 0 .. MaxGroupCalls
    /\ lastReport \in {"IDLE", "OFFLINE"}
    /\ failures \in 0 .. CountCap
    /\ openFor \in 0 .. Cooldown

(* L2 means that the last conclusive health check failed, and nothing but  *)
(* a successful check ends it (types.py:20-21, scheduler.py:106): neither  *)
(* a message that gets through nor the watchdog touches the level.  Only   *)
(* on_retry, which evaluates the level as if health were good, does.       *)
StalledIffHealthFailed ==
    /\ sched.level = "L2" => lastReport = "OFFLINE"
    /\ lastReport = "OFFLINE" /\ ~retrying => sched.level = "L2"

(* L1 is left to L0 only by a successful check after a dispatch has        *)
(* cleared the retries (types.py:289-293): one healthy report between      *)
(* retries does not flip the level.                                        *)
NoFlapping ==
    [][sched.level = "L1" /\ sched'.level = "L0" =>
          sched.retryCount = 0 /\ lastReport' = "IDLE" /\ failures' = 0]_vars

(* A probe is never further apart than the failures seen since the last    *)
(* good report justify: on_degrade may count as one failure, and no mixture*)
(* of watchdog resets, finished messages, retries and BUSY reports adds    *)
(* another (scheduler.py:119-128 and 256-268).  The configured interval    *)
(* plays no part in it.                                                    *)
BackoffNotAhead ==
    sched.level = "L2" \/ (sched.level = "L0" /\ sched.state = "OFFLINE") =>
        ProbeInterval(sched, 0) <= Backoff(failures)

(* circuit_breaker.py:11-12: a breaker that opens after Threshold timeouts *)
(* stays OPEN for the whole cooldown: no late answer or late timeout of a  *)
(* call that was under way closes it or lets a message through earlier.    *)
FirstCooldownIsKept ==
    brk.state = "OPEN" /\ brk.elapsed < Cooldown => brk.elapsed = openFor

(* circuit_breaker.py:12: OPEN ends at the end of the cooldown, in         *)
(* HALF_OPEN, and in no other way.                                         *)
OnlyCooldownEndsOpen ==
    [][brk.state = "OPEN" /\ brk'.state # "OPEN" =>
          brk.elapsed = Cooldown /\ brk'.state = "HALF_OPEN"]_vars

(* circuit_breaker.py:13: a failed trial reopens the breaker and restarts  *)
(* the cooldown, so every OPEN period lasts the cooldown.                  *)
EveryCooldownIsKept ==
    [][brk.state = "OPEN" /\ brk'.state # "OPEN" => openFor = Cooldown]_vars

(* An OPEN breaker never blocks an IDLE scheduler for good: after the      *)
(* cooldown a message is tried (circuit_breaker.py:12-13), however many    *)
(* group calls time out meanwhile.                                         *)
OpenEnds ==
    brk.state = "OPEN" ~> brk.state # "OPEN" \/ ~ShouldDispatch(sched)

=============================================================================
