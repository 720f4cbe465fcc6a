------------------------ MODULE DispatchGatesProofs -------------------------
(***************************************************************************)
(* The scheduler and the breaker between the dispatch loop, its watchdog,  *)
(* the health reports and the group calls, for every value of the          *)
(* thresholds, every cooldown and any number of calls at the same time.    *)
(***************************************************************************)
EXTENDS DispatchGates, OperatorLemmas

(* on_retry evaluates the level only, as a report does. *)
LEMMA OnRetryType ==
    ASSUME NEW s \in Schedulers
    PROVE  OnRetry(s) \in Schedulers
<1> DEFINE count == Increment(s.retryCount)
           new == EvaluateLevel(0, count, 0, s.level)
<1>1. count \in 0 .. CountCap
  BY SchedulerAssumption DEF Increment, Schedulers
<1>2. new \in Levels
  BY <1>1, LevelType DEF Schedulers
<1>3. OnRetry(s) = [s EXCEPT !.state = "IDLE", !.retryCount = count, !.level = new]
  BY DEF OnRetry
<1> HIDE DEF count, new
<1> QED BY <1>1, <1>2, <1>3 DEF Schedulers, States

(* Whatever the loop tells the scheduler leaves a scheduler. *)
LEMMA ToldType ==
    ASSUME sched \in Schedulers, NEW outcome \in Outcomes
    PROVE  Told(outcome) \subseteq Schedulers
<1>1. OnTimeout(sched) \in Schedulers
  BY DEF OnTimeout, Schedulers, States
<1> QED BY <1>1, SchedulerOperations DEF Told, Outcomes

(* The gates, the calls and the history variables keep their types. *)
LEMMA NextTypeOK == TypeOK /\ [Next]_vars => TypeOK'
<1> SUFFICES ASSUME TypeOK, [Next]_vars PROVE TypeOK'
  OBVIOUS
<1> USE SchedulerAssumption, BreakerAssumption, GatesAssumption DEF TypeOK, calls
<1>0. ASSUME Observe PROVE openFor' \in 0 .. Cooldown
  BY <1>0 DEF Observe
<1>1. ASSUME NEW status \in States, Report(status) PROVE TypeOK'
  <2>1. failures' \in 0 .. CountCap
    BY <1>1 DEF Report, Increment, States
  <2>2. lastReport' \in {"IDLE", "OFFLINE"}
    BY <1>1 DEF Report, States
  <2> QED BY <1>1, <2>1, <2>2, UpdateStateType DEF Report
<1>2. CASE Dispatch
  BY <1>0, <1>2, BreakerOperations, SchedulerOperations DEF Dispatch
<1>3. CASE Operational
  <2>1. OnDispatchStarted(sched) \in Schedulers
    BY SchedulerOperations
  <2>2. OnProcessingDone(OnDispatchStarted(sched)) \in Schedulers
    BY <2>1, SchedulerOperations
  <2> QED BY <1>0, <1>3, <2>2, BreakerOperations DEF Operational
<1>4. CASE Retry
  BY <1>4, OnRetryType DEF Retry
<1>5. CASE WatchdogReset
  BY <1>5, SchedulerOperations DEF WatchdogReset
<1>6. ASSUME NEW outcome \in Outcomes, CallEnds(outcome) PROVE TypeOK'
  BY <1>0, <1>6, AfterCallType, ToldType DEF CallEnds
<1>7. ASSUME NEW outcome \in Outcomes, GroupCallEnds(outcome) PROVE TypeOK'
  BY <1>0, <1>7, AfterCallType DEF GroupCallEnds
<1>8. CASE GroupCallStarts
  BY <1>8 DEF GroupCallStarts
<1>9. CASE Tick
  BY <1>9, BreakerOperations DEF Tick
<1>10. CASE UNCHANGED vars
  BY <1>10 DEF vars
<1> QED BY <1>1, <1>2, <1>3, <1>4, <1>5, <1>6, <1>7, <1>8, <1>9, <1>10 DEF Next

(* The scheduler and the breaker stay among their states                   *)
(* (scheduler.py:52-76, circuit_breaker.py:37-51).                         *)
THEOREM TypeCorrect == Spec => []TypeOK
<1>1. Init => TypeOK
  <2>1. 0 \in 0 .. MaxGroupCalls /\ 0 \in 0 .. Cooldown /\ 0 \in 0 .. CountCap
    BY BreakerAssumption, GatesAssumption, SchedulerAssumption
  <2> QED BY <2>1, NewBreakerType, NewSchedulerType DEF Init, TypeOK
<1> QED BY <1>1, NextTypeOK, PTL DEF Spec

-----------------------------------------------------------------------------

(* What a report does to the level, the counter and the state. *)
LEMMA ReportEffect ==
    ASSUME NEW s \in Schedulers, NEW status \in States
    PROVE  LET t == UpdateState(s, status)
           IN  /\ status = "BUSY" => t = s
               /\ status = "IDLE" => t.level # "L2" /\ t.offlineCount = 0
               /\ status = "OFFLINE" =>
                     /\ t.level = "L2"
                     /\ t.offlineCount \in {0, Increment(s.offlineCount)}
<1> USE SchedulerAssumption DEF Schedulers
<1>1. CASE status = "BUSY"
  BY <1>1 DEF UpdateState
<1>2. CASE status = "OFFLINE"
  <2> DEFINE count == IF s.state = "OFFLINE" THEN Increment(s.offlineCount) ELSE 0
             new == EvaluateLevel(2, s.retryCount, count, s.level)
  <2>1. UpdateState(s, status) =
            [s EXCEPT !.state = "OFFLINE", !.offlineCount = count, !.level = new]
    BY <1>2 DEF UpdateState
  <2>2. new = "L2"
    BY DEF EvaluateLevel, Levels
  <2>3. count \in {0, Increment(s.offlineCount)}
    OBVIOUS
  <2> HIDE DEF count, new
  <2> QED BY <1>2, <2>1, <2>2, <2>3
<1>3. CASE status = "IDLE"
  <2> DEFINE st == IF s.state = "OFFLINE" THEN "IDLE" ELSE s.state
             new == IF s.level = "L0" THEN s.level
                    ELSE EvaluateLevel(0, s.retryCount, 0, s.level)
  <2>1. UpdateState(s, status) =
            [s EXCEPT !.state = st, !.offlineCount = 0, !.level = new]
    BY <1>3 DEF UpdateState
  <2>2. new # "L2"
    BY DEF EvaluateLevel, Levels
  <2> HIDE DEF st, new
  <2> QED BY <1>3, <2>1, <2>2
<1> QED BY <1>1, <1>2, <1>3 DEF States

(* Steps other than reports and retries leave the level, the counter of    *)
(* failures and what was reported.                                         *)
LEMMA OtherSteps ==
    ASSUME TypeOK, [Next]_vars, ~Retry, ~(\E status \in States : Report(status))
    PROVE  /\ sched'.level = sched.level /\ sched'.offlineCount = sched.offlineCount
           /\ UNCHANGED <<lastReport, failures>>
<1> DEFINE Same(s) == s.level = sched.level /\ s.offlineCount = sched.offlineCount
<1> USE DEF TypeOK, calls
<1>1. /\ OnDispatchStarted(sched) \in Schedulers /\ Same(OnDispatchStarted(sched))
      /\ Same(ResetToIdle(sched)) /\ Same(OnProcessingDone(sched))
      /\ Same(OnDegrade(sched)) /\ Same(OnHumanIntervention(sched))
      /\ Same(OnTimeout(sched))
  BY SchedulerOperations DEF Schedulers, OnDispatchStarted, ResetToIdle,
       OnProcessingDone, OnDegrade, OnHumanIntervention, OnTimeout
<1>2. Same(OnProcessingDone(OnDispatchStarted(sched)))
  BY <1>1 DEF Schedulers, OnProcessingDone
<1>3. CASE Dispatch
  BY <1>1, <1>3 DEF Dispatch
<1>4. CASE Operational
  BY <1>2, <1>4 DEF Operational
<1>5. CASE WatchdogReset
  BY <1>1, <1>5 DEF WatchdogReset
<1>6. ASSUME NEW outcome \in Outcomes, CallEnds(outcome)
      PROVE  Same(sched') /\ UNCHANGED <<lastReport, failures>>
  <2>1. \A s \in Told(outcome) : Same(s)
    BY <1>1 DEF Told, Outcomes
  <2> HIDE DEF Same
  <2> QED BY <1>6, <2>1 DEF CallEnds
<1>7. CASE \/ \E outcome \in Outcomes : GroupCallEnds(outcome)
           \/ GroupCallStarts \/ Tick \/ UNCHANGED vars
  BY <1>7 DEF GroupCallEnds, GroupCallStarts, Tick, vars
<1> QED BY <1>3, <1>4, <1>5, <1>6, <1>7 DEF Next

(* As main.py uses the scheduler, level L2 stands for a failed health      *)
(* check, and only a successful one ends it; a client that tells retries   *)
(* can only end it early (scheduler.py:103-156 and 186, types.py:256-304). *)
THEOREM StalledMeansFailed == Spec => []StalledIffHealthFailed
<1>1. Init => StalledIffHealthFailed
  BY DEF Init, StalledIffHealthFailed, NewScheduler
<1>2. TypeOK /\ StalledIffHealthFailed /\ [Next]_vars => StalledIffHealthFailed'
  <2> SUFFICES ASSUME TypeOK, StalledIffHealthFailed, [Next]_vars
               PROVE  StalledIffHealthFailed'
    OBVIOUS
  <2> USE DEF StalledIffHealthFailed, calls
  <2>1. ASSUME NEW status \in States, Report(status) PROVE StalledIffHealthFailed'
    BY <2>1, ReportEffect DEF Report, TypeOK, States
  <2>2. CASE Retry
    <3>1. OnRetry(sched).level = "L2" => sched.level = "L2"
      <4> DEFINE count == Increment(sched.retryCount)
                 new == EvaluateLevel(0, count, 0, sched.level)
      <4>1. new = "L2" => sched.level = "L2"
        BY SchedulerAssumption DEF EvaluateLevel, Levels, TypeOK, Schedulers
      <4>2. OnRetry(sched) =
                [sched EXCEPT !.state = "IDLE", !.retryCount = count, !.level = new]
        BY DEF OnRetry
      <4> HIDE DEF count, new
      <4> QED BY <4>1, <4>2 DEF TypeOK, Schedulers
    <3> QED BY <2>2, <3>1 DEF Retry
  <2>3. CASE ~Retry /\ ~(\E status \in States : Report(status))
    <3>1. UNCHANGED retrying
      BY DEF Next, vars, Report, Dispatch, Operational, Retry, WatchdogReset,
             CallEnds, GroupCallStarts, GroupCallEnds, Tick
    <3> QED BY <2>3, <3>1, OtherSteps
  <2> QED BY <2>1, <2>2, <2>3
<1> QED BY <1>1, <1>2, TypeCorrect, PTL DEF Spec

(* What a report and a retry do to level L1. *)
LEMMA LevelSteps ==
    ASSUME NEW s \in Schedulers
    PROVE  /\ \A status \in States :
                 UpdateState(s, status).level = "L1" => s.level = "L1"
           /\ \A status \in States :
                 s.level = "L1" /\ UpdateState(s, status).level = "L0" =>
                     status = "IDLE" /\ s.retryCount = 0
           /\ OnRetry(s).level = "L1" /\ s.level # "L1" => CountCap > 0
           /\ OnRetry(s).level = "L0" /\ s.level = "L1" => CountCap = 0
<1> USE SchedulerAssumption
<1>0. s.retryCount \in 0 .. CountCap /\ s.level \in Levels
  BY DEF Schedulers
<1>1. ASSUME NEW status \in States
      PROVE  /\ UpdateState(s, status).level = "L1" => s.level = "L1"
             /\ s.level = "L1" /\ UpdateState(s, status).level = "L0" =>
                    status = "IDLE" /\ s.retryCount = 0
  <2>1. CASE status # "IDLE"
    BY <2>1, ReportEffect DEF States
  <2>2. CASE status = "IDLE"
    <3> DEFINE st == IF s.state = "OFFLINE" THEN "IDLE" ELSE s.state
               new == IF s.level = "L0" THEN s.level
                      ELSE EvaluateLevel(0, s.retryCount, 0, s.level)
    <3>1. UpdateState(s, status).level = new
      <4>1. UpdateState(s, status) =
                [s EXCEPT !.state = st, !.offlineCount = 0, !.level = new]
        BY <2>2 DEF UpdateState
      <4> HIDE DEF st, new
      <4> QED BY <4>1 DEF Schedulers
    <3>2. /\ new = "L1" => s.level = "L1"
          /\ s.level = "L1" /\ new = "L0" => s.retryCount = 0
      BY <1>0 DEF EvaluateLevel, Levels
    <3> QED BY <2>2, <3>1, <3>2
  <2> QED BY <2>1, <2>2
<1>2. /\ OnRetry(s).level = "L1" /\ s.level # "L1" => CountCap > 0
      /\ OnRetry(s).level = "L0" /\ s.level = "L1" => CountCap = 0
  <2> DEFINE count == Increment(s.retryCount)
             new == EvaluateLevel(0, count, 0, s.level)
  <2>1. OnRetry(s).level = new
    <3>1. OnRetry(s) = [s EXCEPT !.state = "IDLE", !.retryCount = count, !.level = new]
      BY DEF OnRetry
    <3> HIDE DEF count, new
    <3> QED BY <3>1 DEF Schedulers
  <2>2. count \in 0 .. CountCap /\ (count = 0 => CountCap = 0)
    BY <1>0 DEF Increment
  <2> HIDE DEF count
  <2>3. /\ new = "L1" /\ s.level # "L1" => count > 0
        /\ new = "L0" /\ s.level = "L1" => count = 0
    BY <1>0, <2>2 DEF EvaluateLevel, Levels
  <2> QED BY <2>1, <2>2, <2>3
<1> QED BY <1>1, <1>2

(* Only retries that were counted lead to L1. *)
TroubledByRetries == sched.level = "L1" => CountCap > 0

(* L1 ends by a healthy report after the retries were cleared, and by      *)
(* nothing else, the retries and the reports between them included         *)
(* (NoFlapping; types.py:286-293, scheduler.py:176-195).                   *)
THEOREM LevelIsSteady == Spec => NoFlapping
<1>1. Init => TroubledByRetries
  BY DEF Init, TroubledByRetries, NewScheduler
<1>2. TypeOK /\ TroubledByRetries /\ [Next]_vars =>
         /\ TroubledByRetries'
         /\ [sched.level = "L1" /\ sched'.level = "L0" =>
                sched.retryCount = 0 /\ lastReport' = "IDLE" /\ failures' = 0]_vars
  <2> SUFFICES ASSUME TypeOK, TroubledByRetries, [Next]_vars
               PROVE  /\ TroubledByRetries'
                      /\ sched.level = "L1" /\ sched'.level = "L0" =>
                            sched.retryCount = 0 /\ lastReport' = "IDLE" /\ failures' = 0
    OBVIOUS
  <2>0. sched \in Schedulers /\ CountCap \in Nat
    BY SchedulerAssumption DEF TypeOK
  <2> USE DEF TroubledByRetries
  <2>1. ASSUME NEW status \in States, Report(status)
        PROVE  /\ TroubledByRetries'
               /\ sched.level = "L1" /\ sched'.level = "L0" =>
                     sched.retryCount = 0 /\ lastReport' = "IDLE" /\ failures' = 0
    <3>1. /\ sched' = UpdateState(sched, status)
          /\ status = "IDLE" => lastReport' = "IDLE" /\ failures' = 0
      BY <2>1 DEF Report
    <3> QED BY <2>0, <3>1, LevelSteps
  <2>2. CASE Retry
    BY <2>0, <2>2, LevelSteps DEF Retry
  <2>3. CASE ~Retry /\ ~(\E status \in States : Report(status))
    BY <2>3, OtherSteps
  <2> QED BY <2>1, <2>2, <2>3
<1> QED BY <1>1, <1>2, TypeCorrect, PTL DEF Spec, NoFlapping

(* The streak the scheduler counts is never longer than the real one. *)
CountNotAhead == sched.offlineCount <= failures

LEMMA CountBounded == Spec => []CountNotAhead
<1>1. Init => CountNotAhead
  BY DEF Init, CountNotAhead, NewScheduler
<1>2. TypeOK /\ CountNotAhead /\ [Next]_vars => CountNotAhead'
  <2> SUFFICES ASSUME TypeOK, CountNotAhead, [Next]_vars PROVE CountNotAhead'
    OBVIOUS
  <2> USE SchedulerAssumption DEF CountNotAhead
  <2>0. sched.offlineCount \in 0 .. CountCap /\ failures \in 0 .. CountCap
    BY DEF TypeOK, Schedulers
  <2>1. ASSUME NEW status \in States, Report(status) PROVE CountNotAhead'
    <3>1. Increment(sched.offlineCount) <= Increment(failures) /\ Increment(failures) \in Nat
      BY <2>0 DEF Increment
    <3> QED BY <2>0, <2>1, <3>1, ReportEffect DEF Report, TypeOK, States
  <2>2. CASE Retry
    <3>1. OnRetry(sched).offlineCount = sched.offlineCount
      BY DEF TypeOK, Schedulers, OnRetry
    <3> QED BY <2>2, <3>1 DEF Retry
  <2>3. CASE ~Retry /\ ~(\E status \in States : Report(status))
    BY <2>3, OtherSteps
  <2> QED BY <2>1, <2>2, <2>3
<1> QED BY <1>1, <1>2, TypeCorrect, PTL DEF Spec

(* The interval of the probe grows with the number of failures. *)
LEMMA BackoffGrows ==
    ASSUME NEW n \in Nat, NEW m \in Nat, n <= m
    PROVE  Backoff(n) <= Backoff(m)
<1>1. /\ ProbeIntervals[1] = 5 /\ ProbeIntervals[2] = 10 /\ ProbeIntervals[3] = 15
      /\ ProbeIntervals[4] = 30 /\ ProbeIntervals[5] = 60
  BY DEF ProbeIntervals
<1>2. \A k \in Nat :
         /\ k = 0 => Backoff(k) = 5
         /\ k = 1 => Backoff(k) = 10
         /\ k = 2 => Backoff(k) = 15
         /\ k = 3 => Backoff(k) = 30
         /\ k >= 4 => Backoff(k) = 60
  BY <1>1 DEF Backoff
<1> QED BY <1>2

(* The probe is never further apart than the failures that were reported   *)
(* justify, with or without on_retry (scheduler.py:119-122 and 256-268).   *)
THEOREM BackoffBounded == Spec => []BackoffNotAhead
<1>1. TypeOK /\ CountNotAhead => BackoffNotAhead
  <2> SUFFICES ASSUME TypeOK, CountNotAhead,
                      sched.level = "L2" \/ (sched.level = "L0" /\ sched.state = "OFFLINE")
               PROVE  ProbeInterval(sched, 0) <= Backoff(failures)
    BY DEF BackoffNotAhead
  <2>1. sched.offlineCount \in Nat /\ failures \in Nat
    BY SchedulerAssumption DEF TypeOK, Schedulers
  <2>2. ProbeInterval(sched, 0) = Backoff(sched.offlineCount)
    BY DEF ProbeInterval
  <2> QED BY <2>1, <2>2, BackoffGrows DEF CountNotAhead
<1> QED BY <1>1, CountBounded, TypeCorrect, PTL

-----------------------------------------------------------------------------

(* What keeps the first cooldown: the clock counts from the moment the     *)
(* breaker opened, and a breaker that is HALF_OPEN has cooled down, so that*)
(* a failed trial reopens it with the clock already stopped.               *)
Cooled ==
    /\ FirstCooldownIsKept
    /\ brk.state = "HALF_OPEN" => brk.elapsed = Cooldown

(* The effect of the four changes on the state and the clock. *)
LEMMA BreakerEffect ==
    ASSUME NEW b \in Breakers
    PROVE  /\ AutoTransition(b).elapsed = b.elapsed
           /\ \/ AutoTransition(b).state = b.state
              \/ /\ b.state = "OPEN" /\ b.elapsed = Cooldown
                 /\ AutoTransition(b).state = "HALF_OPEN"
           /\ \A exit : LET c == AfterCall(b, exit) IN
                 \/ c.state = b.state /\ c.elapsed = b.elapsed
                 \/ /\ b.state = "HALF_OPEN" /\ c.elapsed = b.elapsed
                    /\ c.state \in {"OPEN", "CLOSED"}
                 \/ b.state = "CLOSED" /\ c.state = "OPEN" /\ c.elapsed = 0
           /\ Later(b).state = b.state
           /\ Later(b).elapsed = IF b.elapsed < Cooldown THEN b.elapsed + 1 ELSE Cooldown
<1> USE BreakerAssumption DEF Breakers
<1>1. /\ AutoTransition(b).elapsed = b.elapsed
      /\ \/ AutoTransition(b).state = b.state
         \/ /\ b.state = "OPEN" /\ b.elapsed = Cooldown
            /\ AutoTransition(b).state = "HALF_OPEN"
  BY DEF AutoTransition
<1>2. /\ Later(b).state = b.state
      /\ Later(b).elapsed = IF b.elapsed < Cooldown THEN b.elapsed + 1 ELSE Cooldown
  BY DEF Later
<1>3. LET c == OnBreakerTimeout(b) IN
         \/ c.state = b.state /\ c.elapsed = b.elapsed
         \/ b.state = "HALF_OPEN" /\ c.elapsed = b.elapsed /\ c.state = "OPEN"
         \/ b.state = "CLOSED" /\ c.state = "OPEN" /\ c.elapsed = 0
  <2> DEFINE n == IF b.timeouts < Threshold THEN b.timeouts + 1 ELSE Threshold
  <2>1. CASE b.state = "HALF_OPEN"
    <3>1. OnBreakerTimeout(b) = [b EXCEPT !.state = "OPEN", !.timeouts = n]
      BY <2>1 DEF OnBreakerTimeout
    <3> HIDE DEF n
    <3> QED BY <2>1, <3>1
  <2>2. CASE b.state = "CLOSED" /\ n >= Threshold
    <3>1. OnBreakerTimeout(b) = [state |-> "OPEN", timeouts |-> n, elapsed |-> 0]
      BY <2>2 DEF OnBreakerTimeout
    <3> HIDE DEF n
    <3> QED BY <2>2, <3>1
  <2>3. CASE b.state # "HALF_OPEN" /\ ~(b.state = "CLOSED" /\ n >= Threshold)
    <3>1. OnBreakerTimeout(b) = [b EXCEPT !.timeouts = n]
      BY <2>3 DEF OnBreakerTimeout
    <3> HIDE DEF n
    <3> QED BY <3>1
  <2> QED BY <2>1, <2>2, <2>3
<1>4. LET c == OnBreakerSuccess(b) IN
         /\ c.elapsed = b.elapsed
         /\ c.state = b.state \/ (b.state = "HALF_OPEN" /\ c.state = "CLOSED")
  BY DEF OnBreakerSuccess
<1>5. LET c == OnEmptyResponse(OnBreakerSuccess(b)) IN
         /\ c.elapsed = b.elapsed
         /\ c.state = b.state \/ (b.state = "HALF_OPEN" /\ c.state = "CLOSED")
  <2>1. OnBreakerSuccess(b) \in Breakers
    BY BreakerOperations
  <2> HIDE DEF Breakers
  <2>2. \A c \in Breakers : /\ OnEmptyResponse(c).elapsed = c.elapsed
                            /\ OnEmptyResponse(c).state = c.state
    BY DEF OnEmptyResponse, Breakers
  <2> QED BY <1>4, <2>1, <2>2
<1> HIDE DEF Breakers
<1> QED BY <1>1, <1>2, <1>3, <1>4, <1>5 DEF AfterCall

(* The three ways in which a step changes the breaker. *)
LEMMA BreakerSteps ==
    ASSUME [Next]_vars
    PROVE  \/ UNCHANGED <<brk, openFor>>
           \/ brk' = AutoTransition(brk) /\ Observe
           \/ Observe /\ \E outcome \in Outcomes : brk' = AfterCall(brk, outcome)
           \/ Tick
BY DEF Next, Report, Dispatch, Operational, Retry, WatchdogReset, CallEnds,
       GroupCallStarts, GroupCallEnds, vars

(* A breaker that opens after Threshold timeouts stays OPEN for its whole  *)
(* cooldown, whatever the calls under way report (circuit_breaker.py:71-90)*)
THEOREM FirstCooldown == Spec => []FirstCooldownIsKept
<1>1. Init => Cooled
  BY DEF Init, Cooled, FirstCooldownIsKept, NewBreaker
<1>2. TypeOK /\ Cooled /\ [Next]_vars => Cooled'
  <2> SUFFICES ASSUME TypeOK, Cooled, [Next]_vars PROVE Cooled'
    OBVIOUS
  <2>0. /\ brk \in Breakers /\ brk.elapsed \in 0 .. Cooldown
        /\ openFor \in 0 .. Cooldown /\ Cooldown \in Nat \ {0}
    BY BreakerAssumption DEF TypeOK, Breakers
  <2> USE DEF Cooled, FirstCooldownIsKept
  <2>1. CASE UNCHANGED <<brk, openFor>>
    BY <2>1
  <2>2. CASE brk' = AutoTransition(brk) /\ Observe
    BY <2>0, <2>2, BreakerEffect DEF Observe
  <2>3. ASSUME Observe, NEW outcome \in Outcomes, brk' = AfterCall(brk, outcome)
        PROVE  Cooled'
    <3>1. \/ brk'.state = brk.state /\ brk'.elapsed = brk.elapsed
          \/ /\ brk.state = "HALF_OPEN" /\ brk'.elapsed = brk.elapsed
             /\ brk'.state \in {"OPEN", "CLOSED"}
          \/ brk.state = "CLOSED" /\ brk'.state = "OPEN" /\ brk'.elapsed = 0
      BY <2>0, <2>3, BreakerEffect
    <3> QED BY <2>0, <2>3, <3>1 DEF Observe
  <2>4. CASE Tick
    <3>1. /\ brk'.state = brk.state
          /\ brk'.elapsed = IF brk.elapsed < Cooldown THEN brk.elapsed + 1 ELSE Cooldown
          /\ openFor' = IF openFor < Cooldown THEN openFor + 1 ELSE openFor
      BY <2>0, <2>4, BreakerEffect DEF Tick
    <3> QED BY <2>0, <3>1
  <2> QED BY <2>1, <2>2, <2>3, <2>4, BreakerSteps
<1>3. Cooled => FirstCooldownIsKept
  BY DEF Cooled
<1> QED BY <1>1, <1>2, <1>3, TypeCorrect, PTL DEF Spec

(* Nothing but the end of the cooldown, seen by a look of the dispatch     *)
(* loop, takes the breaker out of OPEN (circuit_breaker.py:59-63, 113-118).*)
THEOREM OpenIsRespected == Spec => OnlyCooldownEndsOpen
<1>1. TypeOK /\ [Next]_vars =>
         [brk.state = "OPEN" /\ brk'.state # "OPEN" =>
             brk.elapsed = Cooldown /\ brk'.state = "HALF_OPEN"]_vars
  <2> SUFFICES ASSUME TypeOK, [Next]_vars, brk.state = "OPEN", brk'.state # "OPEN"
               PROVE  brk.elapsed = Cooldown /\ brk'.state = "HALF_OPEN"
    OBVIOUS
  <2>1. brk \in Breakers
    BY DEF TypeOK
  <2>2. CASE brk' = AutoTransition(brk)
    BY <2>1, <2>2, BreakerEffect
  <2>3. ~(\E outcome \in Outcomes : brk' = AfterCall(brk, outcome))
    BY <2>1, BreakerEffect
  <2>4. ~Tick
    BY <2>1, BreakerEffect DEF Tick
  <2> QED BY <2>2, <2>3, <2>4, BreakerSteps
<1> QED BY <1>1, TypeCorrect, PTL DEF Spec, OnlyCooldownEndsOpen

=============================================================================
