--------------------------- MODULE OperatorLemmas ---------------------------
(***************************************************************************)
(* What the operations of the scheduler and of the breaker return, for     *)
(* every value of the thresholds.                                          *)
(***************************************************************************)
EXTENDS Scheduler, DispatchBreaker, TLAPS

(* Every operation of aim_client/circuit_breaker.py keeps the breaker's    *)
(* counter and clock in their ranges.                                      *)
LEMMA BreakerOperations ==
    ASSUME NEW b \in Breakers
    PROVE  /\ Later(b) \in Breakers
           /\ AutoTransition(b) \in Breakers
           /\ OnBreakerTimeout(b) \in Breakers
           /\ OnBreakerSuccess(b) \in Breakers
           /\ OnEmptyResponse(b) \in Breakers
<1> USE BreakerAssumption DEF Breakers
<1>1. Later(b) \in Breakers
  BY DEF Later
<1>2. AutoTransition(b) \in Breakers
  BY DEF AutoTransition
<1>3. OnBreakerTimeout(b) \in Breakers
  <2> DEFINE n == IF b.timeouts < Threshold THEN b.timeouts + 1 ELSE Threshold
  <2>1. n \in 0 .. Threshold
    OBVIOUS
  <2> HIDE DEF n
  <2>2. CASE b.state = "HALF_OPEN"
    <3>1. OnBreakerTimeout(b) = [b EXCEPT !.state = "OPEN", !.timeouts = n]
      BY <2>2 DEF OnBreakerTimeout, n
    <3> QED BY <2>1, <3>1
  <2>3. CASE b.state = "CLOSED" /\ n >= Threshold
    <3>1. OnBreakerTimeout(b) = [state |-> "OPEN", timeouts |-> n, elapsed |-> 0]
      BY <2>3 DEF OnBreakerTimeout, n
    <3> QED BY <2>1, <3>1
  <2>4. CASE b.state # "HALF_OPEN" /\ ~(b.state = "CLOSED" /\ n >= Threshold)
    <3>1. OnBreakerTimeout(b) = [b EXCEPT !.timeouts = n]
      BY <2>4 DEF OnBreakerTimeout, n
    <3> QED BY <2>1, <3>1
  <2> QED BY <2>2, <2>3, <2>4
<1>4. OnBreakerSuccess(b) \in Breakers
  <2>1. 0 \in 0 .. Threshold
    OBVIOUS
  <2> QED BY <2>1 DEF OnBreakerSuccess
<1>5. OnEmptyResponse(b) \in Breakers
  BY DEF OnEmptyResponse
<1> QED BY <1>1, <1>2, <1>3, <1>4, <1>5

(* The end of an adapter call, whatever its outcome, leaves a breaker. *)
LEMMA AfterCallType ==
    ASSUME NEW b \in Breakers, NEW exit
    PROVE  AfterCall(b, exit) \in Breakers
<1>1. OnEmptyResponse(OnBreakerSuccess(b)) \in Breakers
  <2>1. OnBreakerSuccess(b) \in Breakers
    BY BreakerOperations
  <2> QED BY <2>1, BreakerOperations
<1> QED BY <1>1, BreakerOperations DEF AfterCall

(* A new breaker is a breaker. *)
LEMMA NewBreakerType == NewBreaker \in Breakers
BY BreakerAssumption DEF NewBreaker, Breakers

-----------------------------------------------------------------------------

(* evaluate_degrade_level returns a level. *)
LEMMA LevelType ==
    ASSUME NEW exit \in {0, 2}, NEW timeouts \in Nat, NEW fails \in Nat,
           NEW level \in Levels
    PROVE  EvaluateLevel(exit, timeouts, fails, level) \in Levels
BY SchedulerAssumption DEF EvaluateLevel, Levels

(* A health report never makes the scheduler BUSY. *)
LEMMA UpdateStateType ==
    ASSUME NEW s \in Schedulers, NEW status \in States
    PROVE  /\ UpdateState(s, status) \in Schedulers
           /\ UpdateState(s, status).state = "BUSY" => s.state = "BUSY"
<1> USE SchedulerAssumption
<1> USE DEF Schedulers
<1>1. CASE status = "BUSY"
  BY <1>1 DEF UpdateState
<1>2. CASE status = "OFFLINE"
  <2> DEFINE count == IF s.state = "OFFLINE" THEN Increment(s.offlineCount) ELSE 0
             new == EvaluateLevel(2, s.retryCount, count, s.level)
  <2>1. count \in 0 .. CountCap
    BY DEF Increment
  <2>2. new \in Levels
    BY <2>1, LevelType
  <2>3. UpdateState(s, status) =
            [s EXCEPT !.state = "OFFLINE", !.offlineCount = count, !.level = new]
    BY <1>2 DEF UpdateState
  <2> HIDE DEF count, new
  <2>4. "OFFLINE" \in States
    BY DEF States
  <2> QED BY <2>1, <2>2, <2>3, <2>4
<1>3. CASE status = "IDLE"
  <2> DEFINE st == IF s.state = "OFFLINE" THEN "IDLE" ELSE s.state
             new == IF s.level = "L0" THEN s.level
                    ELSE EvaluateLevel(0, s.retryCount, 0, s.level)
  <2>1. st \in States /\ (st = "BUSY" => s.state = "BUSY")
    BY DEF States
  <2>2. new \in Levels
    BY LevelType
  <2>3. UpdateState(s, status) =
            [s EXCEPT !.state = st, !.offlineCount = 0, !.level = new]
    BY <1>3 DEF UpdateState
  <2>4. 0 \in 0 .. CountCap
    OBVIOUS
  <2> HIDE DEF st, new
  <2> QED BY <2>1, <2>2, <2>3, <2>4
<1> QED BY <1>1, <1>2, <1>3 DEF States

(* The operations of aim_client/scheduler.py keep the scheduler's types,    *)
(* and each names the state it leads to.                                   *)
LEMMA SchedulerOperations ==
    ASSUME NEW s \in Schedulers
    PROVE  /\ OnDispatchStarted(s) \in Schedulers
           /\ OnProcessingDone(s) \in Schedulers /\ OnProcessingDone(s).state = "IDLE"
           /\ OnDegrade(s) \in Schedulers /\ OnDegrade(s).state = "OFFLINE"
           /\ OnHumanIntervention(s) \in Schedulers
           /\ OnHumanIntervention(s).state = "OFFLINE"
           /\ ResetToIdle(s) \in Schedulers /\ ResetToIdle(s).state = "IDLE"
<1> USE SchedulerAssumption
<1> USE DEF Schedulers, States
<1>1. OnDispatchStarted(s) \in Schedulers
  <2>1. 0 \in 0 .. CountCap
    OBVIOUS
  <2> QED BY <2>1 DEF OnDispatchStarted
<1>2. OnProcessingDone(s) \in Schedulers /\ OnProcessingDone(s).state = "IDLE"
  BY DEF OnProcessingDone
<1>3. OnDegrade(s) \in Schedulers /\ OnDegrade(s).state = "OFFLINE"
  BY DEF OnDegrade
<1>4. OnHumanIntervention(s) \in Schedulers /\ OnHumanIntervention(s).state = "OFFLINE"
  BY DEF OnHumanIntervention
<1>5. ResetToIdle(s) \in Schedulers /\ ResetToIdle(s).state = "IDLE"
  BY DEF ResetToIdle
<1> QED BY <1>1, <1>2, <1>3, <1>4, <1>5

(* A new scheduler is an idle scheduler. *)
LEMMA NewSchedulerType == NewScheduler \in Schedulers /\ NewScheduler.state = "IDLE"
BY SchedulerAssumption DEF NewScheduler, Schedulers, States, Levels
=============================================================================
