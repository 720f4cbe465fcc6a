----------------------------- MODULE Scheduler ------------------------------
(***************************************************************************)
(* The scheduler of aim_client/scheduler.py and the degradation rules of   *)
(* aim_client/types.py, as functions from one scheduler state to the next. *)
(* A scheduler state is a record:                                          *)
(*   state         IDLE, BUSY or OFFLINE; only IDLE dispatches             *)
(*   level         L0, L1 or L2, the degradation level                     *)
(*   offlineCount  failed health reports in a row, for the probe back-off  *)
(*   retryCount    on_retry calls since the last dispatch                  *)
(* The two counters stop at CountCap, above which they decide nothing.     *)
(* The time of the last dispatch and the message counter are diagnostics.  *)
(***************************************************************************)
EXTENDS Integers, Sequences

CONSTANTS
    L1Trigger,   \* l1_trigger_timeouts
    L2Trigger,   \* l2_trigger_health_fails
    CountCap     \* bound: where the counters saturate

ASSUME SchedulerAssumption ==
    L1Trigger \in Nat \ {0} /\ L2Trigger \in Nat \ {0} /\ CountCap \in Nat

States == {"IDLE", "BUSY", "OFFLINE"}
Levels == {"L0", "L1", "L2"}
Schedulers == [state : States, level : Levels,
               offlineCount : 0 .. CountCap, retryCount : 0 .. CountCap]

ProbeIntervals == <<5, 10, 15, 30, 60>>

NewScheduler == [state |-> "IDLE", level |-> "L0", offlineCount |-> 0, retryCount |-> 0]

Increment(n) == IF n < CountCap THEN n + 1 ELSE n

-----------------------------------------------------------------------------

(* Fault: one healthy report ends L1, whatever the timeouts. *)
EvaluateAtOnce(exit, timeouts, fails, level) ==
    CASE level = "L2" -> IF exit = 0 THEN "L0" ELSE "L2"
      [] level # "L2" /\ (exit = 2 \/ fails >= L2Trigger) -> "L2"
      [] level = "L1" /\ exit = 0 /\ fails < L2Trigger -> "L0"
      [] level = "L0" /\ exit = 0 /\ fails < L2Trigger ->
             IF timeouts >= L1Trigger THEN "L1" ELSE "L0"

(* evaluate_degrade_level; callers pass the exit code 0 or 2 of a health   *)
(* check, the timeouts and the health failures in a row, and the level.    *)
EvaluateLevel(exit, timeouts, fails, level) ==
    CASE level = "L2" -> IF exit = 0 THEN "L0" ELSE "L2"
      [] level # "L2" /\ (exit = 2 \/ fails >= L2Trigger) -> "L2"
      [] level = "L1" /\ exit = 0 /\ fails < L2Trigger ->
             IF timeouts = 0 THEN "L0" ELSE "L1"
      [] level = "L0" /\ exit = 0 /\ fails < L2Trigger ->
             IF timeouts >= L1Trigger THEN "L1" ELSE "L0"

(* update_state: a health report with the status IDLE, BUSY or OFFLINE.    *)
(* A BUSY report changes nothing, the streak of failures included.         *)
UpdateState(s, status) ==
    CASE status = "BUSY" -> s
      [] status = "OFFLINE" ->
             LET count == IF s.state = "OFFLINE" THEN Increment(s.offlineCount) ELSE 0
             IN  [s EXCEPT !.state = "OFFLINE",
                           !.offlineCount = count,
                           !.level = EvaluateLevel(2, s.retryCount, count, @)]
      [] status = "IDLE" ->
             [s EXCEPT !.state = IF @ = "OFFLINE" THEN "IDLE" ELSE @,
                       !.offlineCount = 0,
                       !.level = IF @ = "L0" THEN @
                                 ELSE EvaluateLevel(0, s.retryCount, 0, @)]

OnDispatchStarted(s) ==
    IF s.state = "IDLE" THEN [s EXCEPT !.state = "BUSY", !.retryCount = 0] ELSE s

OnProcessingDone(s) == [s EXCEPT !.state = "IDLE"]

(* on_retry evaluates the level as if the health check had succeeded. *)
OnRetry(s) ==
    LET count == Increment(s.retryCount)
    IN  [s EXCEPT !.state = "IDLE",
                  !.retryCount = count,
                  !.level = EvaluateLevel(0, count, 0, @)]

(* on_degrade and on_human_intervention change the same state. *)
OnDegrade(s) == [s EXCEPT !.state = "OFFLINE"]

OnHumanIntervention(s) == [s EXCEPT !.state = "OFFLINE"]

OnTimeout(s) == [s EXCEPT !.state = "IDLE"]

(* Fault: the watchdog resets the level as well. *)
ResetClearsLevel(s) == [s EXCEPT !.state = "IDLE", !.level = "L0"]

ResetToIdle(s) == [s EXCEPT !.state = "IDLE"]

ShouldDispatch(s) == s.state = "IDLE"

(* The probe interval after n failed health reports in a row. *)
Backoff(n) == ProbeIntervals[(IF n < 4 THEN n ELSE 4) + 1]

(* get_probe_interval, with its namesake in types.py for L1; the interval  *)
(* without a degradation is the configured one.                            *)
ProbeInterval(s, configured) ==
    CASE s.level = "L1" -> <<5, 10, 15>>[(IF s.retryCount < 2 THEN s.retryCount ELSE 2) + 1]
      [] s.level # "L1" /\ (s.state = "OFFLINE" \/ s.level = "L2") ->
             Backoff(s.offlineCount)
      [] s.level = "L0" /\ s.state # "OFFLINE" -> configured

=============================================================================
