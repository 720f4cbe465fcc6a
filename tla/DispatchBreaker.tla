--------------------------- MODULE DispatchBreaker --------------------------
(***************************************************************************)
(* The circuit breaker of aim_client/circuit_breaker.py, as functions from *)
(* one breaker state to the next.  A breaker state is a record:            *)
(*   state      CLOSED, OPEN or HALF_OPEN                                  *)
(*   timeouts   _consecutive_timeouts, which stops at the threshold        *)
(*   elapsed    clock ticks since _opened_at, which stop at Cooldown       *)
(* _opened_at is 0 until the breaker opens: elapsed starts saturated.      *)
(***************************************************************************)
EXTENDS Integers

CONSTANTS
    Threshold,   \* failure_threshold
    Cooldown     \* cooldown_sec, in ticks

ASSUME BreakerAssumption == Threshold \in Nat \ {0} /\ Cooldown \in Nat \ {0}

Breakers == [state : {"CLOSED", "OPEN", "HALF_OPEN"},
             timeouts : 0 .. Threshold, elapsed : 0 .. Cooldown]

NewBreaker == [state |-> "CLOSED", timeouts |-> 0, elapsed |-> Cooldown]

(* The passing of time. *)
Later(b) == [b EXCEPT !.elapsed = IF @ < Cooldown THEN @ + 1 ELSE @]

(* Fault: every timeout while OPEN restarts the cooldown. *)
TimeoutRestarts(b) ==
    LET n == IF b.timeouts < Threshold THEN b.timeouts + 1 ELSE Threshold
    IN  IF b.state = "HALF_OPEN" \/ n >= Threshold
        THEN [state |-> "OPEN", timeouts |-> n, elapsed |-> 0]
        ELSE [b EXCEPT !.timeouts = n]

(* on_timeout: a failed trial reopens the breaker but leaves _opened_at.   *)
OnBreakerTimeout(b) ==
    LET n == IF b.timeouts < Threshold THEN b.timeouts + 1 ELSE Threshold
    IN  IF b.state = "HALF_OPEN"
        THEN [b EXCEPT !.state = "OPEN", !.timeouts = n]
        ELSE IF b.state = "CLOSED" /\ n >= Threshold
             THEN [state |-> "OPEN", timeouts |-> n, elapsed |-> 0]
             ELSE [b EXCEPT !.timeouts = n]

OnBreakerSuccess(b) ==
    [b EXCEPT !.timeouts = 0,
              !.state = IF @ = "HALF_OPEN" THEN "CLOSED" ELSE @]

OnEmptyResponse(b) == [b EXCEPT !.timeouts = 0]

(* _auto_transition, run by every look at is_open. *)
AutoTransition(b) ==
    IF b.state = "OPEN" /\ b.elapsed >= Cooldown
    THEN [b EXCEPT !.state = "HALF_OPEN"] ELSE b

IsOpen(b) == AutoTransition(b).state = "OPEN"

(* What an adapter call reports when it ends (main.py:1152-1172): a time   *)
(* out, an answer, an empty answer, or nothing for any other exit code.    *)
AfterCall(b, outcome) ==
    CASE outcome = "timeout" -> OnBreakerTimeout(b)
      [] outcome = "reply" -> OnBreakerSuccess(b)
      [] outcome = "empty" -> OnEmptyResponse(OnBreakerSuccess(b))
      [] OTHER -> b

=============================================================================
