---------------------------- MODULE GroupWindow -----------------------------
(***************************************************************************)
(* The hot window of a group, which decides whether an agent answers a     *)
(* message of the group that does not mention it (main.py:1391-1467), as   *)
(* functions from one window to the next.  A window is a record:           *)
(*   active      there has been an interaction: _last_grp_interaction # 0  *)
(*   idle        ticks since then, which stop at Window                    *)
(*   remaining   _grp_hot_remaining; a missing entry counts as 2           *)
(*   exhausted   _grp_hot_exhausted_at is set                              *)
(*   spent       ticks since then, which stop at GracePeriod               *)
(*   graceUsed   _grp_hot_grace_used                                       *)
(*   sinceReply  ticks since _last_grp_reply, which stop at ReplyCooldown  *)
(* A message is a record of its sender, of the agents it mentions and of   *)
(* whether it is operational (_skip_adapter_for_operational).              *)
(***************************************************************************)
EXTENDS Integers

CONSTANTS
    Window,          \* grp_hot_window_sec, in ticks
    GracePeriod,     \* 300 s, in ticks
    ReplyCooldown    \* grp_reply_cooldown_sec, in ticks

ASSUME WindowAssumption ==
    Window \in Nat \ {0} /\ GracePeriod \in Nat \ {0} /\ ReplyCooldown \in Nat

Windows == [active : BOOLEAN, idle : 0 .. Window, remaining : 0 .. 2,
            exhausted : BOOLEAN, spent : 0 .. GracePeriod,
            graceUsed : BOOLEAN, sinceReply : 0 .. ReplyCooldown]

NewWindow == [active |-> FALSE, idle |-> 0, remaining |-> 2,
              exhausted |-> FALSE, spent |-> 0,
              graceUsed |-> FALSE, sinceReply |-> ReplyCooldown]

(* The passing of time. *)
LaterWindow(w) ==
    [w EXCEPT !.idle = IF w.active /\ @ < Window THEN @ + 1 ELSE @,
              !.spent = IF w.exhausted /\ @ < GracePeriod THEN @ + 1 ELSE @,
              !.sinceReply = IF @ < ReplyCooldown THEN @ + 1 ELSE @]

(* An interaction: _last_grp_interaction is now. *)
Touch(w) == [w EXCEPT !.active = TRUE, !.idle = 0]

(* Fault: a mention does not touch the window. *)
ReopenUntouched(w) ==
    [w EXCEPT !.remaining = 2, !.graceUsed = FALSE, !.exhausted = FALSE, !.spent = 0]

(* A mention opens the window for two more messages and a new grace. *)
Reopen(w) ==
    [Touch(w) EXCEPT !.remaining = 2, !.graceUsed = FALSE,
                     !.exhausted = FALSE, !.spent = 0]

(* The window is hot: cold starts count as hot. *)
IsHot(w) == ~w.active \/ w.idle < Window

(* setdefault: the period of grace starts with the first message that      *)
(* finds the window exhausted.                                             *)
Exhaust(w) ==
    IF w.exhausted THEN w ELSE [w EXCEPT !.exhausted = TRUE, !.spent = 0]

(* Fault: the grace is not marked as used. *)
GraceForgotten(w) == [Touch(w) EXCEPT !.remaining = 1]

Grace(w) == [Touch(w) EXCEPT !.remaining = 1, !.graceUsed = TRUE]

(* A message that passed the filter without a mention takes one from the   *)
(* counter and is routed.                                                  *)
Take(w) == [Touch(w) EXCEPT !.remaining = @ - 1]

(* Whether a message reopens the window of agent a: an operational message *)
(* that mentions a is dropped before it could.                             *)
Reopens(a, message) ==
    IF a \in message.mentions THEN ~message.operational ELSE message.mentions # {}

(* What a does with a message of the group: its window afterwards, and     *)
(* whether the message is routed to the adapter.                           *)
Admit(a, w, message) ==
    LET v == IF Reopens(a, message) THEN Reopen(w) ELSE w
        spent == Exhaust(v)
        answer(u) == [window |-> Take(u), routed |-> TRUE]
        drop(u) == [window |-> u, routed |-> FALSE]
    IN  CASE a \in message.mentions ->
                 [window |-> v, routed |-> ~message.operational]
          [] a \notin message.mentions /\ v.remaining = 0 ->
                 IF ~spent.graceUsed /\ spent.spent < GracePeriod /\ ~message.operational
                 THEN answer(Grace(spent)) ELSE drop(spent)
          [] a \notin message.mentions /\ v.remaining > 0 ->
                 IF IsHot(v) /\ ~message.operational THEN answer(v) ELSE drop(v)

=============================================================================
