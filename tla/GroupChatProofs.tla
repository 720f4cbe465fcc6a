-------------------------- MODULE GroupChatProofs ---------------------------
(***************************************************************************)
(* What an agent hears.  First the hot window of agents in a group         *)
(* (GroupChat), for any number of agents, tasks and messages and every     *)
(* length of the window, the grace and the cooldown.  Then the hot feed    *)
(* (HotFeed), for any stream, policies and sizes of its tables: what is    *)
(* let through is counted, what the cursor has passed was seen or lies     *)
(* before a message of the other kind, and what was reported is saved, or  *)
(* its save failed, or get_recent gives it.  The two share no state.       *)
(***************************************************************************)
EXTENDS GroupChat, HotFeed, FiniteSetTheorems, WellFoundedInduction, TLAPS

(* The fields that the operations on a window change. *)
LEMMA WindowOperations ==
    ASSUME NEW w \in Windows
    PROVE  /\ LET u == Touch(w) IN
                 /\ u \in Windows /\ u.active = TRUE /\ u.idle = 0
                 /\ u.remaining = w.remaining /\ u.graceUsed = w.graceUsed
                 /\ u.sinceReply = w.sinceReply
           /\ LET u == Reopen(w) IN
                 /\ u \in Windows /\ u.active = TRUE /\ u.idle = 0
                 /\ u.remaining = 2 /\ u.graceUsed = FALSE
                 /\ u.sinceReply = w.sinceReply
           /\ LET u == Exhaust(w) IN
                 /\ u \in Windows /\ u.active = w.active /\ u.idle = w.idle
                 /\ u.remaining = w.remaining /\ u.graceUsed = w.graceUsed
                 /\ u.sinceReply = w.sinceReply
           /\ LET u == Grace(w) IN
                 /\ u \in Windows /\ u.active = TRUE /\ u.idle = 0
                 /\ u.remaining = 1 /\ u.graceUsed = TRUE
                 /\ u.sinceReply = w.sinceReply
           /\ LET u == LaterWindow(w) IN
                 /\ u \in Windows /\ u.active = w.active
                 /\ u.remaining = w.remaining /\ u.graceUsed = w.graceUsed
                 /\ u.idle <= w.idle + 1
                 /\ u.sinceReply = IF w.sinceReply < ReplyCooldown
                                   THEN w.sinceReply + 1 ELSE ReplyCooldown
<1> USE WindowAssumption DEF Windows
<1>0. /\ 0 \in 0 .. Window /\ 0 \in 0 .. GracePeriod /\ 1 \in 0 .. 2 /\ 2 \in 0 .. 2
      /\ TRUE \in BOOLEAN /\ FALSE \in BOOLEAN
  OBVIOUS
<1>1. LET u == Touch(w) IN
         /\ u \in Windows /\ u.active = TRUE /\ u.idle = 0
         /\ u.remaining = w.remaining /\ u.graceUsed = w.graceUsed
         /\ u.sinceReply = w.sinceReply /\ u.exhausted = w.exhausted /\ u.spent = w.spent
  BY <1>0 DEF Touch
<1>2. LET u == Reopen(w) IN
         /\ u \in Windows /\ u.active = TRUE /\ u.idle = 0
         /\ u.remaining = 2 /\ u.graceUsed = FALSE
         /\ u.sinceReply = w.sinceReply
  BY <1>0, <1>1 DEF Reopen
<1>3. LET u == Exhaust(w) IN
         /\ u \in Windows /\ u.active = w.active /\ u.idle = w.idle
         /\ u.remaining = w.remaining /\ u.graceUsed = w.graceUsed
         /\ u.sinceReply = w.sinceReply
  BY <1>0 DEF Exhaust
<1>4. LET u == Grace(w) IN
         /\ u \in Windows /\ u.active = TRUE /\ u.idle = 0
         /\ u.remaining = 1 /\ u.graceUsed = TRUE
         /\ u.sinceReply = w.sinceReply
  BY <1>0, <1>1 DEF Grace
<1>5. LET u == LaterWindow(w) IN
         /\ u \in Windows /\ u.active = w.active
         /\ u.remaining = w.remaining /\ u.graceUsed = w.graceUsed
         /\ u.idle <= w.idle + 1
         /\ u.sinceReply = IF w.sinceReply < ReplyCooldown
                           THEN w.sinceReply + 1 ELSE ReplyCooldown
  <2> DEFINE i == IF w.active /\ w.idle < Window THEN w.idle + 1 ELSE w.idle
             p == IF w.exhausted /\ w.spent < GracePeriod THEN w.spent + 1 ELSE w.spent
             r == IF w.sinceReply < ReplyCooldown THEN w.sinceReply + 1 ELSE w.sinceReply
  <2>1. i \in 0 .. Window /\ i <= w.idle + 1 /\ p \in 0 .. GracePeriod
    OBVIOUS
  <2>2. /\ r \in 0 .. ReplyCooldown
        /\ r = IF w.sinceReply < ReplyCooldown THEN w.sinceReply + 1 ELSE ReplyCooldown
    OBVIOUS
  <2>3. LaterWindow(w) = [w EXCEPT !.idle = i, !.spent = p, !.sinceReply = r]
    BY DEF LaterWindow
  <2> HIDE DEF i, p, r
  <2> QED BY <2>1, <2>2, <2>3
<1> QED BY <1>1, <1>2, <1>3, <1>4, <1>5

(* Taking one of the messages that are left. *)
LEMMA TakeEffect ==
    ASSUME NEW w \in Windows, w.remaining > 0
    PROVE  LET u == Take(w) IN
              /\ u \in Windows /\ u.active = TRUE /\ u.idle = 0
              /\ u.remaining = w.remaining - 1 /\ u.graceUsed = w.graceUsed
              /\ u.sinceReply = w.sinceReply
<1>1. /\ Touch(w) \in Windows /\ Touch(w).active = TRUE /\ Touch(w).idle = 0
      /\ Touch(w).remaining = w.remaining /\ Touch(w).graceUsed = w.graceUsed
      /\ Touch(w).sinceReply = w.sinceReply
  BY WindowOperations
<1>2. Touch(w).remaining - 1 \in 0 .. 2
  BY <1>1 DEF Windows
<1> HIDE DEF Touch
<1> QED BY <1>1, <1>2 DEF Take, Windows

(* The ways in which a message changes the window: it is routed because it *)
(* mentions the agent, routed for one of the messages left or for the      *)
(* grace, or dropped.  v is the window after the mentions have been seen.  *)
Outcome(a, v, message, r) ==
    LET u == r.window
    IN  /\ u \in Windows /\ u.sinceReply = v.sinceReply
        /\ \/ /\ a \in message.mentions /\ message.operational = FALSE
              /\ r.routed = TRUE /\ u = v
           \/ /\ a \in message.mentions /\ message.operational = TRUE
              /\ r.routed = FALSE /\ u = v
           \/ /\ a \notin message.mentions /\ r.routed = FALSE
              /\ u.remaining = v.remaining /\ u.graceUsed = v.graceUsed
              /\ u.active = v.active /\ u.idle = v.idle
              /\ message.operational = TRUE \/ v.remaining = 0 \/ ~IsHot(v)
           \/ /\ a \notin message.mentions /\ r.routed = TRUE
              /\ v.remaining > 0 /\ u.remaining = v.remaining - 1
              /\ u.graceUsed = v.graceUsed /\ u.active = TRUE /\ u.idle = 0
           \/ /\ a \notin message.mentions /\ r.routed = TRUE
              /\ v.remaining = 0 /\ v.graceUsed = FALSE /\ u.remaining = 0
              /\ u.graceUsed = TRUE /\ u.active = TRUE /\ u.idle = 0

Mentioned(a, w, message) == IF Reopens(a, message) THEN Reopen(w) ELSE w

(* Admit has one of these outcomes. *)
LEMMA AdmitEffect ==
    ASSUME NEW a, NEW w \in Windows, NEW message \in Messages
    PROVE  /\ Mentioned(a, w, message) \in Windows
           /\ Mentioned(a, w, message).sinceReply = w.sinceReply
           /\ Outcome(a, Mentioned(a, w, message), message, Admit(a, w, message))
<1> DEFINE r == Admit(a, w, message)
           v == IF Reopens(a, message) THEN Reopen(w) ELSE w
           x == Exhaust(v)
           g == Grace(x)
<1>1. v \in Windows /\ v.sinceReply = w.sinceReply
  BY WindowOperations
<1>2. /\ x \in Windows /\ x.active = v.active /\ x.idle = v.idle
      /\ x.remaining = v.remaining /\ x.graceUsed = v.graceUsed
      /\ x.sinceReply = v.sinceReply
  <2> HIDE DEF v
  <2> QED BY <1>1, WindowOperations
<1>3. g \in Windows /\ g.remaining = 1 /\ g.graceUsed = TRUE /\ g.sinceReply = x.sinceReply
  <2> HIDE DEF x
  <2> QED BY <1>2, WindowOperations
<1>4. /\ Take(g) \in Windows /\ Take(g).remaining = 0 /\ Take(g).graceUsed = TRUE
      /\ Take(g).active = TRUE /\ Take(g).idle = 0 /\ Take(g).sinceReply = g.sinceReply
  <2> HIDE DEF g
  <2>1. g.remaining > 0 /\ g.remaining - 1 = 0
    BY <1>3
  <2> QED BY <1>3, <2>1, TakeEffect
<1>5. message.operational \in BOOLEAN /\ v.graceUsed \in BOOLEAN /\ v.remaining \in 0 .. 2
  BY <1>1 DEF Messages, Windows
<1>6. ASSUME a \in message.mentions PROVE Outcome(a, v, message, r)
  <2>1. r = [window |-> v, routed |-> ~message.operational]
    BY <1>6 DEF Admit
  <2> HIDE DEF r, v
  <2>2. CASE message.operational = TRUE
    <3>1. r.routed = FALSE
      BY <2>1, <2>2
    <3> QED BY <1>1, <1>6, <2>1, <2>2, <3>1 DEF Outcome
  <2>3. CASE message.operational = FALSE
    <3>1. r.routed = TRUE
      BY <2>1, <2>3
    <3> QED BY <1>1, <1>6, <2>1, <2>3, <3>1 DEF Outcome
  <2> QED BY <1>5, <2>2, <2>3
<1>7. ASSUME a \notin message.mentions, v.remaining = 0 PROVE Outcome(a, v, message, r)
  <2>1. CASE ~x.graceUsed /\ x.spent < GracePeriod /\ ~message.operational
    <3>1. r = [window |-> Take(g), routed |-> TRUE]
      BY <1>7, <2>1 DEF Admit
    <3> HIDE DEF r, v, x, g
    <3>2. v.graceUsed = FALSE
      BY <1>2, <1>5, <2>1
    <3> QED BY <1>1, <1>2, <1>3, <1>4, <1>7, <3>1, <3>2 DEF Outcome
  <2>2. CASE ~(~x.graceUsed /\ x.spent < GracePeriod /\ ~message.operational)
    <3>1. r = [window |-> x, routed |-> FALSE]
      BY <1>7, <2>2 DEF Admit
    <3> HIDE DEF r, v, x, g
    <3> QED BY <1>1, <1>2, <1>7, <3>1 DEF Outcome
  <2> QED BY <2>1, <2>2
<1>8. ASSUME a \notin message.mentions, v.remaining > 0 PROVE Outcome(a, v, message, r)
  <2>0. v.remaining # 0
    BY <1>8
  <2>1. CASE IsHot(v) /\ ~message.operational
    <3>1. r = [window |-> Take(v), routed |-> TRUE]
      BY <1>8, <2>0, <2>1 DEF Admit
    <3> HIDE DEF r, v, x, g
    <3>2. /\ Take(v) \in Windows /\ Take(v).remaining = v.remaining - 1
          /\ Take(v).graceUsed = v.graceUsed /\ Take(v).active = TRUE
          /\ Take(v).idle = 0 /\ Take(v).sinceReply = v.sinceReply
      BY <1>1, <1>8, TakeEffect
    <3> QED BY <1>1, <1>8, <3>1, <3>2 DEF Outcome
  <2>2. CASE ~(IsHot(v) /\ ~message.operational)
    <3>1. r = [window |-> v, routed |-> FALSE]
      BY <1>8, <2>0, <2>2 DEF Admit
    <3> HIDE DEF r, v, x, g
    <3> QED BY <1>1, <1>5, <1>8, <2>2, <3>1 DEF Outcome
  <2> QED BY <2>1, <2>2
<1>9. v.remaining = 0 \/ v.remaining > 0
  BY <1>5
<1>10. Outcome(a, v, message, r)
  <2> HIDE DEF r, v
  <2> QED BY <1>6, <1>7, <1>8, <1>9
<1> QED BY <1>1, <1>10 DEF Mentioned

-----------------------------------------------------------------------------

(* What hearing a message leaves alone, and the messages it may hear. *)
LEMMA HearFrame ==
    ASSUME TypeOK, NEW a \in Agents, Hear(a)
    PROVE  /\ Head(inbox[a]) \in Messages
           /\ inbox' \in [Agents -> Seq(Messages)]
           /\ window' = [window EXCEPT ![a] = Admit(a, window[a], Head(inbox[a])).window]
           /\ task' \in [Agents -> [Slots -> Tasks]]
<1>1. inbox[a] \in Seq(Messages) /\ inbox[a] # <<>>
  BY DEF TypeOK, Hear
<1>2. Head(inbox[a]) \in Messages /\ Tail(inbox[a]) \in Seq(Messages)
  BY <1>1
<1>3. inbox' = [inbox EXCEPT ![a] = Tail(inbox[a])]
  BY DEF Hear
<1>4. inbox' \in [Agents -> Seq(Messages)]
  BY <1>2, <1>3 DEF TypeOK
<1>5. window' = [window EXCEPT ![a] = Admit(a, window[a], Head(inbox[a])).window]
  BY DEF Hear
<1>6. ASSUME NEW s \in Slots,
             SetTask(a, s, [NoTask EXCEPT !.stage = "calling",
                                          !.to = Head(inbox[a]).from])
      PROVE  task' \in [Agents -> [Slots -> Tasks]]
  <2>1. Head(inbox[a]).from \in Agents \cup {Person}
    BY <1>2 DEF Messages
  <2>2. 0 \in 0 .. Window /\ {} \in SUBSET Agents /\ "calling" \in Stages
    BY WindowAssumption DEF Stages
  <2>3. [NoTask EXCEPT !.stage = "calling", !.to = Head(inbox[a]).from] \in Tasks
    BY <2>1, <2>2 DEF NoTask, Tasks
  <2> QED BY <1>6, <2>3 DEF SetTask, TypeOK
<1>7. task' \in [Agents -> [Slots -> Tasks]]
  <2>1. CASE Admit(a, window[a], Head(inbox[a])).routed
    BY <1>6, <2>1 DEF Hear
  <2>2. CASE ~Admit(a, window[a], Head(inbox[a])).routed
    BY <2>2 DEF Hear, TypeOK
  <2> QED BY <2>1, <2>2
<1> QED BY <1>2, <1>4, <1>5, <1>7

(* A publication keeps the inboxes sequences of messages. *)
LEMMA PublishType ==
    ASSUME TypeOK, NEW message \in Messages, Publish(message)
    PROVE  inbox' \in [Agents -> Seq(Messages)]
<1>1. \A b \in Agents : inbox[b] \in Seq(Messages) /\ Append(inbox[b], message) \in Seq(Messages)
  BY DEF TypeOK
<1> QED BY <1>1 DEF Publish

(* The variables keep their types. *)
LEMMA NextTypeOK == TypeOK /\ [Next]_vars => TypeOK'
<1> SUFFICES ASSUME TypeOK, [Next]_vars PROVE TypeOK'
  OBVIOUS
<1> USE WindowAssumption, ChatAssumption
<1>0. 0 \in 0 .. Window /\ 0 \in 0 .. ReplyCooldown
  OBVIOUS
<1>1. ASSUME NEW mentions \in SUBSET Agents, NEW operational \in BOOLEAN,
             Prompt(mentions, operational)
      PROVE  TypeOK'
  <2>1. Message(Person, mentions, operational) \in Messages
    BY DEF Message, Messages
  <2>2. inbox' \in [Agents -> Seq(Messages)]
    BY <1>1, <2>1, PublishType DEF Prompt
  <2> QED BY <1>1, <2>2 DEF Prompt, TypeOK, history
<1>2. ASSUME NEW a \in Agents, Hear(a) PROVE TypeOK'
  <2>1. Admit(a, window[a], Head(inbox[a])).window \in Windows
    <3>1. window[a] \in Windows /\ Head(inbox[a]) \in Messages
      BY <1>2, HearFrame DEF TypeOK
    <3> QED BY <3>1, AdmitEffect DEF Outcome
  <2>2. window' \in [Agents -> Windows]
    BY <1>2, <2>1, HearFrame DEF TypeOK
  <2>3. routed' \in [Agents -> Nat] /\ missed' \in [Agents -> BOOLEAN]
    <3> DEFINE r == Admit(a, window[a], Head(inbox[a])).routed
               o == Reopens(a, Head(inbox[a]))
               n == IF r /\ a \notin Head(inbox[a]).mentions
                    THEN (IF o THEN 0 ELSE routed[a]) + 1 ELSE IF o THEN 0 ELSE routed[a]
               m == (missed[a] /\ ~o) \/ (~r /\ ~Head(inbox[a]).operational)
    <3>1. routed' = [routed EXCEPT ![a] = n] /\ missed' = [missed EXCEPT ![a] = m]
      BY <1>2 DEF Hear
    <3>2. n \in Nat
      BY DEF TypeOK
    <3>3. m \in BOOLEAN
      OBVIOUS
    <3> HIDE DEF n, m
    <3> QED BY <3>1, <3>2, <3>3 DEF TypeOK
  <2>4. reopened' \in [Agents -> 0 .. Window]
    BY <1>0, <1>2 DEF Hear, TypeOK
  <2>5. UNCHANGED <<slow, prompts, debt>>
    BY <1>2 DEF Hear
  <2> QED BY <1>2, <2>2, <2>3, <2>4, <2>5, HearFrame DEF TypeOK
<1>3. ASSUME NEW a \in Agents, NEW s \in Slots, TaskStep(a, s) PROVE TypeOK'
  <2>0. task[a][s] \in Tasks /\ window[a] \in Windows /\ NoTask \in Tasks
    BY <1>0 DEF TypeOK, Tasks, NoTask, Stages
  <2>1. ASSUME NEW t \in Tasks, SetTask(a, s, t)
        PROVE  task' \in [Agents -> [Slots -> Tasks]]
    BY <2>1 DEF SetTask, TypeOK
  <2>2. CASE CallFails(a, s) \/ ReplyTooSoon(a, s) \/ SendFails(a, s)
    <3>1. task' \in [Agents -> [Slots -> Tasks]]
      BY <2>0, <2>1, <2>2 DEF CallFails, ReplyTooSoon, SendFails
    <3> QED BY <2>2, <3>1 DEF CallFails, ReplyTooSoon, SendFails, TypeOK, history
  <2>3. CASE ReplyPasses(a, s)
    <3> DEFINE to == IF window[a].active /\ window[a].idle < Window
                     THEN {} ELSE {task[a][s].to} \cap Agents
    <3>1. [task[a][s] EXCEPT !.stage = "sending", !.mentions = to] \in Tasks
      <4>1. to \in SUBSET Agents
        OBVIOUS
      <4> HIDE DEF to
      <4> QED BY <2>0, <4>1 DEF Tasks, Stages
    <3>2. task' \in [Agents -> [Slots -> Tasks]]
      BY <2>1, <2>3, <3>1 DEF ReplyPasses
    <3>3. window' = [window EXCEPT ![a] = [window[a] EXCEPT !.sinceReply = 0]]
      BY <2>3 DEF ReplyPasses
    <3>4. [window[a] EXCEPT !.sinceReply = 0] \in Windows
      BY <1>0, <2>0 DEF Windows
    <3>5. window' \in [Agents -> Windows]
      BY <3>3, <3>4 DEF TypeOK
    <3> QED BY <2>3, <3>2, <3>5 DEF ReplyPasses, TypeOK, history
  <2>4. CASE Send(a, s)
    <3>1. ASSUME NEW operational \in BOOLEAN,
                 Publish(Message(a, task[a][s].mentions, operational))
          PROVE  inbox' \in [Agents -> Seq(Messages)]
      <4>1. Message(a, task[a][s].mentions, operational) \in Messages
        BY <2>0 DEF Message, Messages, Tasks
      <4> QED BY <3>1, <4>1, PublishType
    <3>2. task' \in [Agents -> [Slots -> Tasks]]
      BY <2>0, <2>1, <2>4 DEF Send
    <3>3. window' \in [Agents -> Windows]
      BY <2>0, <2>4, WindowOperations DEF Send, TypeOK
    <3>4. debt' \in [Agents -> Nat]
      BY <1>0, <2>4 DEF Send, TypeOK
    <3> QED BY <2>4, <3>1, <3>2, <3>3, <3>4 DEF Send, TypeOK
  <2>5. CASE SendRefused(a, s)
    <3>1. [task[a][s] EXCEPT !.stage = "resending"] \in Tasks
      BY <2>0 DEF Tasks, Stages
    <3>2. task' \in [Agents -> [Slots -> Tasks]]
      BY <2>1, <2>5, <3>1 DEF SendRefused
    <3> QED BY <2>5, <3>2 DEF SendRefused, TypeOK, history
  <2> QED BY <1>3, <2>2, <2>3, <2>4, <2>5 DEF TaskStep
<1>4. CASE Tick
  <2>1. window' \in [Agents -> Windows]
    <3>1. \A a \in Agents : window[a] \in Windows
      BY DEF TypeOK
    <3>2. \A a \in Agents : LaterWindow(window[a]) \in Windows
      BY <3>1, WindowOperations
    <3> QED BY <1>4, <3>2 DEF Tick
  <2>2. task' \in [Agents -> [Slots -> Tasks]]
    <3>1. ASSUME NEW a \in Agents, NEW s \in Slots, task[a][s].stage = "calling"
          PROVE  [task[a][s] EXCEPT !.age = @ + 1] \in Tasks
      <4>1. task[a][s].age < Patience /\ task[a][s] \in Tasks
        BY <1>4, <3>1 DEF Tick, TypeOK
      <4>2. task[a][s].age + 1 \in 0 .. Window
        BY <4>1 DEF Patience, Tasks
      <4> QED BY <4>1, <4>2 DEF Tasks
    <3>2. task' = [a \in Agents |-> [s \in Slots |->
                     IF task[a][s].stage = "calling"
                     THEN [task[a][s] EXCEPT !.age = @ + 1] ELSE task[a][s]]]
      BY <1>4 DEF Tick
    <3>3. \A a \in Agents, s \in Slots : task[a][s] \in Tasks
      BY DEF TypeOK
    <3> HIDE DEF Tasks
    <3> QED BY <3>1, <3>2, <3>3
  <2>3. reopened' \in [Agents -> 0 .. Window] /\ debt' \in [Agents -> Nat]
    BY <1>4 DEF Tick, TypeOK
  <2> QED BY <1>4, <2>1, <2>2, <2>3 DEF Tick, TypeOK
<1>5. CASE UNCHANGED vars
  BY <1>5 DEF vars, history, TypeOK
<1> QED BY <1>1, <1>2, <1>3, <1>4, <1>5 DEF Next

LEMMA InitTypeOK == Init => TypeOK
<1>1. Init => TypeOK
  <2>1. NewWindow \in Windows
    BY WindowAssumption DEF NewWindow, Windows
  <2>2. NoTask \in Tasks
    BY WindowAssumption DEF NoTask, Tasks, Stages
  <2>3. <<>> \in Seq(Messages)
    OBVIOUS
  <2>4. /\ Window \in 0 .. Window /\ ReplyCooldown \in 0 .. ReplyCooldown
        /\ 0 \in 0 .. MaxPrompts
    BY WindowAssumption, ChatAssumption
  <2> QED BY <2>1, <2>2, <2>3, <2>4 DEF Init, TypeOK
<1> QED BY <1>1

(* The windows, the messages and the tasks keep their types                *)
(* (main.py:505-513).                                                      *)
THEOREM TypeCorrect == Spec => []TypeOK
BY InitTypeOK, NextTypeOK, PTL DEF Spec

-----------------------------------------------------------------------------

(* The account of an agent: what it has routed unasked and what it may yet *)
(* route add up to three at most and, while the window stands open, to two *)
(* at least; then the window's clock is no later than the reopening's.     *)
Account(w, n, lost, since) ==
    /\ n + w.remaining + (IF w.graceUsed THEN 0 ELSE 1) <= 3
    /\ since < Window =>
          /\ w.active = TRUE /\ w.idle <= since
          /\ n + w.remaining >= 2
          /\ lost => n >= 2

Accounted ==
    \A a \in Agents : Account(window[a], routed[a], missed[a], reopened[a])

(* Hearing a message keeps the account of the agent. *)
LEMMA HearKeepsAccount ==
    ASSUME NEW a, NEW w \in Windows, NEW n \in Nat, NEW lost \in BOOLEAN,
           NEW since \in 0 .. Window, NEW message \in Messages,
           Account(w, n, lost, since)
    PROVE  LET r == Admit(a, w, message)
               o == Reopens(a, message)
               before == IF o THEN 0 ELSE n
           IN  Account(r.window,
                       IF r.routed /\ a \notin message.mentions THEN before + 1 ELSE before,
                       (lost /\ ~o) \/ (~r.routed /\ ~message.operational),
                       IF o THEN 0 ELSE since)
<1> DEFINE r == Admit(a, w, message)
           u == r.window
           o == Reopens(a, message)
           v == IF o THEN Reopen(w) ELSE w
           before == IF o THEN 0 ELSE n
           after == IF r.routed /\ a \notin message.mentions THEN before + 1 ELSE before
           gone == (lost /\ ~o) \/ (~r.routed /\ ~message.operational)
           time == IF o THEN 0 ELSE since
<1> USE WindowAssumption
<1>0. v = Mentioned(a, w, message)
  BY DEF Mentioned
<1>1. v \in Windows /\ before \in Nat /\ time \in 0 .. Window
  <2>1. v \in Windows
    BY <1>0, AdmitEffect
  <2>2. 0 \in Nat /\ 0 \in 0 .. Window
    OBVIOUS
  <2> QED BY <2>1, <2>2
<1>2. Account(v, before, lost /\ ~o, time)
  <2>1. CASE o
    <3>1. /\ Reopen(w).active = TRUE /\ Reopen(w).idle = 0
          /\ Reopen(w).remaining = 2 /\ Reopen(w).graceUsed = FALSE
      BY WindowOperations
    <3>2. v = Reopen(w) /\ before = 0 /\ ~(lost /\ ~o) /\ time = 0
      BY <2>1
    <3> HIDE DEF v, before, time, o
    <3> QED BY <3>1, <3>2 DEF Account
  <2>2. CASE ~o
    <3>1. v = w /\ before = n /\ time = since /\ (lost /\ ~o => lost)
      BY <2>2
    <3> HIDE DEF v, before, time, o
    <3> QED BY <3>1 DEF Account
  <2> QED BY <2>1, <2>2
<1>5. Outcome(a, v, message, r)
  <2> HIDE DEF v
  <2> QED BY <1>0, AdmitEffect
<1>6. v.remaining \in 0 .. 2 /\ v.idle \in 0 .. Window /\ v.graceUsed \in BOOLEAN
  BY <1>1 DEF Windows
<1> SUFFICES Account(u, after, gone, time)
  OBVIOUS
<1> HIDE DEF r, u, v, before, time, o
<1>7. CASE a \in message.mentions
  <2>1. after = before /\ u = v
    BY <1>5, <1>7 DEF u, Outcome
  <2>2. gone => lost /\ ~o
    BY <1>5, <1>7 DEF u, Outcome
  <2> QED BY <1>2, <2>1, <2>2 DEF Account
<1>8. CASE a \notin message.mentions /\ r.routed = FALSE
  <2>1. /\ after = before /\ u.remaining = v.remaining /\ u.graceUsed = v.graceUsed
        /\ u.active = v.active /\ u.idle = v.idle
    BY <1>5, <1>8 DEF u, Outcome
  <2>2. ASSUME time < Window, gone PROVE before >= 2
    <3>1. CASE lost /\ ~o
      BY <1>2, <2>2, <3>1 DEF Account
    <3>2. CASE message.operational = FALSE
      <4>1. IsHot(v)
        BY <1>1, <1>2, <1>6, <2>2 DEF Account, IsHot
      <4>2. v.remaining = 0
        BY <1>5, <1>8, <3>2, <4>1 DEF Outcome
      <4> QED BY <1>1, <1>2, <2>2, <4>2 DEF Account
    <3>3. message.operational \in BOOLEAN
      BY DEF Messages
    <3> QED BY <2>2, <3>1, <3>2, <3>3
  <2> HIDE DEF after, gone
  <2> QED BY <1>2, <2>1, <2>2 DEF Account
<1>9. CASE a \notin message.mentions /\ r.routed = TRUE
  <2>1. after = before + 1
    BY <1>9
  <2>2. gone => lost /\ ~o
    BY <1>9
  <2>3. /\ u.active = TRUE /\ u.idle = 0
        /\ \/ u.remaining = v.remaining - 1 /\ u.graceUsed = v.graceUsed
           \/ /\ v.remaining = 0 /\ v.graceUsed = FALSE
              /\ u.remaining = 0 /\ u.graceUsed = TRUE
    BY <1>5, <1>9 DEF u, Outcome
  <2> HIDE DEF after, gone
  <2> QED BY <1>1, <1>2, <1>6, <2>1, <2>2, <2>3 DEF Account
<1> QED BY <1>5, <1>7, <1>8, <1>9 DEF Outcome

(* The replies that have passed the cooldown and are not published yet.    *)
Unsent(a) == {s \in Slots : task[a][s].stage \in {"sending", "resending"}}

(* What is published and what will be was marked a cooldown apart: besides *)
(* a cooldown for every task, only the last mark may not be paid yet.      *)
Throttled ==
    \A a \in Agents :
        debt[a] + ReplyCooldown * Cardinality(Unsent(a))
            <= ReplyCooldown * Cardinality(Slots) + ReplyCooldown - window[a].sinceReply

(* The inductive invariant: the types, the account of every agent, and the *)
(* bound on what its replies owe.                                          *)
IInv ==
    /\ TypeOK
    /\ Accounted
    /\ Throttled

(* The tasks of an agent that send are no more than its tasks.             *)
LEMMA UnsentBound ==
    ASSUME NEW a \in Agents
    PROVE  /\ IsFiniteSet(Unsent(a))
           /\ Cardinality(Unsent(a)) \in Nat /\ Cardinality(Slots) \in Nat
           /\ Cardinality(Unsent(a)) <= Cardinality(Slots)
<1>1. Unsent(a) \subseteq Slots /\ IsFiniteSet(Slots)
  BY ChatAssumption DEF Unsent
<1> QED BY <1>1, FS_Subset, FS_CardinalityType

LEMMA InitIInv == Init => IInv
<1> SUFFICES ASSUME Init PROVE IInv
  OBVIOUS
<1>1. TypeOK
  BY InitTypeOK
<1>2. Accounted
  <2>1. Account(NewWindow, 0, FALSE, Window)
    BY WindowAssumption DEF Account, NewWindow
  <2> QED BY <2>1 DEF Init, Accounted
<1>3. Throttled
  <2> SUFFICES ASSUME NEW a \in Agents
               PROVE  debt[a] + ReplyCooldown * Cardinality(Unsent(a))
                         <= ReplyCooldown * Cardinality(Slots) + ReplyCooldown
                            - window[a].sinceReply
    BY DEF Throttled
  <2>1. Unsent(a) = {} /\ debt[a] = 0 /\ window[a].sinceReply = ReplyCooldown
    BY DEF Unsent, Init, NoTask, NewWindow
  <2>2. Cardinality(Unsent(a)) = 0
    BY <2>1, FS_EmptySet
  <2>3. ReplyCooldown * Cardinality(Slots) \in Nat
    BY UnsentBound, WindowAssumption
  <2> QED BY <2>1, <2>2, <2>3, WindowAssumption
<1> QED BY <1>1, <1>2, <1>3 DEF IInv

(* A step that changes only the cooldown of a window keeps the account.    *)
LEMMA AccountFrame ==
    ASSUME NEW w \in Windows, NEW u \in Windows, NEW n \in Nat, NEW lost,
           NEW since \in 0 .. Window, Account(w, n, lost, since),
           u.remaining = w.remaining, u.graceUsed = w.graceUsed,
           u.active = w.active, u.idle = w.idle
    PROVE  Account(u, n, lost, since)
BY DEF Account, Windows

(* Every step keeps the account of every agent. *)
LEMMA NextAccounted == IInv /\ [Next]_vars => Accounted'
<1> SUFFICES ASSUME IInv, [Next]_vars, NEW b \in Agents
             PROVE  Account(window'[b], routed'[b], missed'[b], reopened'[b])
  BY DEF Accounted
<1> USE WindowAssumption
<1>0. /\ TypeOK /\ window[b] \in Windows /\ routed[b] \in Nat
      /\ missed[b] \in BOOLEAN /\ reopened[b] \in 0 .. Window
      /\ Account(window[b], routed[b], missed[b], reopened[b])
  BY DEF IInv, TypeOK, Accounted
<1>1. ASSUME UNCHANGED <<window, routed, missed, reopened>>
      PROVE  Account(window'[b], routed'[b], missed'[b], reopened'[b])
  BY <1>0, <1>1
<1>2. ASSUME NEW mentions \in SUBSET Agents, NEW operational \in BOOLEAN,
             Prompt(mentions, operational)
      PROVE  Account(window'[b], routed'[b], missed'[b], reopened'[b])
  BY <1>1, <1>2 DEF Prompt, history
<1>3. ASSUME NEW a \in Agents, Hear(a)
      PROVE  Account(window'[b], routed'[b], missed'[b], reopened'[b])
  <2> DEFINE m == Head(inbox[b])
             r == Admit(b, window[b], m)
             o == Reopens(b, m)
             before == IF o THEN 0 ELSE routed[b]
             after == IF r.routed /\ b \notin m.mentions THEN before + 1 ELSE before
             gone == (missed[b] /\ ~o) \/ (~r.routed /\ ~m.operational)
             time == IF o THEN 0 ELSE reopened[b]
  <2>1. CASE a = b
    <3>1. m \in Messages
      BY <1>0, <1>3, <2>1, HearFrame
    <3>2. /\ window'[b] = r.window /\ routed'[b] = after
          /\ missed'[b] = gone /\ reopened'[b] = time
      BY <1>0, <1>3, <2>1 DEF Hear, TypeOK
    <3>3. Account(r.window, after, gone, time)
      <4> HIDE DEF m
      <4> QED BY <1>0, <3>1, HearKeepsAccount
    <3> HIDE DEF r, after, gone, time
    <3> QED BY <3>2, <3>3
  <2>2. CASE a # b
    <3>1. /\ window'[b] = window[b] /\ routed'[b] = routed[b]
          /\ missed'[b] = missed[b] /\ reopened'[b] = reopened[b]
      BY <1>0, <1>3, <2>2 DEF Hear, TypeOK
    <3> QED BY <1>0, <3>1
  <2> QED BY <2>1, <2>2
<1>4. ASSUME NEW a \in Agents, NEW s \in Slots, TaskStep(a, s)
      PROVE  Account(window'[b], routed'[b], missed'[b], reopened'[b])
  <2>1. CASE CallFails(a, s) \/ ReplyTooSoon(a, s) \/ SendFails(a, s) \/ SendRefused(a, s)
    BY <1>1, <2>1 DEF CallFails, ReplyTooSoon, SendFails, SendRefused, history
  <2>2. CASE ReplyPasses(a, s)
    <3> DEFINE u == [window[b] EXCEPT !.sinceReply = 0]
    <3>1. /\ window'[b] = window[b] \/ window'[b] = u
          /\ UNCHANGED <<routed, missed, reopened>>
      BY <2>2, <1>0 DEF ReplyPasses, TypeOK, history
    <3>2. 0 \in 0 .. ReplyCooldown
      OBVIOUS
    <3>3. /\ u \in Windows /\ u.remaining = window[b].remaining
          /\ u.graceUsed = window[b].graceUsed
          /\ u.active = window[b].active /\ u.idle = window[b].idle
      BY <1>0, <3>2 DEF Windows
    <3> HIDE DEF u
    <3>4. Account(u, routed[b], missed[b], reopened[b])
      BY <1>0, <3>3, AccountFrame
    <3> QED BY <1>0, <3>1, <3>4
  <2>3. CASE Send(a, s)
    <3> DEFINE u == Touch(window[b])
    <3>1. /\ window'[b] = window[b] \/ window'[b] = u
          /\ UNCHANGED <<routed, missed, reopened>>
      BY <2>3, <1>0 DEF Send, TypeOK, history
    <3>2. /\ u \in Windows /\ u.active = TRUE /\ u.idle = 0
          /\ u.remaining = window[b].remaining
          /\ u.graceUsed = window[b].graceUsed
      BY <1>0, WindowOperations
    <3> HIDE DEF u
    <3>3. Account(u, routed[b], missed[b], reopened[b])
      BY <1>0, <3>2 DEF Account, Windows
    <3> QED BY <1>0, <3>1, <3>3
  <2> QED BY <1>4, <2>1, <2>2, <2>3 DEF TaskStep
<1>5. CASE Tick
  <2>1. /\ window'[b] = LaterWindow(window[b]) /\ UNCHANGED <<routed, missed>>
        /\ reopened'[b] = IF reopened[b] < Window THEN reopened[b] + 1 ELSE Window
    BY <1>5 DEF Tick
  <2>2. LET u == LaterWindow(window[b]) IN
           /\ u \in Windows /\ u.active = window[b].active
           /\ u.remaining = window[b].remaining /\ u.graceUsed = window[b].graceUsed
           /\ u.idle <= window[b].idle + 1
    BY <1>0, WindowOperations
  <2>3. /\ window'[b].idle \in Nat /\ window[b].idle \in Nat
        /\ window[b].remaining \in 0 .. 2
    BY <1>0, <2>1, <2>2 DEF Windows
  <2>4. Account(window'[b], routed[b], missed[b], reopened'[b])
    BY <1>0, <2>1, <2>2, <2>3 DEF Account
  <2> QED BY <2>1, <2>4
<1>6. CASE UNCHANGED vars
  BY <1>1, <1>6 DEF vars, history
<1> QED BY <1>2, <1>3, <1>4, <1>5, <1>6 DEF Next

(* What a change of one task does to those that send. *)
LEMMA UnsentAfter ==
    ASSUME TypeOK, NEW a \in Agents, NEW s \in Slots, NEW t, SetTask(a, s, t)
    PROVE  /\ Unsent(a)' = IF t.stage \in {"sending", "resending"}
                           THEN Unsent(a) \cup {s} ELSE Unsent(a) \ {s}
           /\ \A b \in Agents \ {a} : Unsent(b)' = Unsent(b)
<1>1. task'[a][s] = t /\ \A r \in Slots \ {s} : task'[a][r] = task[a][r]
  BY DEF SetTask, TypeOK
<1>2. \A b \in Agents \ {a} : task'[b] = task[b]
  BY DEF SetTask, TypeOK
<1> QED BY <1>1, <1>2 DEF Unsent

(* Products with the cooldown, in the form in which the steps need them. *)
LEMMA CooldownTimes ==
    ASSUME NEW c \in Nat, NEW m \in Nat, NEW n \in Nat
    PROVE  /\ c * n \in Nat /\ c * (n + 1) = c * n + c
           /\ m <= n => c * m <= c * n
<1>1. c * n \in Nat /\ c * (n + 1) = c * n + c
  OBVIOUS
<1>2. ASSUME m <= n PROVE c * m <= c * n
  <2>1. n - m \in Nat /\ n = m + (n - m)
    BY <1>2
  <2>2. c * n = c * m + c * (n - m)
    BY <2>1
  <2>3. c * (n - m) \in Nat /\ c * m \in Nat
    BY <2>1
  <2> QED BY <2>2, <2>3
<1> QED BY <1>1, <1>2

(* Every step keeps the bound on what the replies of an agent owe. *)
LEMMA NextThrottled == IInv /\ [Next]_vars => Throttled'
<1> DEFINE C == ReplyCooldown
           K == Cardinality(Slots)
           N(b) == Cardinality(Unsent(b))
<1> SUFFICES ASSUME IInv, [Next]_vars, NEW b \in Agents
             PROVE  debt'[b] + C * N(b)' <= C * K + C - window'[b].sinceReply
  BY DEF Throttled
<1>0. /\ TypeOK /\ window[b] \in Windows /\ debt[b] \in Nat
      /\ debt[b] + C * N(b) <= C * K + C - window[b].sinceReply
      /\ C \in Nat /\ K \in Nat /\ N(b) \in Nat /\ N(b) <= K
      /\ IsFiniteSet(Unsent(b))
      /\ window[b].sinceReply \in 0 .. C
  BY UnsentBound, WindowAssumption DEF IInv, TypeOK, Throttled, Windows
<1>p. /\ C * N(b) \in Nat /\ C * K \in Nat /\ C * N(b) <= C * K
      /\ C * (N(b) + 1) = C * N(b) + C
  <2> HIDE DEF C, K, N
  <2> QED BY <1>0, CooldownTimes
<1>s. ASSUME debt'[b] = debt[b], Unsent(b)' = Unsent(b),
             window'[b].sinceReply = window[b].sinceReply
      PROVE  debt'[b] + C * N(b)' <= C * K + C - window'[b].sinceReply
  BY <1>0, <1>s
<1>r. ASSUME NEW s \in Slots, s \in Unsent(b), Unsent(b)' = Unsent(b) \ {s}
      PROVE  C * N(b)' = C * N(b) - C
  <2>1. N(b)' = N(b) - 1
    BY <1>0, <1>r, FS_RemoveElement
  <2>2. N(b) - 1 \in Nat
    <3>1. Unsent(b) # {}
      BY <1>r
    <3>2. N(b) # 0
      BY <1>0, <3>1, FS_EmptySet
    <3> HIDE DEF N
    <3> QED BY <1>0, <3>2
  <2> HIDE DEF C, N
  <2>3. C * ((N(b) - 1) + 1) = C * (N(b) - 1) + C /\ C * (N(b) - 1) \in Nat
    BY <1>0, <2>2, CooldownTimes
  <2>4. (N(b) - 1) + 1 = N(b)
    BY <1>0
  <2>5. C * N(b) = C * (N(b) - 1) + C
    BY <2>3, <2>4
  <2> QED BY <1>0, <2>1, <2>3, <2>5
<1>1. ASSUME NEW a \in Agents, Hear(a)
      PROVE  debt'[b] + C * N(b)' <= C * K + C - window'[b].sinceReply
  <2>1. debt' = debt
    BY <1>1 DEF Hear
  <2>2. Unsent(b)' = Unsent(b)
    <3>1. CASE UNCHANGED task
      BY <3>1 DEF Unsent
    <3>2. ASSUME NEW s \in Slots, NEW to, task[a][s].stage = "none",
                 SetTask(a, s, [NoTask EXCEPT !.stage = "calling", !.to = to])
          PROVE  Unsent(b)' = Unsent(b)
      <4> DEFINE t == [NoTask EXCEPT !.stage = "calling", !.to = to]
      <4>1. t.stage = "calling"
        BY DEF NoTask
      <4>2. s \notin Unsent(a)
        BY <3>2 DEF Unsent
      <4>3. SetTask(a, s, t)
        BY <3>2
      <4> HIDE DEF t
      <4>4. /\ Unsent(a)' = Unsent(a) \ {s}
            /\ \A c \in Agents \ {a} : Unsent(c)' = Unsent(c)
        BY <1>0, <4>1, <4>3, UnsentAfter
      <4> QED BY <4>2, <4>4
    <3> QED BY <1>1, <3>1, <3>2 DEF Hear
  <2>3. window'[b].sinceReply = window[b].sinceReply
    <3>1. CASE a = b
      <4> DEFINE m == Head(inbox[b])
                 v == Mentioned(b, window[b], m)
      <4>0. window'[b] = Admit(b, window[b], m).window
        BY <1>0, <1>1, <3>1 DEF Hear, TypeOK
      <4>1. m \in Messages
        BY <1>0, <1>1, <3>1, HearFrame
      <4> HIDE DEF m
      <4>2. v.sinceReply = window[b].sinceReply /\ Outcome(b, v, m, Admit(b, window[b], m))
        BY <1>0, <4>1, AdmitEffect
      <4> HIDE DEF v
      <4> QED BY <4>0, <4>2 DEF Outcome
    <3>2. CASE a # b
      BY <1>0, <1>1, <3>2 DEF Hear, TypeOK
    <3> QED BY <3>1, <3>2
  <2> QED BY <1>s, <2>1, <2>2, <2>3
<1>2. ASSUME NEW a \in Agents, NEW s \in Slots, TaskStep(a, s)
      PROVE  debt'[b] + C * N(b)' <= C * K + C - window'[b].sinceReply
  <2>0. task[a][s] \in Tasks /\ NoTask.stage = "none"
    BY <1>0 DEF TypeOK, NoTask
  <2>1. CASE CallFails(a, s) \/ ReplyTooSoon(a, s) \/ SendRefused(a, s)
    <3>1. Unsent(b)' = Unsent(b)
      <4>1. CASE CallFails(a, s) \/ ReplyTooSoon(a, s)
        BY <1>0, <2>0, <4>1, UnsentAfter DEF CallFails, ReplyTooSoon, Unsent
      <4>2. CASE SendRefused(a, s)
        <5> DEFINE t == [task[a][s] EXCEPT !.stage = "resending"]
        <5>1. t.stage = "resending"
          BY <2>0 DEF Tasks
        <5>2. SetTask(a, s, t) /\ s \in Unsent(a)
          BY <4>2 DEF SendRefused, Unsent
        <5> HIDE DEF t
        <5>3. /\ Unsent(a)' = Unsent(a) \cup {s}
              /\ \A c \in Agents \ {a} : Unsent(c)' = Unsent(c)
          BY <1>0, <5>1, <5>2, UnsentAfter
        <5> QED BY <5>2, <5>3
      <4> QED BY <2>1, <4>1, <4>2
    <3>2. UNCHANGED <<debt, window>>
      BY <2>1 DEF CallFails, ReplyTooSoon, SendRefused, history
    <3> QED BY <1>s, <3>1, <3>2
  <2>2. CASE SendFails(a, s)
    <3>1. UNCHANGED <<debt, window>> /\ s \in Unsent(a)
      BY <2>2 DEF SendFails, history, Unsent
    <3>2. SetTask(a, s, NoTask)
      BY <2>2 DEF SendFails
    <3>3. Unsent(b)' = IF b = a THEN Unsent(b) \ {s} ELSE Unsent(b)
      BY <1>0, <2>0, <3>2, UnsentAfter
    <3>4. CASE b = a
      <4>1. C * N(b)' = C * N(b) - C
        BY <1>r, <3>1, <3>3, <3>4
      <4> HIDE DEF C, N, K
      <4> QED BY <1>0, <1>p, <3>1, <4>1
    <3>5. CASE b # a
      BY <1>s, <3>1, <3>3, <3>5
    <3> QED BY <3>4, <3>5
  <2>3. CASE ReplyPasses(a, s)
    <3> DEFINE t == [task[a][s] EXCEPT
                         !.stage = "sending",
                         !.mentions = IF window[a].active /\ window[a].idle < Window
                                      THEN {} ELSE {task[a][s].to} \cap Agents]
    <3>1. t.stage = "sending"
      BY <2>0 DEF Tasks
    <3>2. Unsent(b)' = IF b = a THEN Unsent(b) \cup {s} ELSE Unsent(b)
      <4>1. SetTask(a, s, t)
        BY <2>3 DEF ReplyPasses
      <4> HIDE DEF t
      <4> QED BY <1>0, <3>1, <4>1, UnsentAfter
    <3>3. debt' = debt
      BY <2>3 DEF ReplyPasses, history
    <3>4. CASE b = a
      <4>1. window'[b].sinceReply = 0
        <5>1. window' = [window EXCEPT ![a] = [window[a] EXCEPT !.sinceReply = 0]]
          BY <2>3 DEF ReplyPasses
        <5> QED BY <1>0, <3>4, <5>1 DEF TypeOK, Windows
      <4>2. window[b].sinceReply = C
        <5>1. window[b].sinceReply >= C
          BY <2>3, <3>4 DEF ReplyPasses
        <5>2. window[b].sinceReply \in 0 .. C /\ C \in Nat
          BY <1>0
        <5> HIDE DEF C
        <5> QED BY <5>1, <5>2
      <4>3. s \notin Unsent(b)
        BY <2>3, <3>4 DEF ReplyPasses, Unsent
      <4>4. N(b)' = N(b) + 1
        BY <1>0, <3>2, <3>4, <4>3, FS_AddElement
      <4> HIDE DEF C, N, K
      <4> QED BY <1>0, <1>p, <3>3, <4>1, <4>2, <4>4
    <3>5. CASE b # a
      <4>1. window'[b] = window[b]
        BY <1>0, <2>3, <3>5 DEF ReplyPasses, TypeOK
      <4> QED BY <1>s, <3>2, <3>3, <3>5, <4>1
    <3> QED BY <3>4, <3>5
  <2>4. CASE Send(a, s)
    <3>1. debt' = [debt EXCEPT ![a] = @ + ReplyCooldown] /\ s \in Unsent(a)
      BY <2>4 DEF Send, Unsent
    <3>2. window'[b].sinceReply = window[b].sinceReply
      <4>1. window'[b] = window[b] \/ window'[b] = Touch(window[b])
        BY <2>4, <1>0 DEF Send, TypeOK
      <4>2. Touch(window[b]).sinceReply = window[b].sinceReply
        BY <1>0, WindowOperations
      <4> QED BY <4>1, <4>2
    <3>3. Unsent(b)' = IF b = a THEN Unsent(b) \ {s} ELSE Unsent(b)
      <4>1. SetTask(a, s, NoTask)
        BY <2>4 DEF Send
      <4> QED BY <1>0, <2>0, <4>1, UnsentAfter
    <3>4. CASE b = a
      <4>1. C * N(b)' = C * N(b) - C
        BY <1>r, <3>1, <3>3, <3>4
      <4>2. debt'[b] = debt[b] + C
        BY <1>0, <3>1, <3>4 DEF TypeOK
      <4> HIDE DEF C, N, K
      <4> QED BY <1>0, <1>p, <3>2, <4>1, <4>2
    <3>5. CASE b # a
      <4>1. debt'[b] = debt[b]
        BY <1>0, <3>1, <3>5 DEF TypeOK
      <4> QED BY <1>s, <3>2, <3>3, <3>5, <4>1
    <3> QED BY <3>4, <3>5
  <2> QED BY <1>2, <2>1, <2>2, <2>3, <2>4 DEF TaskStep
<1>3. CASE Tick
  <2>1. window'[b].sinceReply =
           IF window[b].sinceReply < C THEN window[b].sinceReply + 1 ELSE C
    <3>1. window'[b] = LaterWindow(window[b])
      BY <1>3 DEF Tick
    <3>2. LaterWindow(window[b]).sinceReply =
             IF window[b].sinceReply < C THEN window[b].sinceReply + 1 ELSE C
      BY <1>0, WindowOperations
    <3> QED BY <3>1, <3>2
  <2>2. debt'[b] = IF debt[b] > 0 THEN debt[b] - 1 ELSE 0
    BY <1>3 DEF Tick
  <2>3. Unsent(b)' = Unsent(b)
    <3>1. ASSUME NEW s \in Slots PROVE task'[b][s].stage = task[b][s].stage
      <4>1. task[b][s] \in Tasks
        BY <1>0 DEF TypeOK
      <4>2. task'[b][s] = [task[b][s] EXCEPT !.age = @ + 1] \/ task'[b][s] = task[b][s]
        BY <1>3 DEF Tick
      <4> QED BY <4>1, <4>2 DEF Tasks
    <3> QED BY <3>1 DEF Unsent
  <2>4. N(b)' = N(b)
    BY <2>3
  <2> HIDE DEF C, N, K
  <2> QED BY <1>0, <1>p, <2>1, <2>2, <2>4
<1>4. ASSUME NEW mentions \in SUBSET Agents, NEW operational \in BOOLEAN,
             Prompt(mentions, operational)
      PROVE  debt'[b] + C * N(b)' <= C * K + C - window'[b].sinceReply
  BY <1>s, <1>4 DEF Prompt, history, Unsent
<1>5. CASE UNCHANGED vars
  BY <1>s, <1>5 DEF vars, history, Unsent
<1> QED BY <1>1, <1>2, <1>3, <1>4, <1>5 DEF Next

LEMMA NextIInv == IInv /\ [Next]_vars => IInv'
<1> SUFFICES ASSUME IInv, [Next]_vars PROVE IInv'
  OBVIOUS
<1>1. TypeOK'
  BY NextTypeOK DEF IInv
<1>2. Accounted'
  BY NextAccounted
<1>3. Throttled'
  BY NextThrottled
<1> QED BY <1>1, <1>2, <1>3 DEF IInv

LEMMA Inductive == Spec => []IInv
BY InitIInv, NextIInv, PTL DEF Spec

-----------------------------------------------------------------------------

(* main.py:510 and 1425-1428: for any number of agents and messages, an    *)
(* agent takes part in the chat at most three times between two mentions.  *)
THEOREM BudgetBounded == Spec => []BudgetKept
<1>1. IInv => BudgetKept
  <2> SUFFICES ASSUME IInv, NEW a \in Agents PROVE routed[a] <= 3
    BY DEF BudgetKept
  <2>1. window[a].remaining \in 0 .. 2 /\ routed[a] \in Nat
    BY DEF IInv, TypeOK, Windows
  <2>2. routed[a] + window[a].remaining + (IF window[a].graceUsed THEN 0 ELSE 1) <= 3
    BY DEF IInv, Accounted, Account
  <2> QED BY <2>1, <2>2
<1> QED BY <1>1, Inductive, PTL

(* main.py:1416-1425: while the window opened by a mention lasts, a        *)
(* message of substance is refused only after two have been routed.        *)
THEOREM MentionIsHeard == Spec => []HeardAfterMention
<1>1. IInv => HeardAfterMention
  BY DEF IInv, TypeOK, Accounted, Account, HeardAfterMention
<1> QED BY <1>1, Inductive, PTL

(* main.py:1486-1508: however many tasks an agent runs side by side and    *)
(* however late their replies are published, over any stretch of time it   *)
(* publishes no more than the cooldowns that pass allow, one more, and one *)
(* for each task.                                                          *)
THEOREM RepliesBounded == Spec => []RepliesThrottled
<1>1. IInv => RepliesThrottled
  <2> DEFINE C == ReplyCooldown
             K == Cardinality(Slots)
  <2> SUFFICES ASSUME IInv, NEW a \in Agents PROVE debt[a] <= C * (K + 1)
    BY DEF RepliesThrottled
  <2>1. /\ debt[a] + C * Cardinality(Unsent(a)) <= C * K + C - window[a].sinceReply
        /\ window[a].sinceReply \in 0 .. C /\ debt[a] \in Nat
    BY DEF IInv, Throttled, TypeOK, Windows
  <2>2. Cardinality(Unsent(a)) \in Nat /\ K \in Nat /\ C \in Nat
    BY UnsentBound, WindowAssumption
  <2> HIDE DEF C, K
  <2>3. C * Cardinality(Unsent(a)) \in Nat /\ C * K \in Nat /\ C * (K + 1) = C * K + C
    BY <2>2, CooldownTimes
  <2> QED BY <2>1, <2>2, <2>3
<1> QED BY <1>1, Inductive, PTL

-----------------------------------------------------------------------------
(* What ages is dropped and never added. *)
LEMMA OlderShorter ==
    ASSUME NEW ages \in Seq(Nat)
    PROVE  Older(ages) \in Seq(Nat) /\ Len(Older(ages)) <= Len(ages)
<1> DEFINE young == {i \in DOMAIN ages : ages[i] + 1 < DedupWindow}
           kept == Cardinality(young)
<1>1. kept \in Nat /\ kept <= Len(ages)
  <2>1. Len(ages) \in Nat /\ young \subseteq 1 .. Len(ages)
    OBVIOUS
  <2>2. IsFiniteSet(1 .. Len(ages)) /\ Cardinality(1 .. Len(ages)) = Len(ages)
    <3>1. 1 \in Int /\ Len(ages) \in Int
      OBVIOUS
    <3>2. /\ IsFiniteSet(1 .. Len(ages))
          /\ Cardinality(1 .. Len(ages)) = IF 1 > Len(ages) THEN 0 ELSE Len(ages) - 1 + 1
      BY <3>1, FS_Interval, Zenon
    <3> QED BY <2>1, <3>2
  <2>3. IsFiniteSet(young) /\ kept <= Cardinality(1 .. Len(ages))
    BY <2>1, <2>2, FS_Subset
  <2>4. kept \in Nat
    BY <2>3, FS_CardinalityType
  <2> QED BY <2>2, <2>3, <2>4
<1>2. Older(ages) = [i \in 1 .. kept |-> ages[Len(ages) - kept + i] + 1]
  BY DEF Older
<1> HIDE DEF kept
<1>3. \A i \in 1 .. kept : ages[Len(ages) - kept + i] + 1 \in Nat
  BY <1>1
<1> QED BY <1>1, <1>2, <1>3

(* What is let through in the silence is what DedupGuard has counted. *)
LoudIsCounted ==
    /\ hits \in [Others -> Seq(Nat)] /\ loud = hits
    /\ \A a \in Others : Len(hits[a]) <= MaxHot

(* Whatever DedupGuard is asked between, no sender gets more than its      *)
(* budget of hot messages through in one window of the silence.            *)
THEOREM SilenceIsKept == FeedSpec => []HotBudget
<1>1. FeedInit => LoudIsCounted
  BY HotFeedAssumption DEF FeedInit, LoudIsCounted
<1>2. LoudIsCounted /\ [FeedNext]_feed => LoudIsCounted'
  <2> SUFFICES ASSUME LoudIsCounted, [FeedNext]_feed PROVE LoudIsCounted'
    OBVIOUS
  <2>1. CASE UNCHANGED <<hits, loud>>
    BY <2>1 DEF LoudIsCounted
  <2>2. ASSUME NEW n \in batch, Report(n) PROVE LoudIsCounted'
    <3> DEFINE m == stream[n]
               counts == silence /\ Penetrate /\ Classify(m, inForce) = "hot"
    <3>1. /\ IF counts THEN Hit(m.from, Stage(m)) ELSE UNCHANGED hits
          /\ loud' = IF silence /\ Stage(m) = "hot"
                     THEN [loud EXCEPT ![m.from] = Append(@, 0)] ELSE loud
      BY <2>2, Zenon DEF Report
    <3>2. silence /\ Stage(m) = "hot" => counts /\ Guarded(m.from) = "hot"
      BY DEF Stage
    <3> HIDE DEF m
    <3>3. CASE silence /\ Stage(m) = "hot"
      <4>1. /\ hits' = [hits EXCEPT ![m.from] = Append(@, 0)]
            /\ loud' = [loud EXCEPT ![m.from] = Append(@, 0)]
        BY <3>1, <3>2, <3>3 DEF Hit
      <4>2. ~(Len(hits[m.from]) >= MaxHot)
        BY <3>2, <3>3 DEF Guarded
      <4>3. \A a \in Others : hits[a] \in Seq(Nat) /\ Len(hits[a]) <= MaxHot
        BY DEF LoudIsCounted
      <4>4. hits' = [a \in Others |-> IF a = m.from THEN Append(hits[a], 0) ELSE hits[a]]
        BY <4>1 DEF LoudIsCounted
      <4>5. \A a \in Others : hits'[a] \in Seq(Nat) /\ Len(hits'[a]) <= MaxHot
        <5> SUFFICES ASSUME NEW a \in Others
                     PROVE  hits'[a] \in Seq(Nat) /\ Len(hits'[a]) <= MaxHot
          OBVIOUS
        <5>1. CASE a # m.from
          BY <4>3, <4>4, <5>1
        <5>2. CASE a = m.from
          <6>1. hits'[a] = Append(hits[a], 0) /\ hits[a] \in Seq(Nat)
            BY <4>3, <4>4, <5>2
          <6>2. Len(hits[a]) \in Nat /\ ~(Len(hits[a]) >= MaxHot)
            BY <4>2, <5>2, <6>1
          <6> QED BY HotFeedAssumption, <6>1, <6>2
        <5> QED BY <5>1, <5>2
      <4>6. hits' \in [Others -> Seq(Nat)]
        BY <4>4, <4>5
      <4> QED BY <4>1, <4>5, <4>6 DEF LoudIsCounted
    <3>4. CASE ~(silence /\ Stage(m) = "hot")
      <4>1. UNCHANGED <<hits, loud>>
        BY <3>1, <3>4 DEF Hit
      <4> QED BY <2>1, <4>1
    <3> QED BY <3>3, <3>4
  <2>3. CASE FeedTick
    <3>1. /\ hits' = [a \in Others |-> Older(hits[a])]
          /\ loud' = [a \in Others |-> Older(loud[a])]
      BY <2>3 DEF FeedTick
    <3>2. loud' = hits'
      BY <3>1 DEF LoudIsCounted
    <3>3. \A a \in Others : /\ Older(hits[a]) \in Seq(Nat)
                            /\ Len(Older(hits[a])) <= Len(hits[a])
      BY OlderShorter DEF LoudIsCounted
    <3>4. \A a \in Others : Len(hits[a]) \in Nat
      BY DEF LoudIsCounted
    <3>5. \A a \in Others : Len(hits'[a]) \in Nat
      BY <3>1, <3>3
    <3>6. \A a \in Others : Len(hits'[a]) <= MaxHot
      <4>1. \A a \in Others : Len(hits[a]) <= MaxHot
        BY DEF LoudIsCounted
      <4> QED BY HotFeedAssumption, <3>1, <3>3, <3>4, <3>5, <4>1
    <3>7. hits' \in [Others -> Seq(Nat)]
      BY <3>1, <3>3
    <3> QED BY <3>2, <3>6, <3>7 DEF LoudIsCounted
  <2>4. CASE Restart
    BY HotFeedAssumption, <2>4 DEF Restart, LoudIsCounted
  <2>5. ASSUME NEW m \in FeedMessages, PublishToFeed(m) PROVE UNCHANGED <<hits, loud>>
    BY <2>5 DEF PublishToFeed, memory, feedHistory
  <2>6. ASSUME NEW p \in Policies, UpdatePolicy(p) PROVE UNCHANGED <<hits, loud>>
    BY <2>6 DEF UpdatePolicy, feedHistory
  <2>7. ASSUME NEW n \in batch, Skip(n) PROVE UNCHANGED <<hits, loud>>
    BY <2>7 DEF Skip, memory, feedHistory
  <2>8. ASSUME NEW n \in 1 .. MaxMessages, MarkRead(n) PROVE UNCHANGED <<hits, loud>>
    BY <2>8 DEF MarkRead
  <2>9. ASSUME FetchDm \/ FetchGrp \/ GetRecent \/ EndCheck
                  \/ LookAtRecent \/ UNCHANGED feed
        PROVE  UNCHANGED <<hits, loud>>
    BY <2>9 DEF FetchDm, FetchGrp, GetRecent, EndCheck,
                LookAtRecent, feed, memory, feedHistory
  <2> QED BY <2>1, <2>2, <2>3, <2>4, <2>5, <2>6, <2>7, <2>8, <2>9 DEF FeedNext
<1>3. LoudIsCounted => HotBudget
  BY DEF LoudIsCounted, HotBudget
<1> QED BY <1>1, <1>2, <1>3, PTL DEF FeedSpec

-----------------------------------------------------------------------------
(* The largest of finitely many numbers, and the first of a set. *)
LEMMA FarthestExists ==
    ASSUME NEW N \in Nat, NEW S \in SUBSET (0 .. N), S # {}
    PROVE  Max(S) \in S /\ \A x \in S : x <= Max(S)
<1> DEFINE gaps == {N - x : x \in S}
<1>1. gaps \subseteq Nat /\ gaps # {}
  <2>1. \A x \in S : N - x \in Nat
    OBVIOUS
  <2>2. PICK x : x \in S
    OBVIOUS
  <2>3. N - x \in gaps
    BY <2>2
  <2> QED BY <2>1, <2>3
<1>2. \E g \in gaps : \A h \in gaps : ~(<<h, g>> \in OpToRel(<, Nat))
  BY <1>1, WFMin, NatLessThanWellFounded, Zenon
<1>3. \A g, h \in Nat : ~(<<h, g>> \in OpToRel(<, Nat)) => g <= h
  BY DEF OpToRel
<1>4. PICK g \in gaps : \A h \in gaps : g <= h
  BY <1>1, <1>2, <1>3
<1>5. PICK x \in S : g = N - x
  BY <1>4
<1>6. \A y \in S : x >= y
  <2> SUFFICES ASSUME NEW y \in S PROVE x >= y
    OBVIOUS
  <2>1. g <= N - y
    BY <1>4
  <2> QED BY <1>5, <2>1
<1>7. Max(S) = CHOOSE z \in S : \A y \in S : z >= y
  BY DEF Max
<1>8. Max(S) \in S /\ \A y \in S : Max(S) >= y
  BY <1>5, <1>6, <1>7
<1> QED BY <1>8

LEMMA SmallerOf == \A a, b \in Int : Min({a, b}) \in Int
<1> SUFFICES ASSUME NEW a \in Int, NEW b \in Int PROVE Min({a, b}) \in Int
  OBVIOUS
<1>1. \E x \in {a, b} : \A y \in {a, b} : x =< y
  <2>1. CASE a <= b
    BY <2>1
  <2>2. CASE ~(a <= b)
    BY <2>2
  <2> QED BY <2>1, <2>2
<1>2. Min({a, b}) = CHOOSE x \in {a, b} : \A y \in {a, b} : x =< y
  BY DEF Min
<1>3. Min({a, b}) \in {a, b}
  BY <1>1, <1>2
<1> QED BY <1>3

(* The first of a set leave no gap. *)
LEMMA FirstWhole ==
    ASSUME NEW N \in Nat, NEW S \in SUBSET (1 .. N), NEW k \in Int,
           NEW n \in FirstOf(S, k), NEW i \in S, i <= n
    PROVE  i \in FirstOf(S, k)
<1> DEFINE before(x) == {j \in S : j < x}
<1>1. IsFiniteSet(S)
  <2>1. IsFiniteSet(1 .. N)
    BY FS_Interval, 1 \in Int, N \in Int, Zenon
  <2> QED BY <2>1, FS_Subset
<1>2. IsFiniteSet(before(n)) /\ IsFiniteSet(before(i))
  <2>1. before(n) \in SUBSET S /\ before(i) \in SUBSET S
    OBVIOUS
  <2> QED BY <1>1, <2>1, FS_Subset
<1>3. before(i) \subseteq before(n)
  <2>1. n \in S /\ \A j \in S : j \in Int
    BY DEF FirstOf
  <2>2. \A j \in S : j < i => j < n
    BY <2>1
  <2> QED BY <2>2
<1>4. Cardinality(before(i)) <= Cardinality(before(n))
  BY <1>2, <1>3, FS_Subset
<1>5. Cardinality(before(i)) \in Nat /\ Cardinality(before(n)) \in Nat
  BY <1>2, FS_CardinalityType
<1>6. Cardinality(before(n)) < k
  BY DEF FirstOf
<1>7. Cardinality(before(i)) < k
  BY <1>4, <1>5, <1>6
<1> QED BY <1>7 DEF FirstOf

-----------------------------------------------------------------------------
(* What the stream, the server and the cursor have to do with each other.  *)
FeedTyped ==
    /\ stream \in Seq(FeedMessages) /\ furthest \in Nat /\ furthest <= Len(stream)
    /\ cursor \in Nat /\ cursor <= furthest /\ cursorFile \in Nat /\ cursorFile <= cursor
    /\ next \in Nat /\ next <= Len(stream) /\ unacked \subseteq Of("dm")
    /\ \A n \in Of("dm") : n \in unacked <=> n <= next
    /\ batch \subseteq DOMAIN stream /\ known \subseteq reported
    /\ phase = "recent" => batch = {}

Behind(n) == \E i \in n + 1 .. furthest : stream[i].kind # stream[n].kind

Seen(n) ==
    \/ stream[n].from = Me
    \/ n \in reported \union strayed \union batch
    \/ Behind(n)

(* What the cursor or the durable consumer has passed is accounted for.    *)
NothingSkipped ==
    /\ \A n \in unacked : Seen(n)
    /\ \A n \in DOMAIN stream : n <= cursor => Seen(n) \/ n \in Oldest("grp", Recent)

(* What the proofs need of the constants.                                 *)
LEMMA FeedNumbers ==
    /\ Batch \in Nat /\ Recent \in Nat /\ MaxAckPending \in Nat
    /\ \A m \in FeedMessages : m.kind \in {"dm", "grp"}
BY HotFeedAssumption DEF FeedMessage, Kinds

LEMMA SeenStays ==
    ASSUME FeedTyped, NEW n \in DOMAIN stream, Seen(n),
           \A i \in DOMAIN stream : stream'[i] = stream[i],
           furthest' \in Nat, furthest <= furthest',
           reported \union strayed \union batch
               \subseteq reported' \union strayed' \union batch'
    PROVE  Seen(n)'
<1>1. CASE Behind(n)
  <2>1. PICK i \in n + 1 .. furthest : stream[i].kind # stream[n].kind
    BY <1>1 DEF Behind
  <2>2. i \in DOMAIN stream /\ n \in Nat /\ furthest \in Nat
    BY <2>1 DEF FeedTyped
  <2>3. i \in n + 1 .. furthest' /\ stream'[i].kind # stream'[n].kind
    BY <2>1, <2>2
  <2>4. Behind(n)'
    BY <2>3 DEF Behind
  <2> QED BY <2>4 DEF Seen
<1>2. CASE ~Behind(n)
  BY <1>2 DEF Seen
<1> QED BY <1>1, <1>2

(* The cursor moves to the last of messages of one kind, of which none is  *)
(* left out unseen: what else it passes over lies before that message.     *)
LEMMA CursorMoves ==
    ASSUME FeedTyped, NothingSkipped, NEW type,
           NEW S \in SUBSET Of(type), MoveCursor(S),
           UNCHANGED <<stream, reported, strayed>>, batch \subseteq batch',
           \A n \in Of(type) :
              n <= cursor' /\ cursor' \in S => \/ n \in unacked \/ n <= cursor
                                               \/ n \in batch'
                                               \/ n \in Oldest("grp", Recent)
    PROVE  /\ cursor' \in Nat /\ cursor <= cursor' /\ cursor' = Reach(S)
           /\ \A n \in S : n <= cursor'
           /\ cursor' \in S \union {cursor} /\ cursor' <= furthest' /\ furthest' \in Nat
           /\ furthest' <= Len(stream) /\ furthest <= furthest'
           /\ \A n \in DOMAIN stream : Seen(n) => Seen(n)'
           /\ \A n \in DOMAIN stream :
                 n <= cursor' => Seen(n)' \/ n \in Oldest("grp", Recent)
<1>1. /\ DOMAIN stream = 1 .. Len(stream) /\ Len(stream) \in Nat
      /\ cursor \in 0 .. Len(stream) /\ furthest \in 0 .. Len(stream)
      /\ S \subseteq 0 .. Len(stream)
  BY DEF FeedTyped, Of
<1>2. /\ cursor' = Reach(S) /\ cursor' \in S \union {cursor}
      /\ \A n \in S \union {cursor} : n <= cursor'
  BY <1>1, FarthestExists DEF MoveCursor, Reach
<1>3. /\ cursor' \in 0 .. Len(stream) /\ cursor <= cursor'
  BY <1>1, <1>2
<1>4. /\ furthest' \in {furthest, cursor'} /\ cursor' <= furthest' /\ furthest <= furthest'
  <2>1. furthest' = Max({furthest, cursor'})
    BY <1>2 DEF MoveCursor
  <2>2. {furthest, cursor'} \in SUBSET (0 .. Len(stream)) /\ {furthest, cursor'} # {}
    BY <1>1, <1>3
  <2> QED BY <1>1, <2>1, <2>2, FarthestExists
<1>5. furthest' \in Nat /\ furthest' <= Len(stream)
  BY <1>1, <1>3, <1>4
<1>6. \A n \in DOMAIN stream : Seen(n) => Seen(n)'
  BY <1>4, <1>5, SeenStays
<1>7. ASSUME NEW n \in DOMAIN stream, n <= cursor'
      PROVE  Seen(n)' \/ n \in Oldest("grp", Recent)
  <2>1. CASE n <= cursor \/ n \in unacked
    BY <1>6, <2>1 DEF NothingSkipped
  <2>2. CASE ~(n <= cursor) /\ n \notin unacked
    <3>1. cursor' \in S /\ stream[cursor'].kind = type /\ cursor' \in DOMAIN stream
      BY <1>2, <1>7, <2>2 DEF Of
    <3>2. CASE stream[n].kind = type
      <4>1. n \in batch' \/ n \in Oldest("grp", Recent)
        BY <1>7, <2>2, <3>1, <3>2 DEF Of
      <4> QED BY <4>1 DEF Seen
    <3>3. CASE stream[n].kind # type
      <4>1. n # cursor' /\ n \in Nat
        BY <1>1, <3>1, <3>3
      <4>2. cursor' \in n + 1 .. furthest'
        BY <1>1, <1>3, <1>4, <1>5, <1>7, <4>1
      <4>3. Behind(n)'
        BY <3>1, <3>3, <4>2 DEF Behind
      <4> QED BY <4>3 DEF Seen
    <3> QED BY <3>2, <3>3
  <2> QED BY <2>1, <2>2
<1> QED BY <1>2, <1>3, <1>4, <1>5, <1>6, <1>7

(* What the durable consumer delivers leaves no dm out that is not         *)
(* delivered already.                                                      *)
LEMMA DeliveryWhole ==
    ASSUME FeedTyped, NEW k \in Int, Deliver(Delivery(k))
    PROVE  /\ Delivery(k) \subseteq Of("dm")
           /\ \A n \in Of("dm") : \A s \in Delivery(k) :
                 n <= s => n \in unacked \/ n \in Delivery(k)
           /\ next' \in Nat /\ next' <= Len(stream)
           /\ \A n \in Of("dm") : n \in unacked' <=> n <= next'
<1> DEFINE again == FirstOf(unacked, k)
           room == IF Cardinality(unacked) >= MaxAckPending THEN 0
                   ELSE MaxAckPending - Cardinality(unacked)
           new == {n \in Of("dm") : n > next}
           q == Min({room, Batch - k})
           fresh == FirstOf(new, q)
           S == Delivery(k)
<1>1. /\ DOMAIN stream = 1 .. Len(stream) /\ Len(stream) \in Nat /\ next \in 0 .. Len(stream)
      /\ Of("dm") \subseteq 1 .. Len(stream) /\ unacked \subseteq Of("dm")
      /\ \A n \in Of("dm") : n \in unacked <=> n <= next
  BY DEF FeedTyped, Of
<1>2. q \in Int
  <2>1. IsFiniteSet(1 .. Len(stream))
    BY <1>1, FS_Interval, 1 \in Int, Len(stream) \in Int, Zenon
  <2>2. Cardinality(unacked) \in Nat
    BY <1>1, <2>1, FS_Subset, FS_CardinalityType
  <2>3. room \in Int /\ Batch - k \in Int
    BY <2>2, FeedNumbers
  <2> QED BY <2>3, SmallerOf
<1>3. S = again \union fresh
  BY DEF Delivery
<1>4. again \subseteq unacked /\ fresh \subseteq new
  BY DEF FirstOf
<1>5. S \subseteq Of("dm")
  BY <1>1, <1>3, <1>4
<1>6. ASSUME NEW n \in Of("dm"), NEW s \in S, n <= s
      PROVE  n \in unacked \/ n \in S
  <2>1. CASE n <= next
    BY <1>1, <2>1
  <2>2. CASE ~(n <= next)
    <3>1. n \in Nat /\ s \in Nat /\ n \in new
      BY <1>1, <1>5, <2>2
    <3>2. ~(s <= next)
      BY <1>1, <1>6, <2>2, <3>1
    <3>3. s \notin unacked
      BY <1>1, <1>5, <3>2
    <3>4. s \in fresh
      BY <1>3, <1>4, <3>3
    <3>5. n \in fresh
      BY <1>1, <1>2, <1>6, <3>1, <3>4, FirstWhole
    <3> QED BY <1>3, <3>5
  <2> QED BY <2>1, <2>2
<1> HIDE DEF S
<1>7. /\ unacked' = unacked \union S /\ next' \in S \union {next}
      /\ \A n \in S \union {next} : n <= next'
  <2>1. unacked' = unacked \union S /\ next' = Max(S \union {next})
    BY DEF Deliver, S
  <2>2. S \union {next} \in SUBSET (0 .. Len(stream)) /\ S \union {next} # {}
    BY <1>1, <1>5 DEF S
  <2> QED BY <1>1, <2>1, <2>2, FarthestExists
<1>8. next' \in Nat /\ next' <= Len(stream) /\ next <= next'
  BY <1>1, <1>5, <1>7
<1>9. ASSUME NEW n \in Of("dm") PROVE n \in unacked' <=> n <= next'
  <2>1. n \in unacked' => n <= next'
    BY <1>1, <1>7, <1>8
  <2>2. ASSUME n <= next', n \notin unacked PROVE n \in S
    <3>1. ~(n <= next)
      BY <1>1, <2>2
    <3>2. next' \in S
      BY <1>7, <2>2, <3>1
    <3> QED BY <1>6, <2>2, <3>2
  <2> QED BY <1>7, <2>1, <2>2
<1> QED BY <1>5, <1>6, <1>8, <1>9 DEF S

(* The same of a consumer that has no name. *)
LEMMA OldestWhole ==
    ASSUME FeedTyped, NEW type, NEW k \in Int
    PROVE  /\ Oldest(type, k) \subseteq Of(type)
           /\ \A n \in Of(type) : \A s \in Oldest(type, k) :
                 n <= s => n \in Oldest(type, k)
<1>1. Len(stream) \in Nat /\ Of(type) \subseteq 1 .. Len(stream)
  BY DEF FeedTyped, Of
<1> QED BY <1>1, FirstWhole DEF Oldest, FirstOf

LEMMA FetchDmSkips ==
    ASSUME FeedTyped, NothingSkipped, FetchDm
    PROVE  FeedTyped' /\ NothingSkipped'
<1>0. /\ UNCHANGED <<stream, cursorFile, reported, known>> /\ phase' = "grp"
      /\ UNCHANGED Of("dm") /\ UNCHANGED Oldest("grp", Recent)
  BY DEF FetchDm, Of, Oldest, FirstOf
<1>1. ASSUME NEW k \in Int, Deliver(Delivery(k)), Got(Delivery(k)),
             UNCHANGED strayed
      PROVE  FeedTyped' /\ NothingSkipped'
  <2> DEFINE S == Delivery(k)
  <2>1. /\ S \in SUBSET Of("dm") /\ unacked' = unacked \union S
        /\ \A n \in Of("dm") : \A s \in S : n <= s => n \in unacked \/ n \in S
        /\ next' \in Nat /\ next' <= Len(stream)
        /\ \A n \in Of("dm") : n \in unacked' <=> n <= next'
    BY <1>1, DeliveryWhole DEF Deliver
  <2>2. batch' = batch \union {n \in S : n > cursor} /\ MoveCursor(S)
    BY <1>1 DEF Got, Past
  <2> HIDE DEF S
  <2>3. cursor \in Nat /\ Of("dm") \subseteq DOMAIN stream /\ DOMAIN stream \subseteq Nat
    BY DEF FeedTyped, Of
  <2>4. \A n \in Of("dm") :
           n <= cursor' /\ cursor' \in S => \/ n \in unacked \/ n <= cursor \/ n \in batch'
    BY <2>1, <2>2, <2>3
  <2>5. /\ cursor' \in Nat /\ cursor <= cursor' /\ cursor' <= furthest' /\ furthest' \in Nat
        /\ furthest' <= Len(stream) /\ furthest <= furthest'
        /\ \A n \in DOMAIN stream : Seen(n) => Seen(n)'
        /\ \A n \in DOMAIN stream :
              n <= cursor' => Seen(n)' \/ n \in Oldest("grp", Recent)
    BY <1>0, <1>1, <2>1, <2>2, <2>4, CursorMoves
  <2>6. FeedTyped'
    BY <1>0, <2>1, <2>2, <2>3, <2>5 DEF FeedTyped
  <2>7. ASSUME NEW n \in unacked' PROVE Seen(n)'
    <3>1. CASE n \in unacked
      BY <2>3, <2>5, <3>1 DEF NothingSkipped, FeedTyped
    <3>2. CASE n \in S /\ n > cursor
      BY <2>2, <3>2 DEF Seen
    <3>3. CASE n \in S /\ ~(n > cursor)
      <4>1. n \in Of("dm") /\ n \in DOMAIN stream /\ n <= cursor
        BY <2>1, <2>3, <3>3
      <4>2. n \notin Oldest("grp", Recent)
        BY <4>1 DEF Oldest, FirstOf, Of
      <4> QED BY <2>5, <4>1, <4>2 DEF NothingSkipped
    <3> QED BY <2>1, <2>7, <3>1, <3>2, <3>3
  <2> QED BY <1>0, <2>5, <2>6, <2>7 DEF NothingSkipped
<1>2. ASSUME Got(Oldest("dm", Batch)), UNCHANGED <<next, unacked, strayed>>
      PROVE  FeedTyped' /\ NothingSkipped'
  <2> DEFINE S == Oldest("dm", Batch)
  <2>1. /\ S \in SUBSET Of("dm")
        /\ \A n \in Of("dm") : \A s \in S : n <= s => n \in S
    BY OldestWhole, FeedNumbers
  <2>2. batch' = batch \union {n \in S : n > cursor} /\ MoveCursor(S)
    BY <1>2 DEF Got, Past
  <2> HIDE DEF S
  <2>3. cursor \in Nat /\ Of("dm") \subseteq DOMAIN stream /\ DOMAIN stream \subseteq Nat
    BY DEF FeedTyped, Of
  <2>4. \A n \in Of("dm") :
           n <= cursor' /\ cursor' \in S => n <= cursor \/ n \in batch'
    BY <2>1, <2>2, <2>3
  <2>5. /\ cursor' \in Nat /\ cursor <= cursor' /\ cursor' <= furthest' /\ furthest' \in Nat
        /\ furthest' <= Len(stream) /\ furthest <= furthest'
        /\ \A n \in DOMAIN stream : Seen(n) => Seen(n)'
        /\ \A n \in DOMAIN stream :
              n <= cursor' => Seen(n)' \/ n \in Oldest("grp", Recent)
    BY <1>0, <1>2, <2>1, <2>2, <2>4, CursorMoves
  <2>6. FeedTyped'
    BY <1>0, <1>2, <2>1, <2>2, <2>3, <2>5 DEF FeedTyped
  <2> QED BY <1>0, <1>2, <2>3, <2>5, <2>6 DEF NothingSkipped, FeedTyped
<1>3. ASSUME Deliver(Delivery(0)), strayed' = strayed \union Delivery(0),
             UNCHANGED <<batch, cursor, furthest>>
      PROVE  FeedTyped' /\ NothingSkipped'
  <2>1. /\ unacked' = unacked \union Delivery(0)
        /\ next' \in Nat /\ next' <= Len(stream)
        /\ Delivery(0) \subseteq Of("dm")
        /\ \A n \in Of("dm") : n \in unacked' <=> n <= next'
    BY <1>3, DeliveryWhole, 0 \in Int DEF Deliver
  <2>2. \A n \in DOMAIN stream : Seen(n) => Seen(n)'
    BY <1>0, <1>3, SeenStays DEF FeedTyped
  <2>3. FeedTyped'
    BY <1>0, <1>3, <2>1 DEF FeedTyped
  <2>4. \A n \in Delivery(0) : Seen(n)'
    BY <1>3 DEF Seen
  <2>5. Of("dm") \subseteq DOMAIN stream
    BY DEF Of
  <2> QED BY <1>0, <1>3, <2>1, <2>2, <2>3, <2>4, <2>5 DEF NothingSkipped, FeedTyped
<1> QED BY <1>1, <1>2, <1>3 DEF FetchDm

(* Messages of groups are fetched, by check() or by get_recent: what is in *)
(* between is got, or it is given by get_recent at any time.               *)
LEMMA FetchGrpSkips ==
    ASSUME FeedTyped, NothingSkipped,
           FetchGrp \/ GetRecent \/ LookAtRecent
    PROVE  FeedTyped' /\ NothingSkipped'
<1>0. /\ UNCHANGED <<stream, next, unacked, reported, strayed, known>>
      /\ UNCHANGED Of("dm") /\ UNCHANGED Oldest("grp", Recent)
  BY DEF FetchGrp, GetRecent, LookAtRecent, server, memory, Of,
         Oldest, FirstOf
<1>1. ASSUME NEW S \in SUBSET Of("grp"), MoveCursor(S), batch \subseteq batch',
             batch' \subseteq batch \union S,
             cursorFile' \in {Reach(S), cursorFile, 0},
             phase' = "recent" => batch' = {},
             \A n \in Of("grp") :
                n <= cursor' /\ cursor' \in S => n <= cursor \/ n \in batch'
                                                \/ n \in Oldest("grp", Recent)
      PROVE  FeedTyped' /\ NothingSkipped'
  <2>1. /\ cursor' \in Nat /\ cursor <= cursor' /\ cursor' <= furthest' /\ furthest' \in Nat
        /\ furthest' <= Len(stream) /\ furthest <= furthest' /\ cursor' = Reach(S)
        /\ \A n \in DOMAIN stream : Seen(n) => Seen(n)'
        /\ \A n \in DOMAIN stream :
              n <= cursor' => Seen(n)' \/ n \in Oldest("grp", Recent)
    BY <1>0, <1>1, CursorMoves
  <2>2. cursorFile' \in Nat /\ cursorFile' <= cursor'
    BY <1>1, <2>1 DEF FeedTyped
  <2>3. Of("grp") \subseteq DOMAIN stream /\ Of("dm") \subseteq DOMAIN stream
    BY DEF Of
  <2>4. FeedTyped'
    BY <1>0, <1>1, <2>1, <2>2, <2>3 DEF FeedTyped
  <2> QED BY <1>0, <2>1, <2>3, <2>4 DEF NothingSkipped, FeedTyped
<1>2. ASSUME NEW S, Saved(S) PROVE cursorFile' \in {Reach(S), cursorFile, 0}
  BY <1>2 DEF Saved
<1>3. DOMAIN stream \subseteq Nat /\ cursor \in Nat
  BY DEF FeedTyped
<1>4. CASE FetchGrp
  <2>1. PICK S \in {Oldest("grp", Batch), {}} :
           /\ Got(S)
           /\ IF batch' = {}
              THEN phase' = "recent" /\ UNCHANGED <<cursorFile, silence, unsaved, faults>>
              ELSE phase' = "report" /\ silence' \in BOOLEAN /\ Saved(S)
    BY <1>4, Zenon DEF FetchGrp
  <2>2. /\ S \in SUBSET Of("grp")
        /\ \A n \in Of("grp") : \A s \in S : n <= s => n \in S
    BY <2>1, OldestWhole, FeedNumbers
  <2>3. batch' = batch \union {n \in S : n > cursor} /\ MoveCursor(S)
    BY <2>1 DEF Got, Past
  <2>4. cursorFile' \in {Reach(S), cursorFile, 0} /\ (phase' = "recent" => batch' = {})
    BY <1>2, <2>1
  <2>5. Of("grp") \subseteq DOMAIN stream
    BY DEF Of
  <2>6. \A n \in Of("grp") : n <= cursor' /\ cursor' \in S => n <= cursor \/ n \in batch'
    BY <1>3, <2>2, <2>3, <2>5
  <2> QED BY <1>1, <2>2, <2>3, <2>4, <2>6
<1>5. ASSUME MoveCursor(Oldest("grp", Recent)), Saved(Oldest("grp", Recent)),
             batch \subseteq batch', batch' \subseteq batch \union Oldest("grp", Recent),
             phase' = "recent" => batch' = {}
      PROVE  FeedTyped' /\ NothingSkipped'
  <2> DEFINE S == Oldest("grp", Recent)
  <2>1. /\ S \in SUBSET Of("grp")
        /\ \A n \in Of("grp") : \A s \in S : n <= s => n \in S
    BY OldestWhole, FeedNumbers
  <2> QED BY <1>1, <1>2, <1>5, <2>1
<1>6. CASE GetRecent
  <2>1. batch = {} /\ phase' = "report"
    BY <1>6 DEF GetRecent, FeedTyped
  <2>2. CASE UNCHANGED <<batch, cursor, furthest, cursorFile, unsaved, faults>>
    <3>1. \A n \in DOMAIN stream : Seen(n)' <=> Seen(n)
      BY <1>0, <2>2 DEF Seen, Behind
    <3>2. FeedTyped'
      BY <1>0, <2>1, <2>2 DEF FeedTyped
    <3> QED BY <1>0, <2>2, <3>1, <3>2 DEF NothingSkipped, FeedTyped, Of
  <2>3. CASE /\ batch' = Oldest("grp", Recent)
             /\ MoveCursor(Oldest("grp", Recent))
             /\ Saved(Oldest("grp", Recent))
    BY <1>5, <2>1, <2>3
  <2> QED BY <1>6, <2>2, <2>3 DEF GetRecent
<1>7. CASE LookAtRecent
  <2>1. phase' = phase /\ batch' = batch
    BY <1>7 DEF LookAtRecent
  <2>2. phase' = "recent" => batch' = {}
    BY <2>1 DEF FeedTyped
  <2> QED BY <1>5, <1>7, <2>1, <2>2 DEF LookAtRecent
<1> QED BY <1>4, <1>6, <1>7

(* A message is published, and nothing that was passed over moves.         *)
LEMMA PublishSkips ==
    ASSUME FeedTyped, NothingSkipped, NEW m \in FeedMessages, PublishToFeed(m)
    PROVE  FeedTyped' /\ NothingSkipped'
<1>1. /\ stream' = Append(stream, m)
      /\ UNCHANGED <<next, unacked, cursorFile, known, cursor, furthest, phase, batch,
                     reported, strayed>>
  BY DEF PublishToFeed, memory, feedHistory
<1>2. /\ Len(stream) \in Nat /\ DOMAIN stream = 1 .. Len(stream)
      /\ Len(stream') = Len(stream) + 1 /\ DOMAIN stream' = 1 .. Len(stream) + 1
      /\ \A i \in DOMAIN stream : stream'[i] = stream[i]
      /\ stream' \in Seq(FeedMessages)
  BY <1>1 DEF FeedTyped
<1>3. \A n \in DOMAIN stream : Seen(n) => Seen(n)'
  BY <1>1, <1>2, SeenStays DEF FeedTyped
<1>4. \A type : \A n \in DOMAIN stream : n \in Of(type)' <=> n \in Of(type)
  BY <1>2 DEF Of
<1>5. FeedTyped'
  <2>1. unacked' \subseteq Of("dm")'
    BY <1>1, <1>4 DEF FeedTyped, Of
  <2>2. ASSUME NEW n \in Of("dm")' PROVE n \in unacked' <=> n <= next'
    <3>1. CASE n \in DOMAIN stream
      BY <1>1, <1>4, <3>1 DEF FeedTyped
    <3>2. CASE n = Len(stream) + 1
      <4>1. n \notin unacked
        BY <1>2, <3>2 DEF FeedTyped, Of
      <4>2. ASSUME n <= next PROVE FALSE
        BY <1>2, <3>2, <4>2 DEF FeedTyped
      <4> QED BY <1>1, <4>1, <4>2
    <3> QED BY <1>2, <2>2, <3>1, <3>2 DEF Of
  <2>3. furthest' <= Len(stream') /\ next' <= Len(stream') /\ batch' \subseteq DOMAIN stream'
    BY <1>1, <1>2 DEF FeedTyped
  <2> QED BY <1>1, <1>2, <2>1, <2>2, <2>3 DEF FeedTyped
<1>6. ASSUME NEW n \in DOMAIN stream', n <= cursor'
      PROVE  Seen(n)' \/ n \in Oldest("grp", Recent)'
  <2>1. n \in DOMAIN stream /\ n <= cursor
    BY <1>1, <1>2, <1>6 DEF FeedTyped
  <2>2. CASE Seen(n)
    BY <1>3, <2>1, <2>2
  <2>3. CASE n \in Oldest("grp", Recent)
    <3>1. {i \in Of("grp")' : i < n} = {i \in Of("grp") : i < n}
      <4>1. \A i \in DOMAIN stream' : i < n => i \in DOMAIN stream
        BY <1>2, <2>1
      <4> QED BY <1>2, <1>4, <4>1 DEF Of
    <3>2. n \in Of("grp")'
      BY <1>4, <2>1, <2>3 DEF Oldest, FirstOf
    <3> QED BY <2>3, <3>1, <3>2 DEF Oldest, FirstOf
  <2> QED BY <2>1, <2>2, <2>3 DEF NothingSkipped
<1> QED BY <1>1, <1>3, <1>5, <1>6 DEF NothingSkipped, FeedTyped, Of

(* The other steps only add to what was looked at, or the process starts   *)
(* again with the cursor of the file and what it held is lost.             *)
LEMMA OthersSkip ==
    ASSUME FeedTyped, NothingSkipped,
           UNCHANGED <<stream, furthest>>, cursorFile' = cursorFile,
           cursor' \in {cursor, cursorFile},
           \/ UNCHANGED <<next, unacked>>
           \/ next' = 0 /\ unacked' = {},
           batch' \subseteq batch, known' \subseteq reported', reported \subseteq reported',
           phase' = "recent" => batch' = {},
           \A n \in DOMAIN stream :
              n \in reported \union strayed \union batch =>
                 n \in reported' \union strayed' \union batch' \/ stream[n].from = Me
    PROVE  FeedTyped' /\ NothingSkipped'
<1>1. /\ UNCHANGED Of("dm") /\ UNCHANGED Oldest("grp", Recent)
      /\ Of("dm") \subseteq 1 .. Len(stream) /\ DOMAIN stream = 1 .. Len(stream)
      /\ Len(stream) \in Nat
  BY DEF Of, Oldest, FirstOf, FeedTyped
<1>2. \A n \in DOMAIN stream : Seen(n) => Seen(n)'
  BY DEF Seen, Behind
<1>3. cursor' \in Nat /\ cursor' <= cursor /\ cursorFile' <= cursor' /\ cursor' <= furthest
  BY DEF FeedTyped
<1>4. /\ next' \in Nat /\ next' <= Len(stream) /\ unacked' \subseteq Of("dm")
      /\ \A n \in Of("dm") : n \in unacked' <=> n <= next'
  BY <1>1 DEF FeedTyped
<1>5. FeedTyped'
  BY <1>1, <1>3, <1>4 DEF FeedTyped
<1>6. \A n \in unacked' : Seen(n)'
  BY <1>1, <1>2 DEF NothingSkipped, FeedTyped
<1>7. \A n \in DOMAIN stream : n <= cursor' => n <= cursor
  BY <1>1, <1>3 DEF FeedTyped
<1> QED BY <1>1, <1>2, <1>5, <1>6, <1>7 DEF NothingSkipped

LEMMA NextSkips ==
    FeedTyped /\ NothingSkipped /\ [FeedNext]_feed
        => FeedTyped' /\ NothingSkipped'
<1> SUFFICES ASSUME FeedTyped, NothingSkipped, [FeedNext]_feed
             PROVE  FeedTyped' /\ NothingSkipped'
  OBVIOUS
<1>1. CASE UNCHANGED <<stream, next, unacked, cursorFile, cursor, furthest, known, batch,
                       reported, strayed>> /\ (phase' = "recent" => batch' = {})
  BY <1>1, OthersSkip DEF FeedTyped
<1>2. ASSUME NEW n \in batch, Report(n) PROVE FeedTyped' /\ NothingSkipped'
  <2>1. /\ UNCHANGED <<stream, next, unacked, cursorFile, cursor, furthest, strayed, phase>>
        /\ phase = "report" /\ batch' = batch \ {n} /\ reported' = reported \union {n}
    BY <1>2 DEF Report, InTurn, Pop, server
  <2>2. known' \subseteq known \union {n}
    BY <1>2 DEF Report, Remember, kSubset
  <2>3. known' \subseteq reported'
    BY <2>1, <2>2 DEF FeedTyped
  <2> QED BY <2>1, <2>3, OthersSkip
<1>3. ASSUME NEW n \in batch, Skip(n) PROVE FeedTyped' /\ NothingSkipped'
  <2>1. /\ UNCHANGED <<stream, next, unacked, cursorFile, cursor, furthest, strayed, phase,
                       known, reported>>
        /\ phase = "report" /\ batch' = batch \ {n} /\ (n \in known \/ stream[n].from = Me)
    BY <1>3 DEF Skip, InTurn, Pop, server, memory, feedHistory
  <2>2. n \in reported \/ stream[n].from = Me
    BY <2>1 DEF FeedTyped
  <2> QED BY <2>1, <2>2, OthersSkip DEF FeedTyped
<1>4. ASSUME NEW n \in 1 .. MaxMessages, MarkRead(n) PROVE FeedTyped' /\ NothingSkipped'
  <2>1. /\ UNCHANGED <<stream, next, unacked, cursorFile, cursor, furthest, strayed, phase, batch>>
        /\ known' = known \union {n} /\ reported' = reported \union {n}
    BY <1>4 DEF MarkRead, server
  <2> QED BY <2>1, OthersSkip DEF FeedTyped
<1>5. CASE Restart
  <2>1. /\ UNCHANGED <<stream, cursorFile, furthest, reported>> /\ cursor' = cursorFile
        /\ UNCHANGED <<next, unacked>> \/ (next' = 0 /\ unacked' = {})
        /\ known' = {} /\ batch' = {} /\ strayed' = strayed \union batch
    BY <1>5 DEF Restart
  <2> QED BY <2>1, OthersSkip
<1>6. CASE EndCheck \/ FeedTick \/ UNCHANGED feed
  <2>1. UNCHANGED <<stream, next, unacked, cursorFile, cursor, furthest, known, batch,
                    reported, strayed>> /\ (phase' = "recent" => phase = "recent")
    BY <1>6 DEF EndCheck, FeedTick, feed, server, memory, feedHistory
  <2> QED BY <1>1, <2>1 DEF FeedTyped
<1>7. ASSUME NEW p \in Policies, UpdatePolicy(p) PROVE FeedTyped' /\ NothingSkipped'
  <2>1. UNCHANGED <<stream, next, unacked, cursorFile, cursor, furthest, known, batch,
                    reported, strayed, phase>>
    BY <1>7 DEF UpdatePolicy, feedHistory
  <2> QED BY <1>1, <2>1 DEF FeedTyped
<1> QED BY <1>2, <1>3, <1>4, <1>5, <1>6, <1>7, PublishSkips, FetchDmSkips, FetchGrpSkips
         DEF FeedNext

LEMMA InitSkips == FeedInit => FeedTyped /\ NothingSkipped
<1> SUFFICES ASSUME FeedInit PROVE FeedTyped /\ NothingSkipped
  OBVIOUS
<1>1. /\ stream = <<>> /\ next = 0 /\ unacked = {} /\ cursorFile = 0 /\ cursor = 0
      /\ furthest = 0 /\ batch = {} /\ known = {} /\ reported = {}
  BY DEF FeedInit
<1>2. DOMAIN stream = {} /\ Len(stream) = 0 /\ stream \in Seq(FeedMessages)
  BY <1>1
<1> QED BY <1>1, <1>2 DEF FeedTyped, NothingSkipped, Of

(* The cursor that dms and groups share leaves no message out but before   *)
(* one of the other kind: however often the durable consumer delivers      *)
(* again, the cursor falls back to the file and get_recent moves it.       *)
THEOREM OnlyOtherKindHides == FeedSpec => []OnlyBehindOther
<1>1. FeedInit => FeedTyped /\ NothingSkipped
  BY InitSkips
<1>2. FeedTyped /\ NothingSkipped /\ [FeedNext]_feed => FeedTyped' /\ NothingSkipped'
  BY NextSkips
<1>3. FeedTyped /\ NothingSkipped => OnlyBehindOther
  BY DEF NothingSkipped, Seen, Behind, OnlyBehindOther, PassedOver
<1> QED BY <1>1, <1>2, <1>3, PTL DEF FeedSpec

-----------------------------------------------------------------------------
(* What is reported again.  What may be is a message a failed save has     *)
(* left behind, or one get_recent gives.                                   *)
Free(n) == n <= unsaved \/ n \in Oldest("grp", Recent)

(* The file of the cursor has passed what was reported, or that may be     *)
(* reported again; so has it what a check has in its hands when it begins  *)
(* to look at it.                                                          *)
Explains ==
    /\ shown \subseteq DOMAIN stream /\ unsaved \in Nat /\ unsaved <= Len(stream)
    /\ \A n \in shown : n <= cursorFile \/ Free(n)
    /\ \A n \in batch : n <= cursor
    /\ \A n \in batch \cap shown : Free(n)
    /\ phase = "report" => \A n \in batch : n <= cursorFile \/ Free(n)

LEMMA CursorReaches ==
    ASSUME FeedTyped, NEW S \in SUBSET DOMAIN stream
    PROVE  /\ Reach(S) \in Nat /\ cursor <= Reach(S) /\ Reach(S) <= Len(stream)
           /\ \A n \in S : n <= Reach(S)
<1>1. /\ DOMAIN stream = 1 .. Len(stream) /\ Len(stream) \in Nat
      /\ cursor \in 0 .. Len(stream)
  BY DEF FeedTyped
<1> DEFINE T == S \union {cursor}
<1>2. T \in SUBSET (0 .. Len(stream)) /\ T # {}
  BY <1>1
<1>3. S \subseteq T /\ cursor \in T /\ Reach(S) = Max(T)
  BY DEF Reach
<1> HIDE DEF T
<1>4. Max(T) \in T /\ \A x \in T : x <= Max(T)
  BY <1>1, <1>2, FarthestExists
<1> QED BY <1>1, <1>2, <1>3, <1>4

(* The save of a cursor covers all that is up to it, in the file or as a   *)
(* save that failed.                                                       *)
LEMMA SavedCovers ==
    ASSUME FeedTyped, unsaved \in Nat, unsaved <= Len(stream),
           NEW S \in SUBSET DOMAIN stream, Saved(S)
    PROVE  /\ unsaved' \in Nat /\ unsaved' <= Len(stream) /\ unsaved <= unsaved'
           /\ \A n \in DOMAIN stream :
                 n <= Reach(S) => n <= cursorFile' \/ n <= unsaved'
<1>1. Reach(S) \in Nat /\ Reach(S) <= Len(stream)
  BY CursorReaches
<1>2. CASE cursorFile' = Reach(S) /\ unsaved' = unsaved
  BY <1>2
<1>3. CASE unsaved' = Max({unsaved, Reach(S)})
  <2>1. {unsaved, Reach(S)} \in SUBSET (0 .. Len(stream)) /\ {unsaved, Reach(S)} # {}
        /\ Len(stream) \in Nat /\ DOMAIN stream = 1 .. Len(stream)
    BY <1>1 DEF FeedTyped
  <2>2. unsaved' \in {unsaved, Reach(S)} /\ \A x \in {unsaved, Reach(S)} : x <= unsaved'
    BY <1>3, <2>1, FarthestExists
  <2> QED BY <1>1, <2>1, <2>2
<1> QED BY <1>2, <1>3 DEF Saved

(* A check, or get_recent_messages, moves the cursor and perhaps saves it. *)
LEMMA MoveExplains ==
    ASSUME FeedTyped, FeedTyped', Explains, UNCHANGED <<stream, shown>>,
           NEW S \in SUBSET DOMAIN stream, cursor' = Reach(S),
           \/ UNCHANGED <<cursorFile, unsaved>> /\ (phase' # "report" \/ batch' = {})
           \/ Saved(S),
           \A n \in batch' :
              \/ n \in batch
              \/ n \in S /\ (n > cursor \/ n \in Oldest("grp", Recent))
    PROVE  Explains'
<1>1. /\ cursor' \in Nat /\ cursor <= cursor' /\ \A n \in S : n <= cursor'
      /\ UNCHANGED Oldest("grp", Recent)
      /\ DOMAIN stream \subseteq Nat /\ cursor \in Nat /\ cursorFile \in Nat
      /\ cursorFile <= cursor /\ cursorFile' \in Nat
  BY CursorReaches DEF FeedTyped, Oldest, Of, FirstOf
<1>2. /\ unsaved' \in Nat /\ unsaved' <= Len(stream) /\ unsaved <= unsaved'
      /\ unsaved \in Nat
      /\ Saved(S) => \A n \in DOMAIN stream :
                        n <= cursor' => n <= cursorFile' \/ n <= unsaved'
  BY SavedCovers DEF Explains
<1>3. \A n \in DOMAIN stream : Free(n) => Free(n)'
  BY <1>1, <1>2 DEF Free
<1>4. \A n \in shown' : n <= cursorFile' \/ Free(n)'
  <2> SUFFICES ASSUME NEW n \in shown PROVE n <= cursorFile' \/ Free(n)'
    OBVIOUS
  <2>1. n \in DOMAIN stream /\ (n <= cursorFile \/ Free(n))
    BY DEF Explains
  <2>2. CASE Free(n)
    BY <1>3, <2>1, <2>2
  <2>3. CASE n <= cursorFile /\ cursorFile' = cursorFile
    BY <2>3
  <2>4. CASE n <= cursorFile /\ Saved(S)
    <3>1. n <= cursor'
      BY <1>1, <2>1, <2>4
    <3> QED BY <1>2, <2>1, <2>4, <3>1 DEF Free
  <2> QED BY <2>1, <2>2, <2>3, <2>4
<1>5. \A n \in batch' : n <= cursor' /\ n \in DOMAIN stream
  <2>1. \A n \in batch' : n \in DOMAIN stream
    BY DEF FeedTyped
  <2>2. \A n \in batch : n <= cursor /\ n \in DOMAIN stream
    BY DEF Explains, FeedTyped
  <2> QED BY <1>1, <2>1, <2>2
<1>6. \A n \in batch' \cap shown' : Free(n)'
  <2> SUFFICES ASSUME NEW n \in batch', n \in shown PROVE Free(n)'
    OBVIOUS
  <2>1. n \in DOMAIN stream /\ (n <= cursorFile \/ Free(n))
    BY DEF Explains
  <2>2. CASE n \in batch
    BY <1>3, <2>1, <2>2 DEF Explains
  <2>3. CASE n \in S /\ n > cursor
    BY <1>1, <1>3, <2>1, <2>3
  <2>4. CASE n \in Oldest("grp", Recent)
    BY <1>1, <2>4 DEF Free
  <2> QED BY <2>2, <2>3, <2>4
<1>7. ASSUME phase' = "report", NEW n \in batch' PROVE n <= cursorFile' \/ Free(n)'
  BY <1>2, <1>5, <1>7 DEF Free
<1> QED BY <1>2, <1>4, <1>5, <1>6, <1>7 DEF Explains

(* A message is published: the oldest stay the oldest. *)
LEMMA PublishExplains ==
    ASSUME FeedTyped, Explains, NEW m \in FeedMessages, PublishToFeed(m)
    PROVE  Explains'
<1>1. /\ stream' = Append(stream, m)
      /\ UNCHANGED <<cursorFile, cursor, phase, batch, shown, unsaved>>
  BY DEF PublishToFeed, memory, feedHistory
<1>2. /\ Len(stream) \in Nat /\ DOMAIN stream = 1 .. Len(stream)
      /\ Len(stream') = Len(stream) + 1 /\ DOMAIN stream' = 1 .. Len(stream) + 1
      /\ \A i \in DOMAIN stream : stream'[i] = stream[i]
  BY <1>1 DEF FeedTyped
<1>3. ASSUME NEW n \in Oldest("grp", Recent) PROVE n \in Oldest("grp", Recent)'
  <2>1. n \in DOMAIN stream /\ n \in Of("grp")'
    BY <1>2, <1>3 DEF Oldest, FirstOf, Of
  <2>2. {i \in Of("grp")' : i < n} = {i \in Of("grp") : i < n}
    <3>1. \A i \in DOMAIN stream' : i < n => i \in DOMAIN stream
      BY <1>2, <2>1
    <3> QED BY <1>2, <3>1 DEF Of
  <2> QED BY <1>3, <2>1, <2>2 DEF Oldest, FirstOf
<1>4. \A n : Free(n) => Free(n)'
  BY <1>1, <1>3 DEF Free
<1> QED BY <1>1, <1>2, <1>4 DEF Explains

(* The other steps move neither the cursor nor what is saved, or the       *)
(* process starts with what the file has and nothing in its hands.         *)
LEMMA OthersExplain ==
    ASSUME FeedTyped, Explains, UNCHANGED <<stream, cursorFile, unsaved>>,
           \/ cursor' = cursor /\ batch' \subseteq batch
           \/ batch' = {},
           phase' = "report" => phase = "report" \/ batch' = {},
           \A n \in shown' : n \in shown \/ (n \in batch \ batch' /\ phase = "report")
    PROVE  Explains'
<1>1. \A n : Free(n)' <=> Free(n)
  BY DEF Free, Oldest, Of, FirstOf
<1>2. batch \subseteq DOMAIN stream
  BY DEF FeedTyped
<1>3. \A n \in shown' : n \in DOMAIN stream /\ (n <= cursorFile \/ Free(n))
  BY <1>2 DEF Explains
<1>4. \A n \in batch' \cap shown' : Free(n)
  BY DEF Explains
<1> QED BY <1>1, <1>3, <1>4 DEF Explains

LEMMA NextExplains ==
    FeedTyped /\ FeedTyped' /\ Explains /\ [FeedNext]_feed => Explains'
<1> SUFFICES ASSUME FeedTyped, FeedTyped', Explains, [FeedNext]_feed PROVE Explains'
  OBVIOUS
<1>0. /\ Of("dm") \subseteq DOMAIN stream /\ Oldest("dm", Batch) \subseteq DOMAIN stream
      /\ \A k : Oldest("grp", k) \subseteq DOMAIN stream
  BY DEF Of, Oldest, FirstOf
<1>1. CASE FetchDm
  <2>1. /\ UNCHANGED <<stream, cursorFile, shown, unsaved>> /\ phase' = "grp"
    BY <1>1 DEF FetchDm
  <2>2. ASSUME NEW S \in SUBSET DOMAIN stream, Got(S) PROVE Explains'
    <3>1. cursor' = Reach(S) /\ batch' = batch \union {n \in S : n > cursor}
      BY <2>2 DEF Got, MoveCursor, Past
    <3> QED BY <2>1, <3>1, MoveExplains
  <2>3. CASE UNCHANGED <<batch, cursor>>
    BY <2>1, <2>3, OthersExplain
  <2>4. \A k \in Int : Delivery(k) \subseteq Of("dm")
    BY DEF Delivery, FirstOf, FeedTyped
  <2> QED BY <1>0, <1>1, <2>2, <2>3, <2>4 DEF FetchDm
<1>2. CASE FetchGrp
  <2>1. PICK S \in {Oldest("grp", Batch), {}} :
           /\ Got(S)
           /\ IF batch' = {}
              THEN phase' = "recent" /\ UNCHANGED <<cursorFile, silence, unsaved, faults>>
              ELSE phase' = "report" /\ silence' \in BOOLEAN /\ Saved(S)
    BY <1>2, Zenon DEF FetchGrp
  <2>2. UNCHANGED <<stream, shown>>
    BY <1>2 DEF FetchGrp, server
  <2>3. cursor' = Reach(S) /\ batch' = batch \union {n \in S : n > cursor}
    BY <2>1 DEF Got, MoveCursor, Past
  <2>4. S \in SUBSET DOMAIN stream
    BY <1>0
  <2> QED BY <2>1, <2>2, <2>3, <2>4, MoveExplains
<1>3. CASE GetRecent
  <2> DEFINE S == Oldest("grp", Recent)
  <2>1. UNCHANGED <<stream, shown>> /\ batch = {} /\ phase' = "report"
    BY <1>3 DEF GetRecent, server, FeedTyped
  <2>2. CASE batch' = S /\ MoveCursor(S) /\ Saved(S)
    <3>1. cursor' = Reach(S)
      BY <2>2 DEF MoveCursor
    <3> QED BY <1>0, <2>1, <2>2, <3>1, MoveExplains
  <2>3. CASE UNCHANGED <<batch, cursor, cursorFile, unsaved>>
    BY <2>1, <2>3, OthersExplain
  <2> QED BY <1>3, <2>2, <2>3 DEF GetRecent
<1>4. CASE LookAtRecent
  <2> DEFINE S == Oldest("grp", Recent)
  <2>1. /\ UNCHANGED <<stream, shown, batch, phase>> /\ MoveCursor(S) /\ Saved(S)
    BY <1>4 DEF LookAtRecent, server
  <2>2. cursor' = Reach(S)
    BY <2>1 DEF MoveCursor
  <2> QED BY <1>0, <2>1, <2>2, MoveExplains
<1>5. ASSUME NEW n \in batch, Report(n) PROVE Explains'
  <2>1. /\ UNCHANGED <<stream, cursorFile, unsaved, cursor, phase>> /\ phase = "report"
        /\ batch' = batch \ {n} /\ shown' = shown \union {n}
    BY <1>5 DEF Report, InTurn, Pop, server
  <2> QED BY <2>1, OthersExplain
<1>6. ASSUME NEW n \in batch, Skip(n) PROVE Explains'
  <2>1. /\ UNCHANGED <<stream, cursorFile, unsaved, cursor, phase, shown>>
        /\ batch' = batch \ {n}
    BY <1>6 DEF Skip, Pop, server, feedHistory
  <2> QED BY <2>1, OthersExplain
<1>7. ASSUME NEW n \in 1 .. MaxMessages, MarkRead(n) PROVE Explains'
  <2>1. UNCHANGED <<stream, cursorFile, unsaved, cursor, phase, batch, shown>>
    BY <1>7 DEF MarkRead, server
  <2> QED BY <2>1, OthersExplain
<1>8. CASE Restart
  <2>1. UNCHANGED <<stream, cursorFile, unsaved, shown>> /\ batch' = {}
    BY <1>8 DEF Restart
  <2> QED BY <2>1, OthersExplain
<1>9. ASSUME NEW p \in Policies, UpdatePolicy(p) PROVE Explains'
  <2>1. UNCHANGED <<stream, cursorFile, unsaved, cursor, phase, batch, shown>>
    BY <1>9 DEF UpdatePolicy, feedHistory
  <2> QED BY <2>1, OthersExplain
<1>10. CASE EndCheck \/ FeedTick \/ UNCHANGED feed
  <2>1. /\ UNCHANGED <<stream, cursorFile, unsaved, cursor, batch, shown>>
        /\ phase' = "report" => phase = "report"
    BY <1>10 DEF EndCheck, FeedTick, feed, server, feedHistory
  <2> QED BY <2>1, OthersExplain
<1> QED BY <1>1, <1>2, <1>3, <1>4, <1>5, <1>6, <1>7, <1>8, <1>9, <1>10, PublishExplains
         DEF FeedNext

LEMMA InitExplains == FeedInit => Explains
<1> SUFFICES ASSUME FeedInit PROVE Explains
  OBVIOUS
<1>1. stream = <<>> /\ shown = {} /\ unsaved = 0 /\ batch = {}
  BY DEF FeedInit
<1>2. Len(stream) = 0
  BY <1>1
<1> QED BY <1>1, <1>2 DEF Explains

(* Whatever the server delivers again, wherever the cursor falls back to   *)
(* and however often the process starts, no message is reported a second   *)
(* time but one of those that get_recent gives, or one that a failed save  *)
(* has left behind.                                                        *)
THEOREM RepeatsOnlySo == FeedSpec => RepeatsExplained
<1> DEFINE Inv == FeedTyped /\ NothingSkipped /\ Explains
           Only == \A n \in shown :
                      Report(n) => n <= unsaved \/ n \in Oldest("grp", Recent)
<1>1. FeedInit => Inv
  BY InitSkips, InitExplains
<1>2. Inv /\ [FeedNext]_feed => Inv'
  BY NextSkips, NextExplains
<1>3. Inv => Only
  <2> SUFFICES ASSUME Inv, NEW n \in shown, Report(n) PROVE Free(n)
    BY DEF Free
  <2>1. n \in batch
    BY DEF Report, InTurn
  <2> QED BY <2>1 DEF Explains
<1>4. Inv /\ [FeedNext]_feed => [Only]_feed
  BY <1>3
<1> QED BY <1>1, <1>2, <1>4, PTL DEF FeedSpec, RepeatsExplained

-----------------------------------------------------------------------------
(* The state of the feed.                                                  *)
(* The hits of a sender stand in the order in which they were counted, so  *)
(* that the first ones are the oldest.                                     *)
InOrder(ages) ==
    /\ ages \in Seq(0 .. DedupWindow - 1)
    /\ \A i, j \in DOMAIN ages : i <= j => ages[j] <= ages[i]

(* What Older keeps is what is young enough: were one of the kept ones too *)
(* old, there would be fewer young ones than are kept.                     *)
LEMMA OlderInOrder ==
    ASSUME NEW ages, InOrder(ages) PROVE InOrder(Older(ages))
<1> DEFINE young == {i \in DOMAIN ages : ages[i] + 1 < DedupWindow}
           kept == Cardinality(young)
           gone == Len(ages) - kept
<1>1. /\ ages \in Seq(0 .. DedupWindow - 1) /\ DedupWindow \in Nat \ {0}
      /\ Len(ages) \in Nat /\ DOMAIN ages = 1 .. Len(ages)
      /\ \A i \in 1 .. Len(ages) : ages[i] \in 0 .. DedupWindow - 1
      /\ \A i, j \in 1 .. Len(ages) : i <= j => ages[j] <= ages[i]
  BY HotFeedAssumption DEF InOrder
<1>2. \A k \in Nat : /\ IsFiniteSet(k + 1 .. Len(ages))
                     /\ k <= Len(ages) => Cardinality(k + 1 .. Len(ages)) = Len(ages) - k
  <2> SUFFICES ASSUME NEW k \in Nat
               PROVE  /\ IsFiniteSet(k + 1 .. Len(ages))
                      /\ k <= Len(ages) => Cardinality(k + 1 .. Len(ages)) = Len(ages) - k
    OBVIOUS
  <2>1. k + 1 \in Int /\ Len(ages) \in Int
    BY <1>1
  <2>2. /\ IsFiniteSet(k + 1 .. Len(ages))
        /\ Cardinality(k + 1 .. Len(ages)) =
               IF k + 1 > Len(ages) THEN 0 ELSE Len(ages) - (k + 1) + 1
    BY <2>1, FS_Interval, Zenon
  <2> QED BY <1>1, <2>2
<1>3. ASSUME NEW k \in Nat, k <= Len(ages), young \subseteq k + 1 .. Len(ages)
      PROVE  kept \in Nat /\ kept <= Len(ages) - k
  <2>1. IsFiniteSet(young) /\ kept <= Cardinality(k + 1 .. Len(ages))
    BY <1>2, <1>3, FS_Subset
  <2>2. kept \in Nat
    BY <2>1, FS_CardinalityType
  <2> QED BY <1>2, <1>3, <2>1, <2>2
<1>4. kept \in Nat /\ kept <= Len(ages)
  <2>1. young \subseteq 0 + 1 .. Len(ages)
    BY <1>1
  <2> QED BY <1>1, <1>3, <2>1
<1>5. ASSUME NEW i \in 1 .. kept PROVE ages[gone + i] + 1 < DedupWindow
  <2> SUFFICES ASSUME ~(ages[gone + i] + 1 < DedupWindow) PROVE FALSE
    OBVIOUS
  <2> DEFINE k == gone + i
  <2> HIDE DEF kept
  <2>1. k \in 1 .. Len(ages) /\ k \in Nat /\ i \in Nat /\ i >= 1
    BY <1>1, <1>4
  <2>2. \A j \in young : ~(j <= k)
    <3> SUFFICES ASSUME NEW j \in young, j <= k PROVE FALSE
      OBVIOUS
    <3>1. ages[k] <= ages[j] /\ ages[j] + 1 < DedupWindow /\ j \in 1 .. Len(ages)
      BY <1>1, <2>1
    <3> QED BY <1>1, <2>1, <3>1
  <2>3. young \subseteq k + 1 .. Len(ages)
    BY <1>1, <2>1, <2>2
  <2> HIDE DEF k
  <2>4. kept <= Len(ages) - k
    BY <1>3, <2>1, <2>3
  <2> QED BY <1>1, <1>4, <2>1, <2>4 DEF k
<1>6. Older(ages) = [i \in 1 .. kept |-> ages[gone + i] + 1]
  BY DEF Older
<1> HIDE DEF kept, young
<1>7. \A i \in 1 .. kept :
         /\ gone + i \in 1 .. Len(ages)
         /\ ages[gone + i] + 1 \in 0 .. DedupWindow - 1
  <2> SUFFICES ASSUME NEW i \in 1 .. kept
               PROVE  /\ gone + i \in 1 .. Len(ages)
                      /\ ages[gone + i] + 1 \in 0 .. DedupWindow - 1
    OBVIOUS
  <2>1. gone + i \in 1 .. Len(ages)
    BY <1>1, <1>4
  <2> DEFINE age == ages[gone + i]
  <2>2. age \in 0 .. DedupWindow - 1 /\ age + 1 < DedupWindow
    BY <1>1, <1>5, <2>1
  <2> HIDE DEF age
  <2>3. age + 1 \in 0 .. DedupWindow - 1
    BY <1>1, <2>2
  <2> QED BY <2>1, <2>3 DEF age
<1>8. Older(ages) \in Seq(0 .. DedupWindow - 1) /\ DOMAIN Older(ages) = 1 .. kept
  <2> DEFINE aged(i) == ages[gone + i] + 1
  <2>1. \A i \in 1 .. kept : aged(i) \in 0 .. DedupWindow - 1
    BY <1>7
  <2>2. Older(ages) = [i \in 1 .. kept |-> aged(i)]
    BY <1>6
  <2> HIDE DEF aged
  <2> QED BY <1>4, <2>1, <2>2
<1>9. ASSUME NEW i \in 1 .. kept, NEW j \in 1 .. kept, i <= j
      PROVE  Older(ages)[j] <= Older(ages)[i]
  <2>1. ages[gone + j] <= ages[gone + i]
    BY <1>1, <1>4, <1>7, <1>9
  <2>2. ages[gone + j] \in Nat /\ ages[gone + i] \in Nat
    BY <1>1, <1>7
  <2> QED BY <1>6, <2>1, <2>2
<1> QED BY <1>8, <1>9 DEF InOrder

LEMMA AppendInOrder ==
    ASSUME NEW ages, InOrder(ages) PROVE InOrder(Append(ages, 0))
<1>1. /\ ages \in Seq(0 .. DedupWindow - 1) /\ 0 \in 0 .. DedupWindow - 1
      /\ Len(ages) \in Nat /\ \A i \in 1 .. Len(ages) : ages[i] \in Nat
      /\ \A i, j \in 1 .. Len(ages) : i <= j => ages[j] <= ages[i]
  BY HotFeedAssumption DEF InOrder
<1>2. /\ Append(ages, 0) \in Seq(0 .. DedupWindow - 1)
      /\ DOMAIN Append(ages, 0) = 1 .. Len(ages) + 1
      /\ \A i \in 1 .. Len(ages) + 1 :
            Append(ages, 0)[i] = IF i = Len(ages) + 1 THEN 0 ELSE ages[i]
  BY <1>1
<1>3. ASSUME NEW i \in 1 .. Len(ages) + 1, NEW j \in 1 .. Len(ages) + 1, i <= j
      PROVE  Append(ages, 0)[j] <= Append(ages, 0)[i]
  <2>1. CASE j = Len(ages) + 1
    BY <1>1, <1>2, <2>1
  <2>2. CASE j # Len(ages) + 1
    BY <1>1, <1>2, <1>3, <2>2
  <2> QED BY <2>1, <2>2
<1> QED BY <1>2, <1>3 DEF InOrder

Counted(counts) ==
    /\ DOMAIN counts = Others
    /\ counts = [a \in Others |-> counts[a]]
    /\ \A a \in Others : InOrder(counts[a])

(* The parts of the state that FeedTyped leaves out. *)
FeedRest ==
    /\ Len(stream) <= MaxMessages
    /\ template \in Policies \union {None}
    /\ {policy, inForce} \subseteq Policies \union {DefaultPolicy}
    /\ reported \subseteq Places /\ strayed \subseteq Places
    /\ Counted(hits) /\ Counted(loud)
    /\ phase \in {"idle", "grp", "recent", "report"}
    /\ silence \in BOOLEAN /\ faults \in 0 .. MaxFaults

LEMMA CountedSteps ==
    ASSUME NEW counts, Counted(counts)
    PROVE  /\ \A a : Counted([counts EXCEPT ![a] = Append(@, 0)])
           /\ Counted([a \in Others |-> Older(counts[a])])
<1>1. ASSUME NEW a PROVE Counted([counts EXCEPT ![a] = Append(@, 0)])
  <2> DEFINE new == [counts EXCEPT ![a] = Append(@, 0)]
  <2>1. new = [b \in Others |-> IF b = a THEN Append(counts[b], 0) ELSE counts[b]]
    BY DEF Counted
  <2>2. \A b \in Others : InOrder(new[b])
    BY <2>1, AppendInOrder DEF Counted
  <2> QED BY <2>1, <2>2 DEF Counted
<1>2. Counted([a \in Others |-> Older(counts[a])])
  BY OlderInOrder DEF Counted
<1> QED BY <1>1, <1>2

LEMMA NoneCounted == Counted([a \in Others |-> <<>>])
<1>1. InOrder(<<>>)
  BY DEF InOrder
<1> QED BY <1>1 DEF Counted

LEMMA NextRest ==
    FeedTyped /\ FeedTyped' /\ FeedRest /\ [FeedNext]_feed => FeedRest'
<1> SUFFICES ASSUME FeedTyped, FeedTyped', FeedRest, [FeedNext]_feed PROVE FeedRest'
  OBVIOUS
<1>1. /\ MaxMessages \in Nat /\ MaxFaults \in Nat /\ DefaultPolicy \in Policy
      /\ batch \subseteq Places /\ DOMAIN stream \subseteq Places
  BY HotFeedAssumption DEF FeedTyped, FeedRest, Places
<1> DEFINE Same == UNCHANGED <<stream, template, policy, inForce, reported, strayed, hits,
                               loud>> /\ silence' \in BOOLEAN
<1>2. CASE Same /\ phase' \in {"idle", "grp", "recent", "report"} /\ faults' = faults
  BY <1>2 DEF FeedRest
<1>3. ASSUME Same, phase' \in {"idle", "grp", "recent", "report"},
             faults < MaxFaults, faults' = faults + 1
      PROVE  FeedRest'
  <2>1. faults' \in 0 .. MaxFaults
    BY <1>1, <1>3 DEF FeedRest
  <2> QED BY <1>3, <2>1 DEF FeedRest
<1>4. ASSUME NEW m \in FeedMessages, PublishToFeed(m) PROVE FeedRest'
  <2>1. /\ UNCHANGED <<template, policy, inForce, reported, strayed, hits, loud, silence,
                       phase, faults>>
        /\ stream' = Append(stream, m) /\ Len(stream) < MaxMessages
    BY <1>4 DEF PublishToFeed, memory, feedHistory
  <2>2. Len(stream') <= MaxMessages
    BY <1>1, <2>1 DEF FeedTyped
  <2> QED BY <2>1, <2>2 DEF FeedRest
<1>5. CASE FetchDm
  <2>1. /\ UNCHANGED <<stream, template, policy, reported, hits, loud, silence>>
        /\ inForce' = policy /\ phase' = "grp"
        /\ \/ UNCHANGED <<strayed, faults>>
           \/ /\ faults < MaxFaults /\ faults' = faults + 1
              /\ strayed' = strayed \union Delivery(0) /\ unacked' = unacked \union Delivery(0)
    BY <1>5 DEF FetchDm, Deliver
  <2>2. Of("dm")' \subseteq Places
    BY <1>1, <2>1 DEF Of
  <2>3. strayed' \subseteq Places /\ faults' \in 0 .. MaxFaults
    BY <1>1, <2>1, <2>2 DEF FeedRest, FeedTyped
  <2> QED BY <2>1, <2>3 DEF FeedRest
<1>6. CASE FetchGrp \/ GetRecent \/ LookAtRecent
  <2>1. Same /\ phase' \in {"idle", "grp", "recent", "report"}
    BY <1>6 DEF FetchGrp, GetRecent, LookAtRecent, server, memory, FeedRest
  <2>2. faults' = faults \/ (faults < MaxFaults /\ faults' = faults + 1)
    BY <1>6 DEF FetchGrp, GetRecent, LookAtRecent, Saved
  <2> QED BY <1>2, <1>3, <2>1, <2>2
<1>7. ASSUME NEW n \in batch, Report(n) PROVE FeedRest'
  <2>1. /\ UNCHANGED <<stream, template, policy, inForce, strayed, silence, faults, phase>>
        /\ reported' = reported \union {n}
        /\ \/ UNCHANGED hits
           \/ hits' = [hits EXCEPT ![stream[n].from] = Append(@, 0)]
        /\ \/ UNCHANGED loud
           \/ loud' = [loud EXCEPT ![stream[n].from] = Append(@, 0)]
    <3>1. /\ UNCHANGED <<stream, template, policy, inForce, strayed, silence, faults, phase>>
          /\ reported' = reported \union {n}
      BY <1>7, Zenon DEF Report, server
    <3>2. UNCHANGED hits \/ Hit(stream[n].from, Stage(stream[n]))
      BY <1>7, Zenon DEF Report
    <3>3. UNCHANGED loud \/ loud' = [loud EXCEPT ![stream[n].from] = Append(@, 0)]
      BY <1>7, Zenon DEF Report
    <3> QED BY <3>1, <3>2, <3>3 DEF Hit
  <2>2. Counted(hits') /\ Counted(loud')
    <3>1. Counted(hits) /\ Counted(loud)
      BY DEF FeedRest
    <3>2. \A a : /\ Counted([hits EXCEPT ![a] = Append(@, 0)])
                 /\ Counted([loud EXCEPT ![a] = Append(@, 0)])
      BY <3>1, CountedSteps
    <3>3. /\ hits' = hits \/ \E a : hits' = [hits EXCEPT ![a] = Append(@, 0)]
          /\ loud' = loud \/ \E a : loud' = [loud EXCEPT ![a] = Append(@, 0)]
      BY <2>1
    <3> QED BY <3>1, <3>2, <3>3
  <2>3. reported' \subseteq Places
    BY <1>1, <2>1 DEF FeedRest
  <2> QED BY <2>1, <2>2, <2>3 DEF FeedRest, Counted, Places, InOrder
<1>8. ASSUME NEW n \in batch, Skip(n) PROVE FeedRest'
  BY <1>2, <1>8 DEF Skip, InTurn, server, memory, feedHistory, FeedRest
<1>9. ASSUME NEW n \in 1 .. MaxMessages, MarkRead(n) PROVE FeedRest'
  <2>1. /\ UNCHANGED <<stream, template, policy, inForce, strayed, silence, faults, phase,
                       hits, loud>>
        /\ reported' = reported \union {n}
    BY <1>9 DEF MarkRead, server
  <2> QED BY <2>1 DEF FeedRest, Places
<1>10. ASSUME NEW p \in Policies, UpdatePolicy(p) PROVE FeedRest'
  <2>1. /\ UNCHANGED <<stream, inForce, reported, strayed, silence, faults, phase, hits, loud>>
        /\ template' = p /\ policy' \in {p, policy}
    BY <1>10 DEF UpdatePolicy, feedHistory
  <2> QED BY <2>1 DEF FeedRest
<1>11. CASE FeedTick
  <2>1. /\ UNCHANGED <<stream, template, policy, inForce, reported, strayed, faults, phase>>
        /\ hits' = [a \in Others |-> Older(hits[a])]
        /\ loud' = [a \in Others |-> Older(loud[a])]
        /\ silence' \in BOOLEAN
    BY <1>11 DEF FeedTick, server, FeedRest
  <2>2. Counted(hits') /\ Counted(loud')
    BY <2>1, CountedSteps DEF FeedRest
  <2> QED BY <2>1, <2>2 DEF FeedRest
<1>12. CASE Restart
  <2>1. /\ UNCHANGED <<stream, template, reported>> /\ silence' = FALSE
        /\ policy' \in {DefaultPolicy, IF template = None THEN DefaultPolicy ELSE template}
        /\ inForce' = DefaultPolicy /\ phase' = "idle" /\ strayed' = strayed \union batch
        /\ faults < MaxFaults /\ faults' = faults + 1
        /\ hits' = [a \in Others |-> <<>>] /\ loud' = [a \in Others |-> <<>>]
    BY <1>12 DEF Restart
  <2>2. policy' \in Policies \union {DefaultPolicy}
    BY <2>1 DEF FeedRest
  <2>3. strayed' \subseteq Places /\ faults' \in 0 .. MaxFaults
    BY <1>1, <2>1 DEF FeedRest
  <2>4. Counted(hits') /\ Counted(loud')
    BY <2>1, NoneCounted
  <2> QED BY <2>1, <2>2, <2>3, <2>4 DEF FeedRest
<1>13. CASE EndCheck
  <2>1. /\ UNCHANGED <<stream, template, policy, reported, strayed, hits, loud, faults>>
        /\ inForce' = DefaultPolicy /\ silence' = FALSE /\ phase' = "idle"
    BY <1>13 DEF EndCheck, server, feedHistory
  <2> QED BY <2>1 DEF FeedRest
<1>14. CASE UNCHANGED feed
  BY <1>2, <1>14 DEF feed, server, memory, feedHistory, FeedRest
<1> QED BY <1>4, <1>5, <1>6, <1>7, <1>8, <1>9, <1>10, <1>11, <1>12, <1>13, <1>14
         DEF FeedNext

(* The server, the memory and the history of the feed, for any stream,     *)
(* policies and bounds; no counted hit is older than the window.           *)
THEOREM FeedTypeCorrect == FeedSpec => []FeedTypeOK
<1> DEFINE Inv == FeedTyped /\ NothingSkipped /\ Explains /\ FeedRest
<1>1. FeedInit => Inv
  <2> SUFFICES ASSUME FeedInit PROVE Explains /\ FeedRest
    BY InitSkips
  <2>1. Explains
    BY InitExplains
  <2>2. Counted(hits) /\ Counted(loud)
    BY NoneCounted DEF FeedInit
  <2>3. /\ stream = <<>> /\ template = None /\ policy = DefaultPolicy
        /\ inForce = DefaultPolicy
        /\ reported = {} /\ strayed = {} /\ phase = "idle" /\ silence \in BOOLEAN
        /\ faults = 0
    BY DEF FeedInit
  <2>4. Len(stream) <= MaxMessages /\ 0 \in 0 .. MaxFaults
    BY <2>3, HotFeedAssumption
  <2> QED BY <2>1, <2>2, <2>3, <2>4 DEF FeedRest
<1>2. Inv /\ [FeedNext]_feed => Inv'
  BY NextSkips, NextExplains, NextRest
<1>3. Inv => FeedTypeOK
  <2> SUFFICES ASSUME Inv PROVE FeedTypeOK
    OBVIOUS
  <2>1. /\ Len(stream) \in Nat /\ Len(stream) <= MaxMessages /\ MaxMessages \in Nat
        /\ DOMAIN stream = 1 .. Len(stream)
    BY HotFeedAssumption DEF FeedTyped, FeedRest
  <2>2. /\ next \in 0 .. MaxMessages /\ cursor \in 0 .. MaxMessages
        /\ cursorFile \in 0 .. cursor /\ furthest \in cursor .. MaxMessages
    BY <2>1 DEF FeedTyped
  <2>3. unacked \subseteq Places /\ batch \subseteq Places /\ known \subseteq Places
    BY <2>1 DEF FeedTyped, Of, FeedRest, Places
  <2>4. /\ hits \in [Others -> Seq(0 .. DedupWindow - 1)]
        /\ loud \in [Others -> Seq(0 .. DedupWindow - 1)]
    BY DEF FeedRest, Counted, InOrder
  <2>5. shown \subseteq Places /\ unsaved \in 0 .. MaxMessages
    BY <2>1 DEF Explains, Places
  <2> QED BY <2>2, <2>3, <2>4, <2>5 DEF FeedTypeOK, FeedTyped, FeedRest, Places
<1> QED BY <1>1, <1>2, <1>3, PTL DEF FeedSpec

=============================================================================
