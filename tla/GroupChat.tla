----------------------------- MODULE GroupChat ------------------------------
(***************************************************************************)
(* Agents in one group: each hears what the others and the people of the   *)
(* group publish, decides with its hot window whether to answer            *)
(* (_handle_message), and answers from a task of its own per message       *)
(* (_grp_direct_route, main.py:1473-1521), which calls the adapter, passes *)
(* the reply cooldown and publishes.  The tasks of an agent interleave     *)
(* where they await: the adapter call and the publication.                 *)
(*                                                                         *)
(* The replies mention nobody of themselves; the code puts a mention of    *)
(* the sender in front of a reply that is given outside the hot window.    *)
(***************************************************************************)
EXTENDS GroupWindow, Sequences, FiniteSets

CONSTANTS
    Agents,       \* the agents of the group
    Person,       \* the people of the group
    Slots,        \* bound: the tasks of an agent at the same time
    MaxPrompts    \* bound: messages of people

ASSUME ChatAssumption ==
    Person \notin Agents /\ MaxPrompts \in Nat /\ IsFiniteSet(Slots)

VARIABLES
    window,     \* the hot window of each agent
    inbox,      \* the messages on their way to each agent
    task,       \* the tasks of each agent
    slow,       \* whether an adapter call may outlast the hot window
    prompts,    \* counter for the bound
    routed,     \* history: unmentioned messages routed since the last reopening
    missed,     \* history: a message was not routed since then
    reopened,   \* history: ticks since then, up to Window
    debt        \* history: cooldowns of the replies published, less the time passed

history == <<routed, missed, reopened, debt>>
vars == <<window, inbox, task, slow, prompts, history>>

Message(from, mentions, operational) ==
    [from |-> from, mentions |-> mentions, operational |-> operational]

Messages == [from : Agents \cup {Person}, mentions : SUBSET Agents,
             operational : BOOLEAN]

(* A task: its stage, whom it answers, its age and what it will mention. *)
Stages == {"none", "calling", "sending", "resending"}
Tasks == [stage : Stages, to : Agents \cup {Person}, age : 0 .. Window,
          mentions : SUBSET Agents]
NoTask == [stage |-> "none", to |-> Person, age |-> 0, mentions |-> {}]

Init ==
    /\ window = [a \in Agents |-> NewWindow]
    /\ inbox = [a \in Agents |-> <<>>]
    /\ task = [a \in Agents |-> [s \in Slots |-> NoTask]]
    /\ slow \in BOOLEAN
    /\ prompts = 0
    /\ routed = [a \in Agents |-> 0]
    /\ missed = [a \in Agents |-> FALSE]
    /\ reopened = [a \in Agents |-> Window]
    /\ debt = [a \in Agents |-> 0]

-----------------------------------------------------------------------------

(* An agent ignores its own messages (main.py:1263). *)
Publish(message) ==
    inbox' = [b \in Agents |-> IF b = message.from THEN inbox[b]
                               ELSE Append(inbox[b], message)]

SetTask(a, s, t) == task' = [task EXCEPT ![a][s] = t]

Prompt(mentions, operational) ==
    /\ prompts < MaxPrompts
    /\ prompts' = prompts + 1
    /\ Publish(Message(Person, mentions, operational))
    /\ UNCHANGED <<window, task, slow, history>>

(* The handler of a group message, which does not await. *)
Hear(a) ==
    /\ inbox[a] # <<>>
    /\ inbox' = [inbox EXCEPT ![a] = Tail(@)]
    /\ LET message == Head(inbox[a])
           result == Admit(a, window[a], message)
           reopens == Reopens(a, message)
           unasked == a \notin message.mentions
           before == IF reopens THEN 0 ELSE routed[a]
       IN  /\ window' = [window EXCEPT ![a] = result.window]
           /\ IF result.routed
              THEN \E s \in Slots :
                      /\ task[a][s].stage = "none"
                      /\ SetTask(a, s, [NoTask EXCEPT !.stage = "calling",
                                                      !.to = message.from])
              ELSE UNCHANGED task
           /\ routed' = [routed EXCEPT ![a] =
                            IF result.routed /\ unasked THEN before + 1 ELSE before]
           /\ missed' = [missed EXCEPT ![a] =
                            \/ @ /\ ~reopens
                            \/ ~result.routed /\ ~message.operational]
           /\ reopened' = [reopened EXCEPT ![a] = IF reopens THEN 0 ELSE @]
    /\ UNCHANGED <<slow, prompts, debt>>

(* The adapter answers nothing, its call ends with an error, or its reply  *)
(* only confirms a confirmation (_is_confirm_loop).                        *)
CallFails(a, s) ==
    /\ task[a][s].stage = "calling"
    /\ SetTask(a, s, NoTask)
    /\ UNCHANGED <<window, inbox, slow, prompts, history>>

(* Fault: the cooldown starts only when the reply has been published. *)
ReplyUnmarked(a, s) ==
    /\ task[a][s].stage = "calling"
    /\ window[a].sinceReply >= ReplyCooldown
    /\ SetTask(a, s, [task[a][s] EXCEPT !.stage = "sending"])
    /\ UNCHANGED <<window, inbox, slow, prompts, history>>

(* Fault: the mention is put in front of the replies inside the window. *)
ReplyMentionsWhenHot(a, s) ==
    /\ task[a][s].stage = "calling"
    /\ window[a].sinceReply >= ReplyCooldown
    /\ window' = [window EXCEPT ![a].sinceReply = 0]
    /\ SetTask(a, s, [task[a][s] EXCEPT
                          !.stage = "sending",
                          !.mentions = IF window[a].active /\ window[a].idle < Window
                                       THEN {task[a][s].to} \cap Agents ELSE {}])
    /\ UNCHANGED <<inbox, slow, prompts, history>>

(* The cooldown has passed: the reply will be published.  Outside the hot  *)
(* window it mentions the sender.                                          *)
ReplyPasses(a, s) ==
    /\ task[a][s].stage = "calling"
    /\ window[a].sinceReply >= ReplyCooldown
    /\ window' = [window EXCEPT ![a].sinceReply = 0]
    /\ SetTask(a, s, [task[a][s] EXCEPT
                          !.stage = "sending",
                          !.mentions = IF window[a].active /\ window[a].idle < Window
                                       THEN {} ELSE {task[a][s].to} \cap Agents])
    /\ UNCHANGED <<inbox, slow, prompts, history>>

(* A reply within the cooldown is dropped. *)
ReplyTooSoon(a, s) ==
    /\ task[a][s].stage = "calling"
    /\ window[a].sinceReply < ReplyCooldown
    /\ SetTask(a, s, NoTask)
    /\ UNCHANGED <<window, inbox, slow, prompts, history>>

(* send_grp succeeds; only the first attempt touches the window. *)
Send(a, s) ==
    /\ task[a][s].stage \in {"sending", "resending"}
    /\ \E operational \in BOOLEAN :
          Publish(Message(a, task[a][s].mentions, operational))
    /\ SetTask(a, s, NoTask)
    /\ window' = IF task[a][s].stage = "sending"
                 THEN [window EXCEPT ![a] = Touch(@)] ELSE window
    /\ debt' = [debt EXCEPT ![a] = @ + ReplyCooldown]
    /\ UNCHANGED <<slow, prompts, routed, missed, reopened>>

(* The content check refuses the reply; a shortened one is tried. *)
SendRefused(a, s) ==
    /\ task[a][s].stage = "sending"
    /\ SetTask(a, s, [task[a][s] EXCEPT !.stage = "resending"])
    /\ UNCHANGED <<window, inbox, slow, prompts, history>>

(* Any other exception is logged; the cooldown stays. *)
SendFails(a, s) ==
    /\ task[a][s].stage \in {"sending", "resending"}
    /\ SetTask(a, s, NoTask)
    /\ UNCHANGED <<window, inbox, slow, prompts, history>>

(* The longest adapter call, in ticks. *)
Patience == IF slow THEN Window ELSE Window - 1

(* Time passes for every agent, as long as no adapter call is overdue. *)
Tick ==
    /\ \A a \in Agents, s \in Slots :
          task[a][s].stage = "calling" => task[a][s].age < Patience
    /\ window' = [a \in Agents |-> LaterWindow(window[a])]
    /\ task' = [a \in Agents |-> [s \in Slots |->
                  IF task[a][s].stage = "calling"
                  THEN [task[a][s] EXCEPT !.age = @ + 1] ELSE task[a][s]]]
    /\ reopened' = [a \in Agents |-> IF reopened[a] < Window THEN reopened[a] + 1
                                     ELSE Window]
    /\ debt' = [a \in Agents |-> IF debt[a] > 0 THEN debt[a] - 1 ELSE 0]
    /\ UNCHANGED <<inbox, slow, prompts, routed, missed>>

TaskStep(a, s) ==
    \/ CallFails(a, s) \/ ReplyPasses(a, s) \/ ReplyTooSoon(a, s)
    \/ Send(a, s) \/ SendRefused(a, s) \/ SendFails(a, s)

Next ==
    \/ \E mentions \in SUBSET Agents, operational \in BOOLEAN :
          Prompt(mentions, operational)
    \/ \E a \in Agents : Hear(a) \/ \E s \in Slots : TaskStep(a, s)
    \/ Tick

Spec == Init /\ [][Next]_vars

(* Messages are delivered, adapter calls and publications end. *)
FairSpec ==
    /\ Spec
    /\ \A a \in Agents : WF_vars(Hear(a))
    /\ \A a \in Agents, s \in Slots : WF_vars(TaskStep(a, s))

-----------------------------------------------------------------------------

(* The types of the variables. *)
TypeOK ==
    /\ window \in [Agents -> Windows]
    /\ inbox \in [Agents -> Seq(Messages)]
    /\ task \in [Agents -> [Slots -> Tasks]]
    /\ slow \in BOOLEAN
    /\ prompts \in 0 .. MaxPrompts
    /\ routed \in [Agents -> Nat]
    /\ missed \in [Agents -> BOOLEAN]
    /\ reopened \in [Agents -> 0 .. Window]
    /\ debt \in [Agents -> Nat]

(* main.py:510 and 1425-1428: between two mentions an agent takes part in  *)
(* the chat at most three times unasked, twice by its counter and once by  *)
(* grace, in whatever order messages, pauses, late replies and the end of  *)
(* the window come.                                                        *)
BudgetKept == \A a \in Agents : routed[a] <= 3

(* main.py:1416-1425: after a mention two messages are heard: as long as   *)
(* the window is open, a message of substance is not routed only because   *)
(* two have been.  Operational messages and the agent's own late replies   *)
(* do not use the window up.                                               *)
HeardAfterMention ==
    \A a \in Agents :
        missed[a] /\ reopened[a] < Window => routed[a] >= 2

(* main.py:1486-1508: the cooldown is taken before the reply is published, *)
(* which waits for a send that may be buffered or tried again, so two      *)
(* replies may be published back to back.  But over no stretch of time     *)
(* does an agent publish more than a reply for every cooldown that passes, *)
(* one, and one for each task it runs at the same time: every reply pays a *)
(* cooldown, and what is not paid yet stays bounded.                       *)
RepliesThrottled ==
    \A a \in Agents : debt[a] <= ReplyCooldown * (Cardinality(Slots) + 1)

Silence ==
    \A a \in Agents : inbox[a] = <<>> /\ \A s \in Slots : task[a][s].stage = "none"

(* main.py:314 and 510: the counter of the hot window prevents an endless  *)
(* chat of the agents among themselves.  It does where no adapter call     *)
(* outlasts the hot window.                                                *)
PromptChatEnds == ~slow => <>[]Silence

(* The same of every agent: once the people are silent the agents become   *)
(* silent too.                                                             *)
ChatEnds == <>[]Silence

=============================================================================
