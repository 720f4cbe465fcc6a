-------------------------- MODULE AimClientProofs ---------------------------
(***************************************************************************)
(* The types and the safety properties of AimClient, for any messages, any *)
(* capacity, thresholds and number of restarts.  The proofs rest on two    *)
(* strengthenings: RepliedOnce for the answers and UnsettledIsDurable for  *)
(* what a restart brings back.  Each starts from a lemma that sorts the    *)
(* actions by what they do to the variables concerned.                     *)
(***************************************************************************)
EXTENDS AimClient, OperatorLemmas, SequenceTheorems

(* What an acknowledgement does to the durable messages: it removes one    *)
(* occurrence of m and keeps every other message.                          *)
LEMMA WithoutKeepsOthers ==
    ASSUME NEW S, NEW s \in Seq(S), NEW m
    PROVE  /\ Without(s, m) \in Seq(S)
           /\ \A x \in ToSet(s) : x # m => x \in ToSet(Without(s, m))
<1>1. CASE m \notin ToSet(s)
  BY <1>1 DEF Without
<1>2. CASE m \in ToSet(s)
  <2> DEFINE i == CHOOSE j \in DOMAIN s : s[j] = m
             t == Without(s, m)
  <2>1. i \in 1 .. Len(s) /\ s[i] = m
    BY <1>2, LenProperties DEF ToSet
  <2>2. t = SubSeq(s, 1, i - 1) \o SubSeq(s, i + 1, Len(s))
    BY <1>2 DEF Without, RemoveAt
  <2> HIDE DEF i, t
  <2> DEFINE before == SubSeq(s, 1, i - 1)
             after == SubSeq(s, i + 1, Len(s))
  <2>3. /\ before \in Seq(S) /\ Len(before) = i - 1
        /\ \A j \in 1 .. i - 1 : before[j] = s[j]
    <3>1. \A j \in 1 .. i - 1 : s[j] \in S
      BY <2>1, ElementOfSeq
    <3>2. i - 1 \in Int
      BY <2>1, LenProperties
    <3> HIDE DEF before
    <3> QED BY <2>1, <3>1, <3>2, SubSeqProperties, LenProperties DEF before
  <2>4. /\ after \in Seq(S) /\ Len(after) = Len(s) - i
        /\ \A j \in 1 .. Len(s) - i : after[j] = s[i + j]
    <3>1. \A j \in i + 1 .. Len(s) : s[j] \in S
      BY <2>1, ElementOfSeq
    <3>2. i + 1 \in Int /\ Len(s) \in Int
      BY <2>1, LenProperties
    <3> QED BY <2>1, <3>1, <3>2, SubSeqProperties, LenProperties
  <2> HIDE DEF before, after
  <2>5. /\ t \in Seq(S) /\ Len(t) = Len(s) - 1
        /\ \A j \in 1 .. i - 1 : t[j] = s[j]
        /\ \A j \in i .. Len(s) - 1 : t[j] = s[j + 1]
    <3>1. t = before \o after
      BY <2>2 DEF before, after
    <3>2. i \in Nat /\ Len(s) \in Nat
      BY <2>1, LenProperties
    <3>3. /\ t \in Seq(S) /\ Len(t) = Len(before) + Len(after)
          /\ \A j \in 1 .. Len(before) + Len(after) :
                t[j] = IF j <= Len(before) THEN before[j] ELSE after[j - Len(before)]
      BY <2>3, <2>4, <3>1, ConcatProperties
    <3>4. Len(before) + Len(after) = Len(s) - 1
      BY <2>3, <2>4, <3>2
    <3>5. t \in Seq(S) /\ Len(t) = Len(s) - 1
      BY <3>3, <3>4
    <3>6. \A j \in 1 .. Len(s) - 1 :
             t[j] = IF j <= i - 1 THEN before[j] ELSE after[j - (i - 1)]
      BY <2>3, <3>3, <3>4
    <3>7. ASSUME NEW j \in i .. Len(s) - 1 PROVE t[j] = s[j + 1]
      <4>1. j \in 1 .. Len(s) - 1 /\ ~(j <= i - 1) /\ j - (i - 1) \in 1 .. Len(s) - i
        BY <2>1, <3>2
      <4>2. t[j] = after[j - (i - 1)] /\ i + (j - (i - 1)) = j + 1
        BY <2>1, <3>2, <3>6, <4>1
      <4> QED BY <2>4, <4>1, <4>2
    <3> QED BY <2>1, <2>3, <3>2, <3>5, <3>6, <3>7
  <2>6. ASSUME NEW x \in ToSet(s), x # m PROVE x \in ToSet(t)
    <3>1. PICK j \in 1 .. Len(s) : s[j] = x
      BY LenProperties DEF ToSet
    <3>2. CASE j < i
      <4>1. j \in DOMAIN t /\ t[j] = x
        BY <2>1, <2>5, <3>1, <3>2
      <4> QED BY <4>1 DEF ToSet
    <3>5. CASE j > i
      <4>1. j - 1 \in DOMAIN t /\ t[j - 1] = x
        BY <2>1, <2>5, <3>1, <3>5
      <4> QED BY <4>1 DEF ToSet
    <3> QED BY <2>1, <2>6, <3>1, <3>2, <3>5
  <2> QED BY <2>5, <2>6 DEF t
<1> QED BY <1>1, <1>2

-----------------------------------------------------------------------------

(* The head of the pending messages is consumed without an adapter call. *)
HeadLeaves ==
    /\ CanDequeue
    /\ pending' = Tail(pending)
    /\ durable' = Without(durable, Head(pending))
    /\ UNCHANGED <<processing, dead, tracking>>

(* The seven ways in which a step changes the queues and the tracking.     *)
LEMMA QueueSteps ==
    ASSUME [Next]_vars
    PROVE  \/ UNCHANGED <<queues, tracking>>
           \/ \E m \in Msgs : Receive(m)
           \/ Restart
           \/ HeadLeaves
           \/ CallAdapter
           \/ Working /\ \E result \in Fates : Settle(result)
           \/ Working /\ PutBack /\ UNCHANGED tracking
<1>1. CASE UNCHANGED vars
  BY <1>1 DEF vars
<1>2. CASE WatchdogDiscards
  BY <1>2 DEF WatchdogDiscards, HeadLeaves, DequeueAndAck
<1>3. CASE SkipInFlight \/ SkipDispatched \/ SkipOperational
  BY <1>3 DEF SkipInFlight, SkipDispatched, SkipOperational, HeadLeaves, DequeueAndAck
<1>4. CASE AdapterIsSilent \/ AdapterFails \/ ReplySent
  BY <1>4 DEF AdapterIsSilent, AdapterFails, ReplySent, Working, Fates
<1>5. CASE AdapterDegrades \/ AdapterIsBroken
  BY <1>5 DEF AdapterDegrades, AdapterIsBroken, Working
<1>6. CASE WaitEnds \/ NoStall \/ WatchdogResets \/ NothingToDispatch
  BY <1>6 DEF WaitEnds, NoStall, WatchdogResets, NothingToDispatch
<1>7. CASE BreakerHolds \/ SleepEnds \/ SlotTaken \/ AdapterReplies
  BY <1>7 DEF BreakerHolds, SleepEnds, SlotTaken, AdapterReplies
<1>8. CASE TrimEnds \/ EmitEnds \/ ReplyRefused \/ SendFails
  BY <1>8 DEF TrimEnds, EmitEnds, ReplyRefused, SendFails
<1>9. CASE \/ \E status \in States : HealthReport(status)
           \/ GroupCallStarts
           \/ \E exit \in Exits : GroupCallEnds(exit)
           \/ Tick
  BY <1>9 DEF HealthReport, GroupCallStarts, GroupCallEnds, Tick
<1> QED
  BY <1>1, <1>2, <1>3, <1>4, <1>5, <1>6, <1>7, <1>8, <1>9 DEF Next, LoopStep

(* The queues hold messages, and the slot one of them or none. *)
LEMMA QueuesType ==
    ASSUME TypeOK, Working => processing # NoMsg, [Next]_vars
    PROVE  QueuesTyped'
<1> USE ClientAssumption DEF TypeOK, QueuesTyped
<1>1. CASE UNCHANGED <<queues, tracking>>
  BY <1>1 DEF queues, tracking
<1>2. ASSUME NEW m \in Msgs, Receive(m) PROVE QueuesTyped'
  <2>1. (IF Full THEN Tail(pending) ELSE pending) \in Seq(Msgs)
    BY CapacityAssumption DEF Full
  <2> QED BY <1>2, <2>1 DEF Receive, Enqueue
<1>3. CASE Restart
  BY <1>3 DEF Restart
<1>4. CASE HeadLeaves
  BY <1>4, WithoutKeepsOthers DEF HeadLeaves, CanDequeue, tracking
<1>5. CASE CallAdapter
  <2>1. Head(pending) \in Msgs /\ Tail(pending) \in Seq(Msgs)
    BY <1>5 DEF CallAdapter, Dequeue, CanDequeue
  <2> QED BY <1>5, <2>1 DEF CallAdapter, Dequeue
<1>6. ASSUME Working, NEW result \in Fates, Settle(result) PROVE QueuesTyped'
  BY <1>6, WithoutKeepsOthers DEF Settle, Ack
<1>7. CASE Working /\ PutBack /\ UNCHANGED tracking
  <2>1. processing \in Msgs
    BY <1>7
  <2>2. PICK late \in BOOLEAN :
            /\ Nack(processing, late)
            /\ durable' = IF late THEN Without(durable, processing) ELSE durable
    BY <1>7 DEF PutBack
  <2>3. /\ pending' \in Seq(Msgs) /\ dead' \in Seq(Msgs)
        /\ processing' = NoMsg
    <3>1. <<processing>> \o pending \in Seq(Msgs) /\ Append(dead, processing) \in Seq(Msgs)
      BY <2>1
    <3> QED BY <2>2, <3>1 DEF Nack
  <2>4. durable' \in Seq(Msgs)
    BY <2>2, WithoutKeepsOthers
  <2> QED BY <1>7, <2>3, <2>4 DEF tracking
<1> QED
  BY <1>1, <1>2, <1>3, <1>4, <1>5, <1>6, <1>7, QueueSteps

(* The loop, the scheduler, the breaker and the counters keep their ranges.*)
LEMMA LoopType ==
    ASSUME TypeOK, [Next]_vars
    PROVE  LoopTyped'
<1> USE ClientAssumption, NewSchedulerType, NewBreakerType, SchedulerOperations,
        UpdateStateType, BreakerOperations, AfterCallType
    DEF TypeOK, LoopTyped, Stages, watchdog
<1>1. CASE UNCHANGED vars
  BY <1>1 DEF vars
<1>2. ASSUME NEW m \in Msgs, Receive(m) PROVE LoopTyped'
  BY <1>2 DEF Receive
<1>3. ASSUME NEW status \in States, HealthReport(status) PROVE LoopTyped'
  BY <1>3 DEF HealthReport
<1>4. CASE GroupCallStarts
  BY <1>4 DEF GroupCallStarts
<1>5. ASSUME NEW exit \in Exits, GroupCallEnds(exit) PROVE LoopTyped'
  BY <1>5 DEF GroupCallEnds
<1>6. CASE Tick
  <2>1. idle' \in 0 .. Stall + 1
    BY <1>6 DEF Tick
  <2>2. brk' \in Breakers
    BY <1>6 DEF Tick
  <2> QED BY <1>6, <2>1, <2>2 DEF Tick
<1>7. CASE Restart
  <2>1. idle' \in 0 .. Stall + 1 /\ recovery' \in 0 .. 2
    BY <1>7 DEF Restart
  <2>2. groupCalls' \in 0 .. MaxGroupCalls /\ restarts' \in 0 .. MaxRestarts
    BY <1>7 DEF Restart
  <2>3. sched' \in Schedulers /\ brk' \in Breakers
    BY <1>7 DEF Restart
  <2> QED BY <1>7, <2>1, <2>2, <2>3 DEF Restart
<1>8. CASE WaitEnds \/ NoStall \/ NothingToDispatch
  BY <1>8 DEF WaitEnds, NoStall, NothingToDispatch
<1>9. CASE WatchdogResets
  BY <1>9 DEF WatchdogResets
<1>10. CASE WatchdogDiscards
  BY <1>10 DEF WatchdogDiscards
<1>11. CASE BreakerHolds \/ SleepEnds
  BY <1>11 DEF BreakerHolds, SleepEnds
<1>12. CASE SlotTaken \/ SkipInFlight \/ SkipDispatched
  BY <1>12 DEF SlotTaken, SkipInFlight, SkipDispatched, LookAtBreaker
<1>13. CASE SkipOperational
  <2>1. OnDispatchStarted(sched) \in Schedulers
    OBVIOUS
  <2>2. OnProcessingDone(OnDispatchStarted(sched)) \in Schedulers
    BY <2>1
  <2> QED BY <1>13, <2>2 DEF SkipOperational, LookAtBreaker
<1>14. CASE CallAdapter
  BY <1>14 DEF CallAdapter, LookAtBreaker
<1>15. CASE AdapterReplies
  BY <1>15 DEF AdapterReplies
<1>16. CASE AdapterIsSilent
  BY <1>16 DEF AdapterIsSilent, Settle
<1>17. CASE AdapterFails
  BY <1>17 DEF AdapterFails, Settle
<1>18. CASE TrimEnds \/ EmitEnds
  BY <1>18 DEF TrimEnds, EmitEnds
<1>19. CASE AdapterDegrades \/ AdapterIsBroken
  BY <1>19 DEF AdapterDegrades, AdapterIsBroken
<1>20. CASE ReplySent
  BY <1>20 DEF ReplySent, Settle
<1>21. CASE ReplyRefused \/ SendFails
  BY <1>21 DEF ReplyRefused, SendFails
<1> HIDE DEF TypeOK, LoopTyped
<1> QED
  BY <1>1, <1>2, <1>3, <1>4, <1>5, <1>6, <1>7, <1>8, <1>9, <1>10, <1>11, <1>12,
     <1>13, <1>14, <1>15, <1>16, <1>17, <1>18, <1>19, <1>20, <1>21 DEF Next, LoopStep

(* The history variables keep their types. *)
LEMMA HistoryType ==
    ASSUME TypeOK, [Next]_vars
    PROVE  HistoryTyped'
<1> USE DEF TypeOK, HistoryTyped, Fates, history
<1>1. CASE UNCHANGED history \/ UNCHANGED vars
  BY <1>1 DEF vars
<1>2. ASSUME NEW m \in Msgs, Receive(m) PROVE HistoryTyped'
  BY <1>2 DEF Receive
<1>3. CASE Restart
  BY <1>3 DEF Restart
<1>4. CASE WatchdogDiscards \/ SkipInFlight \/ SkipOperational
  BY <1>4 DEF WatchdogDiscards, SkipInFlight, SkipOperational, Gone
<1>5. CASE AdapterIsSilent \/ AdapterFails
  BY <1>5 DEF AdapterIsSilent, AdapterFails, Settle
<1>6. CASE AdapterDegrades \/ AdapterIsBroken
  BY <1>6 DEF AdapterDegrades, AdapterIsBroken, PutBack
<1>7. CASE ReplySent \/ SendFails
  <2>1. ASSUME Published PROVE replies' \in [Msgs -> Nat]
    <3>1. replies \in [Msgs -> Nat]
      OBVIOUS
    <3>2. ASSUME NEW m \in Msgs
          PROVE  replies'[m] = IF m = processing THEN replies[m] + 1 ELSE replies[m]
      BY <2>1, <3>1 DEF Published
    <3>3. \A m \in Msgs : replies'[m] \in Nat
      BY <3>1, <3>2
    <3>4. replies' = [m \in Msgs |-> replies'[m]]
      BY <2>1, <3>1 DEF Published
    <3> HIDE DEF TypeOK, HistoryTyped
    <3> QED BY <3>3, <3>4
  <2>2. fate' \in [Msgs -> Fates]
    BY <1>7 DEF ReplySent, SendFails, Settle, Gone
  <2>3. replies' \in [Msgs -> Nat]
    BY <1>7, <2>1 DEF ReplySent, SendFails
  <2> QED BY <1>7, <2>2, <2>3 DEF ReplySent, SendFails
<1>8. CASE \/ \E status \in States : HealthReport(status)
           \/ \E exit \in Exits : GroupCallEnds(exit)
           \/ GroupCallStarts \/ Tick
  BY <1>8 DEF HealthReport, GroupCallStarts, GroupCallEnds, Tick
<1>9. CASE WaitEnds \/ NoStall \/ WatchdogResets \/ NothingToDispatch \/ BreakerHolds
  BY <1>9 DEF WaitEnds, NoStall, WatchdogResets, NothingToDispatch, BreakerHolds
<1>10. CASE SleepEnds \/ SlotTaken \/ SkipDispatched \/ CallAdapter
  BY <1>10 DEF SleepEnds, SlotTaken, SkipDispatched, CallAdapter
<1>11. CASE AdapterReplies \/ TrimEnds \/ EmitEnds \/ ReplyRefused
  BY <1>11 DEF AdapterReplies, TrimEnds, EmitEnds, ReplyRefused
<1> HIDE DEF TypeOK, HistoryTyped
<1> QED
  BY <1>1, <1>2, <1>3, <1>4, <1>5, <1>6, <1>7, <1>8, <1>9, <1>10, <1>11
     DEF Next, LoopStep

(* The loop starts to work by taking a message, and drops the message only *)
(* in the step in which it stops.                                          *)
LEMMA WorkingSteps ==
    ASSUME TypeOK, [Next]_vars, Working'
    PROVE  CallAdapter \/ (Working /\ UNCHANGED processing)
<1> USE DEF Working, queues
<1>1. CASE UNCHANGED vars
  BY <1>1 DEF vars
<1>2. CASE \/ \E status \in States : HealthReport(status)
           \/ \E exit \in Exits : GroupCallEnds(exit)
           \/ GroupCallStarts \/ Tick
  BY <1>2 DEF HealthReport, GroupCallStarts, GroupCallEnds, Tick
<1>3. CASE \E m \in Msgs : Receive(m)
  BY <1>3 DEF Receive, Enqueue
<1>4. CASE Restart \/ WaitEnds \/ NoStall \/ WatchdogResets \/ NothingToDispatch
  BY <1>4 DEF Restart, WaitEnds, NoStall, WatchdogResets, NothingToDispatch
<1>5. CASE WatchdogDiscards \/ BreakerHolds \/ SleepEnds \/ SlotTaken
  BY <1>5 DEF WatchdogDiscards, BreakerHolds, SleepEnds, SlotTaken
<1>6. CASE SkipInFlight \/ SkipDispatched \/ SkipOperational
  BY <1>6 DEF SkipInFlight, SkipDispatched, SkipOperational, LookAtBreaker
<1>7. CASE AdapterIsSilent \/ AdapterFails \/ TrimEnds \/ EmitEnds
  BY <1>7 DEF AdapterIsSilent, AdapterFails, TrimEnds, EmitEnds
<1>8. CASE AdapterDegrades \/ AdapterIsBroken \/ ReplySent \/ SendFails
  BY <1>8 DEF AdapterDegrades, AdapterIsBroken, ReplySent, SendFails
<1>9. CASE AdapterReplies \/ ReplyRefused
  BY <1>9 DEF AdapterReplies, ReplyRefused
<1> QED
  BY <1>1, <1>2, <1>3, <1>4, <1>5, <1>6, <1>7, <1>8, <1>9 DEF Next, LoopStep

(* TypeOK is inductive together with: a loop that works has a message. *)
Typing == TypeOK /\ (Working => processing # NoMsg)

(* The types hold in the initial state. *)
LEMMA InitTyping == Init => Typing
<1> SUFFICES ASSUME Init PROVE Typing
  OBVIOUS
<1> USE ClientAssumption DEF Init
<1>1. QueuesTyped
  BY DEF QueuesTyped, QueueInit
<1>2. LoopTyped
  <2>1. idle \in 0 .. Stall + 1 /\ recovery \in 0 .. 2
    OBVIOUS
  <2>2. groupCalls \in 0 .. MaxGroupCalls /\ restarts \in 0 .. MaxRestarts
    OBVIOUS
  <2>3. sched \in Schedulers /\ brk \in Breakers
    BY NewSchedulerType, NewBreakerType
  <2>4. event \in BOOLEAN /\ exit2Recent \in BOOLEAN /\ pc \in Stages
    BY DEF Stages
  <2> QED BY <2>1, <2>2, <2>3, <2>4 DEF LoopTyped
<1>3. HistoryTyped
  BY DEF HistoryTyped, Fates
<1> QED BY <1>1, <1>2, <1>3 DEF Typing, TypeOK, Working

(* The types survive every step. *)
LEMMA NextTyping == Typing /\ [Next]_vars => Typing'
<1> SUFFICES ASSUME Typing, [Next]_vars PROVE Typing'
  OBVIOUS
<1>1. TypeOK'
  BY QueuesType, LoopType, HistoryType DEF Typing, TypeOK
<1>2. ASSUME Working' PROVE processing' # NoMsg
  <2>1. CASE CallAdapter
    BY <2>1, ClientAssumption
       DEF CallAdapter, Dequeue, CanDequeue, Typing, TypeOK, QueuesTyped
  <2>2. CASE Working /\ UNCHANGED processing
    BY <2>2 DEF Typing
  <2> QED BY <1>2, <2>1, <2>2, WorkingSteps DEF Typing
<1> QED BY <1>1, <1>2 DEF Typing

(* The queues, the loop and the scheduler of main.py stay in their types,  *)
(* whatever the adapters answer and however many messages there are.       *)
THEOREM TypeCorrect == Spec => []TypeOK
<1>1. Spec => []Typing
  BY InitTyping, NextTyping, PTL DEF Spec
<1>2. Typing => TypeOK
  BY DEF Typing
<1> QED BY <1>1, <1>2, PTL

-----------------------------------------------------------------------------
(* At most one reply *)

(* Why a message is not answered twice: an answered message is in          *)
(* _dispatched_ids or, when its sending failed, blocks the slot; the loop  *)
(* never works on a message that is in _dispatched_ids.                    *)
RepliedOnce ==
    /\ AtMostOneReply
    /\ Working => processing \notin dispatched
    /\ \A m \in Msgs : replies[m] > 0 =>
          m \in dispatched \/ (~Working /\ processing = m)

(* Replies are counted by the two ends of a sending only. *)
LEMMA ReplySteps ==
    ASSUME [Next]_vars
    PROVE  UNCHANGED replies \/ Restart \/ ReplySent \/ SendFails
<1> USE DEF history
<1>1. CASE UNCHANGED vars
  BY <1>1 DEF vars
<1>2. CASE \/ \E m \in Msgs : Receive(m)
           \/ \E status \in States : HealthReport(status)
           \/ \E exit \in Exits : GroupCallEnds(exit)
           \/ GroupCallStarts \/ Tick
  BY <1>2 DEF Receive, HealthReport, GroupCallStarts, GroupCallEnds, Tick
<1>3. CASE WaitEnds \/ NoStall \/ WatchdogResets \/ WatchdogDiscards \/ NothingToDispatch
  BY <1>3 DEF WaitEnds, NoStall, WatchdogResets, WatchdogDiscards, NothingToDispatch
<1>4. CASE BreakerHolds \/ SleepEnds \/ SlotTaken \/ SkipInFlight \/ SkipDispatched
  BY <1>4 DEF BreakerHolds, SleepEnds, SlotTaken, SkipInFlight, SkipDispatched
<1>5. CASE SkipOperational \/ CallAdapter \/ AdapterReplies \/ AdapterIsSilent
  BY <1>5 DEF SkipOperational, CallAdapter, AdapterReplies, AdapterIsSilent
<1>6. CASE AdapterFails \/ TrimEnds \/ AdapterDegrades \/ AdapterIsBroken
  BY <1>6 DEF AdapterFails, TrimEnds, AdapterDegrades, AdapterIsBroken
<1>7. CASE EmitEnds \/ ReplyRefused
  BY <1>7 DEF EmitEnds, ReplyRefused
<1> QED
  BY <1>1, <1>2, <1>3, <1>4, <1>5, <1>6, <1>7 DEF Next, LoopStep

(* Outside a restart _dispatched_ids only grows. *)
LEMMA DispatchedGrows ==
    ASSUME Typing, [Next]_vars, ~Restart
    PROVE  dispatched \subseteq dispatched'
BY QueueSteps DEF Receive, HeadLeaves, CallAdapter, Settle, tracking

(* A loop that works goes on with the same message, which is not in        *)
(* _dispatched_ids, or has just taken one that is not.                     *)
LEMMA WorksOnFreshMessage ==
    ASSUME Typing, Working => processing \notin dispatched, [Next]_vars, Working'
    PROVE  processing' \notin dispatched'
<1>1. CASE CallAdapter
  BY <1>1 DEF CallAdapter, Fresh, Dequeue
<1>2. CASE Working /\ UNCHANGED processing
  <2>1. processing \in Msgs
    BY <1>2 DEF Typing, TypeOK, QueuesTyped
  <2>2. ~CanDequeue
    BY <1>2 DEF Typing, CanDequeue
  <2>3. ~(\E result \in Fates : Settle(result)) /\ ~PutBack
    BY <1>2, <2>1, ClientAssumption DEF Settle, Ack, PutBack, Nack
  <2>4. ~Restart
    BY DEF Restart, Working
  <2>5. dispatched' = dispatched
    BY <2>2, <2>3, <2>4, QueueSteps
       DEF Receive, HeadLeaves, CallAdapter, Dequeue, tracking
  <2> QED BY <1>2, <2>5
<1> QED BY <1>1, <1>2, WorkingSteps DEF Typing

(* While the loop does not work, the slot keeps its message. *)
LEMMA SlotIsKept ==
    ASSUME Typing, [Next]_vars, ~Restart, ~Working, processing # NoMsg
    PROVE  UNCHANGED processing /\ ~Working'
<1>1. ~CanDequeue
  BY DEF CanDequeue
<1>2. UNCHANGED processing
  BY <1>1, QueueSteps
     DEF Receive, Enqueue, HeadLeaves, CallAdapter, Dequeue, queues
<1>3. ~Working'
  BY <1>1, WorkingSteps DEF CallAdapter, Dequeue, Typing
<1> QED BY <1>2, <1>3

(* No step answers a message a second time. *)
LEMMA NextRepliedOnce == Typing /\ RepliedOnce /\ [Next]_vars => RepliedOnce'
<1> SUFFICES ASSUME Typing, RepliedOnce, [Next]_vars PROVE RepliedOnce'
  OBVIOUS
<1>0. replies \in [Msgs -> Nat] /\ processing \in Msgs \cup {NoMsg}
  BY DEF Typing, TypeOK, HistoryTyped, QueuesTyped
<1>1. Working' => processing' \notin dispatched'
  BY WorksOnFreshMessage DEF RepliedOnce
<1>2. CASE Restart
  BY <1>1, <1>2 DEF Restart, RepliedOnce, AtMostOneReply, Working
<1>3. CASE (ReplySent \/ SendFails) /\ ~Restart
  <2>1. Working /\ ~Working' /\ processing \in Msgs
    BY <1>0, <1>3 DEF ReplySent, SendFails, Working, Typing
  <2>2. replies[processing] = 0
    BY <1>0, <2>1 DEF RepliedOnce
  <2>3. \A m \in Msgs : m # processing => replies'[m] = replies[m]
    BY <1>0, <1>3 DEF ReplySent, SendFails, Published
  <2>4. replies'[processing] \in {0, 1}
    BY <1>0, <1>3, <2>1, <2>2 DEF ReplySent, SendFails, Published
  <2>5. processing \in dispatched' \/ processing' = processing
    BY <1>3 DEF ReplySent, SendFails, Settle, queues
  <2>6. dispatched \subseteq dispatched'
    BY <1>3, DispatchedGrows
  <2>7. AtMostOneReply'
    BY <1>0, <2>1, <2>3, <2>4 DEF RepliedOnce, AtMostOneReply
  <2>8. ASSUME NEW m \in Msgs, replies'[m] > 0
        PROVE  m \in dispatched' \/ (~Working' /\ processing' = m)
    <3>1. CASE m = processing
      BY <2>1, <2>5, <3>1
    <3>2. CASE m # processing
      BY <2>1, <2>3, <2>6, <2>8, <3>2 DEF RepliedOnce
    <3> QED BY <3>1, <3>2
  <2> QED BY <1>1, <2>7, <2>8 DEF RepliedOnce
<1>4. CASE UNCHANGED replies /\ ~Restart
  <2>1. AtMostOneReply'
    BY <1>4 DEF RepliedOnce, AtMostOneReply
  <2>2. ASSUME NEW m \in Msgs, replies'[m] > 0
        PROVE  m \in dispatched' \/ (~Working' /\ processing' = m)
    <3>1. CASE m \in dispatched
      BY <1>4, <3>1, DispatchedGrows
    <3>2. CASE ~Working /\ processing = m
      BY <1>4, <3>2, SlotIsKept, ClientAssumption
    <3> QED BY <1>4, <2>2, <3>1, <3>2 DEF RepliedOnce
  <2> QED BY <1>1, <2>1, <2>2 DEF RepliedOnce
<1> QED BY <1>2, <1>3, <1>4, ReplySteps

(* A message is answered at most once in one lifetime of the process,      *)
(* although it may be queued twice, put back, or handled while the         *)
(* watchdog forces the scheduler to IDLE (main.py:613-625).                *)
THEOREM OneReply == Spec => []AtMostOneReply
<1>1. Init => RepliedOnce
  BY DEF Init, RepliedOnce, AtMostOneReply, Working
<1>2. RepliedOnce => AtMostOneReply
  BY DEF RepliedOnce
<1> QED
  BY InitTyping, NextTyping, NextRepliedOnce, <1>1, <1>2, PTL DEF Spec

-----------------------------------------------------------------------------
(* The scheduler, the slot and the event *)

(* A scheduler that is BUSY after a step was BUSY before, or a message has *)
(* just been taken into the slot.                                          *)
LEMMA BusySteps ==
    ASSUME TypeOK, [Next]_vars, sched'.state = "BUSY"
    PROVE  CallAdapter \/ (sched.state = "BUSY" /\ UNCHANGED processing)
<1> USE DEF queues
<1>0. sched \in Schedulers
  BY DEF TypeOK, LoopTyped
<1>1. CASE UNCHANGED vars
  BY <1>1 DEF vars
<1>2. ASSUME NEW m \in Msgs, Receive(m)
      PROVE  sched.state = "BUSY" /\ UNCHANGED processing
  BY <1>2 DEF Receive, Enqueue
<1>3. ASSUME NEW status \in States, HealthReport(status)
      PROVE  sched.state = "BUSY" /\ UNCHANGED processing
  BY <1>0, <1>3, UpdateStateType DEF HealthReport
<1>4. CASE GroupCallStarts \/ (\E exit \in Exits : GroupCallEnds(exit)) \/ Tick
  BY <1>4 DEF GroupCallStarts, GroupCallEnds, Tick
<1>5. ~Restart
  BY NewSchedulerType DEF Restart
<1>6. ~WatchdogResets
  BY <1>0, SchedulerOperations DEF WatchdogResets
<1>7. CASE WatchdogDiscards
  BY <1>7 DEF WatchdogDiscards, DequeueAndAck
<1>8. CASE WaitEnds \/ NoStall \/ NothingToDispatch \/ BreakerHolds \/ SleepEnds
  BY <1>8 DEF WaitEnds, NoStall, NothingToDispatch, BreakerHolds, SleepEnds
<1>9. CASE SlotTaken \/ SkipInFlight \/ SkipDispatched
  BY <1>9 DEF SlotTaken, SkipInFlight, SkipDispatched, DequeueAndAck
<1>10. ~SkipOperational
  <2>1. OnDispatchStarted(sched) \in Schedulers
    BY <1>0, SchedulerOperations
  <2>2. OnProcessingDone(OnDispatchStarted(sched)).state = "IDLE"
    BY <2>1, SchedulerOperations
  <2> QED BY <2>2 DEF SkipOperational
<1>11. CASE AdapterReplies \/ TrimEnds \/ EmitEnds \/ ReplyRefused \/ SendFails
  BY <1>11 DEF AdapterReplies, TrimEnds, EmitEnds, ReplyRefused, SendFails
<1>12. ~(AdapterIsSilent \/ AdapterFails \/ ReplySent)
  BY <1>0, SchedulerOperations DEF AdapterIsSilent, AdapterFails, ReplySent, Settle
<1>13. ~(AdapterDegrades \/ AdapterIsBroken)
  BY <1>0, SchedulerOperations DEF AdapterDegrades, AdapterIsBroken
<1> QED
  BY <1>1, <1>2, <1>3, <1>4, <1>5, <1>6, <1>7, <1>8, <1>9, <1>10, <1>11, <1>12, <1>13
     DEF Next, LoopStep

(* The scheduler is BUSY only over a message in the slot, on all paths of  *)
(* the loop (main.py:636-745) and whatever the health loop reports.        *)
THEOREM BusyOverMessage == Spec => []BusyHasMessage
<1>1. Init => BusyHasMessage
  BY NewSchedulerType DEF Init, BusyHasMessage
<1>2. Typing /\ BusyHasMessage /\ [Next]_vars => BusyHasMessage'
  <2> SUFFICES ASSUME Typing, BusyHasMessage, [Next]_vars, sched'.state = "BUSY"
               PROVE  processing' # NoMsg
    BY DEF BusyHasMessage
  <2>1. CASE CallAdapter
    BY <2>1, ClientAssumption
       DEF CallAdapter, Dequeue, CanDequeue, Typing, TypeOK, QueuesTyped
  <2>2. CASE sched.state = "BUSY" /\ UNCHANGED processing
    BY <2>2 DEF BusyHasMessage
  <2> QED BY <2>1, <2>2, BusySteps DEF Typing
<1> QED
  BY InitTyping, NextTyping, <1>1, <1>2, PTL DEF Spec

(* The steps that lead into the wait, and what the others do in it. *)
LEMMA WaitSteps ==
    ASSUME TypeOK, [Next]_vars, pc' = "wait"
    PROVE  \/ event'
           \/ ~(Dispatchable /\ CanDequeue)'
           \/ /\ pc = "wait"
              /\ UNCHANGED <<queues, event>>
              /\ ShouldDispatch(sched') => ShouldDispatch(sched)
<1> USE DEF queues, watchdog
<1>1. CASE UNCHANGED vars
  BY <1>1 DEF vars
<1>2. CASE \E m \in Msgs : Receive(m)
  BY <1>2 DEF Receive
<1>3. CASE \E status \in States : HealthReport(status)
  <2>1. PICK status \in States : HealthReport(status)
    BY <1>3
  <2>2. event \in BOOLEAN
    BY DEF TypeOK, LoopTyped
  <2>3. CASE ~ShouldDispatch(sched) /\ ShouldDispatch(sched')
    BY <2>1, <2>3 DEF HealthReport
  <2>4. CASE ShouldDispatch(sched') => ShouldDispatch(sched)
    BY <2>1, <2>2, <2>4 DEF HealthReport
  <2> QED BY <2>3, <2>4
<1>4. CASE GroupCallStarts \/ (\E exit \in Exits : GroupCallEnds(exit)) \/ Tick
  BY <1>4 DEF GroupCallStarts, GroupCallEnds, Tick
<1>5. CASE Restart \/ SleepEnds
  BY <1>5 DEF Restart, SleepEnds
<1>6. CASE NothingToDispatch
  BY <1>6 DEF NothingToDispatch, Dispatchable
<1>7. CASE SlotTaken
  BY <1>7 DEF SlotTaken, CanDequeue
<1>8. ~(WaitEnds \/ NoStall \/ WatchdogResets \/ WatchdogDiscards \/ BreakerHolds)
  BY DEF WaitEnds, NoStall, WatchdogResets, WatchdogDiscards, BreakerHolds
<1>9. ~(SkipInFlight \/ SkipDispatched \/ SkipOperational \/ CallAdapter)
  BY DEF SkipInFlight, SkipDispatched, SkipOperational, CallAdapter, LookAtBreaker
<1>10. ~(AdapterReplies \/ AdapterIsSilent \/ AdapterFails \/ TrimEnds)
  BY DEF AdapterReplies, AdapterIsSilent, AdapterFails, TrimEnds
<1>11. ~(AdapterDegrades \/ AdapterIsBroken \/ EmitEnds \/ ReplySent)
  BY DEF AdapterDegrades, AdapterIsBroken, EmitEnds, ReplySent
<1>12. ~(ReplyRefused \/ SendFails)
  BY DEF ReplyRefused, SendFails
<1> QED
  BY <1>1, <1>2, <1>3, <1>4, <1>5, <1>6, <1>7, <1>8, <1>9, <1>10, <1>11, <1>12
     DEF Next, LoopStep

(* The loop never sleeps over a message it could dispatch without the      *)
(* event being set (main.py:567-570, 850-860 and 1471).                    *)
THEOREM NoWakeupIsLost == Spec => []NoLostWakeup
<1>1. Init => NoLostWakeup
  BY DEF Init, NoLostWakeup
<1>2. Typing /\ NoLostWakeup /\ [Next]_vars => NoLostWakeup'
  <2> SUFFICES ASSUME Typing, NoLostWakeup, [Next]_vars, pc' = "wait", (Dispatchable /\ CanDequeue)'
               PROVE  event'
    BY DEF NoLostWakeup
  <2>1. CASE /\ pc = "wait"
             /\ UNCHANGED <<queues, event>>
             /\ ShouldDispatch(sched') => ShouldDispatch(sched)
    BY <2>1 DEF NoLostWakeup, Dispatchable, CanDequeue, queues
  <2> QED BY <2>1, WaitSteps DEF Typing
<1> QED BY InitTyping, NextTyping, <1>1, <1>2, PTL DEF Spec

-----------------------------------------------------------------------------
(* What a restart brings back *)

(* Why a restart loses no message whose handling has not ended: such a     *)
(* message is among the durable ones; an acknowledgement removes one       *)
(* occurrence of one message from them, and that message has ended.        *)
Unsettled == {"queued", "stuck"}

UnsettledIsDurable ==
    /\ \A m \in Msgs : fate[m] \in Unsettled => m \in ToSet(durable)
    /\ \A m \in Msgs : fate[m] = "stuck" => processing = m /\ ~Working
    /\ \A m \in dispatched : fate[m] \notin Unsettled
    /\ processing # NoMsg => Working \/ fate[processing] # "queued"

(* The head of the pending messages is consumed and is not queued any more.*)
HeadEnds ==
    /\ HeadLeaves /\ ~Working
    /\ \A m \in Msgs : m # Head(pending) => fate'[m] = fate[m]
    /\ fate'[Head(pending)] \notin Unsettled

(* The eight ways in which a step changes the fate of a message, its       *)
(* durability or the slot.                                                 *)
LEMMA FateSteps ==
    ASSUME Typing, RepliedOnce, UnsettledIsDurable, [Next]_vars
    PROVE  \/ /\ UNCHANGED <<fate, durable, dispatched, processing>>
              /\ Working' = Working
           \/ \E m \in Msgs : Receive(m)
           \/ Restart
           \/ HeadEnds
           \/ CallAdapter
           \/ Working /\ \E result \in Fates \ Unsettled : Settle(result)
           \/ Working /\ PutBack /\ UNCHANGED tracking /\ ~Working'
           \/ SendFails
<1> USE DEF queues, tracking, history, Working
<1>0. fate \in [Msgs -> Fates] /\ pending \in Seq(Msgs)
  BY DEF Typing, TypeOK, HistoryTyped, QueuesTyped
<1>1. CASE UNCHANGED vars
  BY <1>1 DEF vars
<1>2. CASE \/ \E status \in States : HealthReport(status)
           \/ \E exit \in Exits : GroupCallEnds(exit)
           \/ GroupCallStarts \/ Tick
  BY <1>2 DEF HealthReport, GroupCallStarts, GroupCallEnds, Tick
<1>3. CASE WaitEnds \/ NoStall \/ WatchdogResets \/ NothingToDispatch
  BY <1>3 DEF WaitEnds, NoStall, WatchdogResets, NothingToDispatch
<1>4. CASE BreakerHolds \/ SleepEnds \/ SlotTaken \/ AdapterReplies
  BY <1>4 DEF BreakerHolds, SleepEnds, SlotTaken, LookAtBreaker, AdapterReplies
<1>5. CASE TrimEnds \/ EmitEnds \/ ReplyRefused
  BY <1>5 DEF TrimEnds, EmitEnds, ReplyRefused
<1>6. CASE WatchdogDiscards /\ ~CanDequeue
  BY <1>6 DEF WatchdogDiscards
<1>7. CASE (WatchdogDiscards /\ CanDequeue) \/ SkipInFlight
  <2>1. HeadLeaves /\ ~Working /\ Head(pending) \in Msgs
    BY <1>0, <1>7 DEF WatchdogDiscards, SkipInFlight, LookAtBreaker, HeadLeaves,
                      DequeueAndAck, CanDequeue
  <2>2. \E result \in {"discarded", "lost"} : Gone(Head(pending), result)
    BY <1>7 DEF WatchdogDiscards, SkipInFlight
  <2>3. \A m \in Msgs : m # Head(pending) => fate'[m] = fate[m]
    BY <1>0, <2>2 DEF Gone
  <2>4. fate[Head(pending)] # "stuck"
    BY <2>1, ClientAssumption DEF UnsettledIsDurable, HeadLeaves, CanDequeue
  <2>5. fate'[Head(pending)] \notin Unsettled
    BY <1>0, <2>1, <2>2, <2>4 DEF Gone, Unsettled
  <2> QED BY <2>1, <2>3, <2>5 DEF HeadEnds
<1>8. CASE SkipDispatched
  <2>1. HeadLeaves /\ ~Working /\ Head(pending) \in dispatched
    BY <1>8 DEF SkipDispatched, LookAtBreaker, HeadLeaves, DequeueAndAck
  <2>2. fate' = fate
    BY <1>8 DEF SkipDispatched
  <2> QED BY <2>1, <2>2 DEF HeadEnds, UnsettledIsDurable
<1>9. CASE SkipOperational
  <2>1. HeadLeaves /\ ~Working /\ Head(pending) \in Msgs
    BY <1>0, <1>9 DEF SkipOperational, LookAtBreaker, HeadLeaves, DequeueAndAck,
                      CanDequeue
  <2>2. fate' = [fate EXCEPT ![Head(pending)] = "skipped"]
    BY <1>9 DEF SkipOperational
  <2> QED BY <1>0, <2>1, <2>2 DEF HeadEnds, Unsettled
<1>10. CASE AdapterIsSilent \/ AdapterFails \/ ReplySent
  BY <1>10 DEF AdapterIsSilent, AdapterFails, ReplySent, Fates, Unsettled
<1>11. CASE AdapterDegrades \/ AdapterIsBroken
  BY <1>11 DEF AdapterDegrades, AdapterIsBroken
<1> QED
  BY <1>1, <1>2, <1>3, <1>4, <1>5, <1>6, <1>7, <1>8, <1>9, <1>10, <1>11
     DEF Next, LoopStep

(* A message whose handling has not ended stays durable through every step.*)
LEMMA NextUnsettled ==
    Typing /\ RepliedOnce /\ UnsettledIsDurable /\ [Next]_vars => UnsettledIsDurable'
<1> SUFFICES ASSUME Typing, RepliedOnce, UnsettledIsDurable, [Next]_vars
             PROVE  UnsettledIsDurable'
  OBVIOUS
<1>0. /\ fate \in [Msgs -> Fates] /\ durable \in Seq(Msgs) /\ pending \in Seq(Msgs)
      /\ processing \in Msgs \cup {NoMsg} /\ NoMsg \notin Msgs
      /\ dispatched \subseteq Msgs
  BY ClientAssumption DEF Typing, TypeOK, HistoryTyped, QueuesTyped
<1> USE DEF UnsettledIsDurable
<1>1. CASE /\ UNCHANGED <<fate, durable, dispatched, processing>>
           /\ Working' = Working
  BY <1>1
<1>2. ASSUME NEW m \in Msgs, Receive(m) PROVE UnsettledIsDurable'
  <2>1. ToSet(durable') = ToSet(durable) \cup {m}
    BY <1>0, <1>2, AppendProperties DEF Receive, ToSet
  <2>2. UNCHANGED <<dispatched, processing>> /\ Working' = Working
    BY <1>2 DEF Receive, Enqueue, Working
  <2>3. \A x \in Msgs : fate'[x] \in Unsettled =>
            fate'[x] = fate[x] \/ (x = m /\ x \notin dispatched /\ fate'[x] = "queued")
    BY <1>0, <1>2 DEF Receive, Unsettled
  <2>4. processing # NoMsg /\ fate[processing] # "queued" => fate'[processing] # "queued"
    BY <1>0, <1>2 DEF Receive
  <2> QED BY <1>0, <2>1, <2>2, <2>3, <2>4 DEF Unsettled
<1>3. CASE Restart
  <2>1. UNCHANGED durable /\ processing' = NoMsg /\ dispatched' = {}
    BY <1>3 DEF Restart
  <2>2. \A m \in Msgs : fate'[m] =
            IF m \in ToSet(durable) THEN "queued" ELSE fate[m]
    BY <1>3 DEF Restart
  <2> QED BY <2>1, <2>2 DEF Unsettled
<1>4. CASE HeadEnds
  <2>1. \A x \in ToSet(durable) : x # Head(pending) => x \in ToSet(durable')
    BY <1>0, <1>4, WithoutKeepsOthers DEF HeadEnds, HeadLeaves
  <2>2. UNCHANGED <<dispatched, processing>> /\ processing = NoMsg
    BY <1>4 DEF HeadEnds, HeadLeaves, tracking, CanDequeue
  <2>3. \A m \in Msgs : fate'[m] \in Unsettled => m # Head(pending) /\ fate'[m] = fate[m]
    BY <1>4 DEF HeadEnds
  <2> QED BY <1>0, <2>1, <2>2, <2>3 DEF Unsettled
<1>5. CASE CallAdapter
  <2>1. UNCHANGED <<fate, durable, dispatched>> /\ processing = NoMsg /\ Working'
    BY <1>5 DEF CallAdapter, Dequeue, CanDequeue, history, Working
  <2> QED BY <1>0, <2>1
<1>6. ASSUME Working, NEW result \in Fates \ Unsettled, Settle(result)
      PROVE  UnsettledIsDurable'
  <2>1. processing' = NoMsg
    BY <1>6 DEF Settle, Ack
  <2>2. \A x \in ToSet(durable) : x # processing => x \in ToSet(durable')
    BY <1>0, <1>6, WithoutKeepsOthers DEF Settle
  <2>3. \A m \in Msgs : fate'[m] = IF m = processing THEN result ELSE fate[m]
    BY <1>0, <1>6 DEF Settle
  <2>4. dispatched' = dispatched \cup {processing} /\ processing \in Msgs
    BY <1>0, <1>6 DEF Settle, Typing
  <2> QED BY <1>0, <1>6, <2>1, <2>2, <2>3, <2>4 DEF Unsettled
<1>7. CASE Working /\ PutBack /\ UNCHANGED tracking /\ ~Working'
  <2>1. PICK late \in BOOLEAN :
            /\ Nack(processing, late)
            /\ durable' = IF late THEN Without(durable, processing) ELSE durable
            /\ fate' = [fate EXCEPT ![processing] = IF late THEN "dead" ELSE @]
    BY <1>7 DEF PutBack
  <2>2. processing' = NoMsg /\ processing \in Msgs
    BY <1>0, <1>7, <2>1 DEF Nack, Typing
  <2>3. processing \notin dispatched /\ dispatched' = dispatched
    BY <1>7 DEF RepliedOnce, tracking
  <2>4. \A x \in ToSet(durable) : x # processing => x \in ToSet(durable')
    BY <1>0, <2>1, WithoutKeepsOthers
  <2>5. CASE late
    <3>1. \A m \in Msgs : fate'[m] = IF m = processing THEN "dead" ELSE fate[m]
      BY <1>0, <2>1, <2>5
    <3> QED BY <1>0, <2>2, <2>3, <2>4, <3>1 DEF Unsettled
  <2>6. CASE ~late
    <3>1. fate' = fate /\ durable' = durable
      BY <1>0, <2>1, <2>6
    <3>2. \A m \in Msgs : fate[m] # "stuck"
      BY <1>7
    <3> QED BY <1>0, <2>2, <2>3, <3>1, <3>2 DEF Unsettled
  <2> QED BY <2>5, <2>6
<1>8. CASE SendFails
  <2>1. processing \in Msgs /\ processing \notin dispatched
    BY <1>0, <1>8 DEF SendFails, Typing, RepliedOnce, Working
  <2>2. UNCHANGED <<durable, dispatched, processing>>
    BY <1>8 DEF SendFails, queues, tracking
  <2>3. \A m \in Msgs : fate'[m] = IF m = processing /\ fate[m] = "queued"
                                   THEN "stuck" ELSE fate[m]
    BY <1>0, <1>8 DEF SendFails, Gone
  <2>4. ~Working' /\ (\A m \in Msgs : fate[m] # "stuck")
    BY <1>8 DEF SendFails, Working
  <2> QED BY <1>0, <2>1, <2>2, <2>3, <2>4 DEF Unsettled
<1> QED
  BY <1>1, <1>2, <1>3, <1>4, <1>5, <1>6, <1>7, <1>8, FateSteps

(* Both strengthenings hold in the initial state. *)
LEMMA InitUnsettled == Init => RepliedOnce /\ UnsettledIsDurable
BY ClientAssumption
   DEF Init, QueueInit, RepliedOnce, AtMostOneReply, Working, UnsettledIsDurable,
       Unsettled

(* Only a restart is a restart. *)
LEMMA RestartSteps ==
    ASSUME [Next]_vars, restarts' # restarts
    PROVE  Restart
<1> USE DEF Next, LoopStep
<1>1. CASE UNCHANGED vars
  BY <1>1 DEF vars
<1>2. ~(\/ \E m \in Msgs : Receive(m)
        \/ \E status \in States : HealthReport(status)
        \/ \E exit \in Exits : GroupCallEnds(exit)
        \/ GroupCallStarts \/ Tick)
  BY DEF Receive, HealthReport, GroupCallStarts, GroupCallEnds, Tick
<1>3. ~(WaitEnds \/ NoStall \/ WatchdogResets \/ WatchdogDiscards \/ NothingToDispatch)
  BY DEF WaitEnds, NoStall, WatchdogResets, WatchdogDiscards, NothingToDispatch
<1>4. ~(BreakerHolds \/ SleepEnds \/ SlotTaken \/ SkipInFlight \/ SkipDispatched)
  BY DEF BreakerHolds, SleepEnds, SlotTaken, SkipInFlight, SkipDispatched
<1>5. ~(SkipOperational \/ CallAdapter \/ AdapterReplies \/ AdapterIsSilent)
  BY DEF SkipOperational, CallAdapter, AdapterReplies, AdapterIsSilent
<1>6. ~(AdapterFails \/ TrimEnds \/ AdapterDegrades \/ AdapterIsBroken \/ EmitEnds)
  BY DEF AdapterFails, TrimEnds, AdapterDegrades, AdapterIsBroken, EmitEnds
<1>7. ~(ReplySent \/ ReplyRefused \/ SendFails)
  BY DEF ReplySent, ReplyRefused, SendFails
<1> QED BY <1>1, <1>2, <1>3, <1>4, <1>5, <1>6, <1>7

(* A restart brings back every message that is pending, put back, being    *)
(* worked on or stuck: the acknowledgements of other messages, and of      *)
(* copies, never take it out of the durable ones (queue.py:97-134).        *)
THEOREM RestartBringsBack == Spec => RestartKeepsUnsettled
<1>1. UnsettledIsDurable /\ [Next]_vars =>
         [restarts' # restarts =>
             \A m \in Msgs : fate[m] \in {"queued", "stuck"} => m \in ToSet(pending')]_vars
  <2> SUFFICES ASSUME UnsettledIsDurable, [Next]_vars, restarts' # restarts,
                      NEW m \in Msgs, fate[m] \in {"queued", "stuck"}
               PROVE  m \in ToSet(pending')
    OBVIOUS
  <2>1. Restart
    BY RestartSteps
  <2>2. m \in ToSet(durable)
    BY DEF UnsettledIsDurable, Unsettled
  <2> QED BY <2>1, <2>2 DEF Restart, ToSet
<1> QED
  BY InitTyping, NextTyping, InitUnsettled, NextRepliedOnce, NextUnsettled, <1>1, PTL
     DEF Spec, RestartKeepsUnsettled

(* The slot and the loop agree (main.py:613-745). *)
THEOREM SlotAgreesWithLoop == Spec => []SlotFollowsLoop
<1>1. Typing /\ UnsettledIsDurable => SlotFollowsLoop
  BY DEF Typing, UnsettledIsDurable, SlotFollowsLoop
<1> QED
  BY InitTyping, NextTyping, InitUnsettled, NextRepliedOnce, NextUnsettled, <1>1, PTL
     DEF Spec

=============================================================================
