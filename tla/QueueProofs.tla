----------------------------- MODULE QueueProofs -----------------------------
(***************************************************************************)
(* The message queue and its persistence, for every capacity, every number *)
(* of messages, failures and lifetimes.  First one lifetime of the queue   *)
(* (QueueSession): the order, the bound, and that nothing is lost without  *)
(* a trace.  Then the loops that read the file, which are recursive        *)
(* functions: they exist, by induction on the sequence, and what they      *)
(* return is described entry by entry.  Last the persistence               *)
(* (QueuePersist): nothing forgotten, nothing resurrected, the damage      *)
(* bounded, the abstract durable queue implemented, and the order kept     *)
(* through a restart.                                                      *)
(***************************************************************************)
EXTENDS QueueSession, QueuePersist, SequenceTheorems, FiniteSetTheorems,
        WellFoundedInduction, TLAPS

-----------------------------------------------------------------------------
(* The elements of a sequence *)

LEMMA ToSetEmpty == ToSet(<<>>) = {}
BY DEF ToSet

LEMMA ToSetSingle == \A m : ToSet(<<m>>) = {m}
BY DEF ToSet

LEMMA ToSetAppend ==
    ASSUME NEW S, NEW s \in Seq(S), NEW e \in S
    PROVE  ToSet(Append(s, e)) = ToSet(s) \cup {e}
<1>1. /\ Len(Append(s, e)) = Len(s) + 1 /\ Append(s, e)[Len(s) + 1] = e
      /\ \A i \in 1 .. Len(s) : Append(s, e)[i] = s[i]
      /\ Len(s) \in Nat /\ DOMAIN s = 1 .. Len(s)
      /\ DOMAIN Append(s, e) = 1 .. Len(Append(s, e))
  BY AppendProperties, LenProperties
<1>2. ToSet(Append(s, e)) \subseteq ToSet(s) \cup {e}
  BY <1>1 DEF ToSet
<1>3. ToSet(s) \cup {e} \subseteq ToSet(Append(s, e))
  <2>1. Len(s) + 1 \in DOMAIN Append(s, e) /\ \A i \in DOMAIN s : i \in DOMAIN Append(s, e)
    BY <1>1
  <2> QED BY <1>1, <2>1 DEF ToSet
<1> QED BY <1>2, <1>3

LEMMA ToSetHeadTail ==
    ASSUME NEW S, NEW s \in Seq(S), s # <<>>
    PROVE  ToSet(s) = {Head(s)} \cup ToSet(Tail(s)) /\ Head(s) \in ToSet(s)
<1>1. /\ Tail(s) \in Seq(S) /\ Len(Tail(s)) = Len(s) - 1 /\ Head(s) = s[1]
      /\ \A i \in 1 .. Len(Tail(s)) : Tail(s)[i] = s[i + 1]
      /\ Len(s) \in Nat \ {0} /\ DOMAIN s = 1 .. Len(s) /\ DOMAIN Tail(s) = 1 .. Len(Tail(s))
  BY HeadTailProperties, LenProperties, EmptySeq
<1>2. \A i \in DOMAIN s : i = 1 \/ (i - 1 \in DOMAIN Tail(s) /\ Tail(s)[i - 1] = s[i])
  BY <1>1
<1>3. \A i \in DOMAIN Tail(s) : i + 1 \in DOMAIN s /\ Tail(s)[i] = s[i + 1]
  BY <1>1
<1>4. 1 \in DOMAIN s
  BY <1>1
<1>5. ToSet(s) \subseteq {Head(s)} \cup ToSet(Tail(s))
  BY <1>1, <1>2 DEF ToSet
<1>6. {Head(s)} \cup ToSet(Tail(s)) \subseteq ToSet(s)
  BY <1>1, <1>3, <1>4 DEF ToSet
<1> QED BY <1>5, <1>6

LEMMA ToSetConcat ==
    ASSUME NEW S, NEW s \in Seq(S), NEW t \in Seq(S)
    PROVE  ToSet(s \o t) = ToSet(s) \cup ToSet(t)
<1>1. /\ s \o t \in Seq(S) /\ Len(s \o t) = Len(s) + Len(t) /\ Len(s) \in Nat /\ Len(t) \in Nat
      /\ DOMAIN s = 1 .. Len(s) /\ DOMAIN t = 1 .. Len(t) /\ DOMAIN (s \o t) = 1 .. Len(s \o t)
  BY ConcatProperties, LenProperties
<1>2. \A i \in 1 .. Len(s) + Len(t) :
         (s \o t)[i] = IF i <= Len(s) THEN s[i] ELSE t[i - Len(s)]
  BY ConcatProperties
<1>3. \A i \in DOMAIN (s \o t) : \/ i \in DOMAIN s /\ (s \o t)[i] = s[i]
                                 \/ i - Len(s) \in DOMAIN t /\ (s \o t)[i] = t[i - Len(s)]
  BY <1>1, <1>2
<1>4. /\ \A i \in DOMAIN s : i \in DOMAIN (s \o t) /\ (s \o t)[i] = s[i]
      /\ \A i \in DOMAIN t : Len(s) + i \in DOMAIN (s \o t) /\ (s \o t)[Len(s) + i] = t[i]
  BY <1>1, <1>2
<1>5. ToSet(s \o t) \subseteq ToSet(s) \cup ToSet(t)
  BY <1>3 DEF ToSet
<1>6. ToSet(s) \cup ToSet(t) \subseteq ToSet(s \o t)
  BY <1>4 DEF ToSet
<1> QED BY <1>5, <1>6

-----------------------------------------------------------------------------
(* One lifetime of the queue *)

(* A full queue has a message to drop. *)
LEMMA FullHasHead ==
    ASSUME NEW S, pending \in Seq(S), Full
    PROVE  /\ pending # <<>> /\ Head(pending) \in S /\ Head(pending) = pending[1]
           /\ Tail(pending) \in Seq(S) /\ Len(Tail(pending)) = Len(pending) - 1
           /\ \A i \in 1 .. Len(Tail(pending)) : Tail(pending)[i] = pending[i + 1]
<1>1. pending # <<>>
  BY CapacityAssumption DEF Full
<1>2. Head(pending) = pending[1]
  BY <1>1
<1> QED BY <1>1, <1>2, HeadTailProperties

(* What the queue holds is made of messages that have arrived. *)
LEMMA SessionTypeStep == SessionTypeOK /\ [SessionNext]_sessionVars => SessionTypeOK'
<1> SUFFICES ASSUME SessionTypeOK, [SessionNext]_sessionVars PROVE SessionTypeOK'
  OBVIOUS
<1> USE SessionAssumption, CapacityAssumption DEF SessionTypeOK
<1>1. CASE SessionEnqueue
  <2>1. arrived' = arrived + 1 /\ 1 .. arrived \subseteq 1 .. arrived'
    BY <1>1 DEF SessionEnqueue
  <2>2. Seq(1 .. arrived) \subseteq Seq(1 .. arrived') /\ arrived' \in 1 .. arrived'
    BY <2>1, SeqMonotonic
  <2>3. (IF Full THEN Tail(pending) ELSE pending) \in Seq(1 .. arrived)
    <3>1. pending \in Seq(1 .. arrived)
      OBVIOUS
    <3> HIDE DEF SessionTypeOK
    <3> QED BY <3>1, FullHasHead
  <2>4. pending' \in Seq(1 .. arrived')
    <3>1. pending' = Append(IF Full THEN Tail(pending) ELSE pending, arrived')
      BY <1>1, <2>1 DEF SessionEnqueue, Enqueue
    <3> QED BY <2>2, <2>3, <3>1, AppendProperties
  <2>5. dead' \in Seq(1 .. arrived')
    BY <1>1, <2>2 DEF SessionEnqueue, Enqueue
  <2>6. evicted' \subseteq 1 .. arrived'
    <3>1. Full => Head(pending) \in 1 .. arrived
      BY FullHasHead
    <3> QED BY <1>1, <2>1, <3>1 DEF SessionEnqueue
  <2> QED BY <1>1, <2>1, <2>4, <2>5, <2>6 DEF SessionEnqueue, Enqueue
<1>2. CASE SessionDequeue
  <2>1. Head(pending) \in 1 .. arrived /\ Tail(pending) \in Seq(1 .. arrived)
    BY <1>2 DEF SessionDequeue, Dequeue, CanDequeue
  <2> QED BY <1>2, <2>1 DEF SessionDequeue, Dequeue
<1>3. CASE SessionAck
  BY <1>3 DEF SessionAck, Ack
<1>4. CASE SessionNack
  <2>1. processing \in 1 .. arrived
    BY <1>4 DEF SessionNack
  <2>2. <<processing>> \o pending \in Seq(1 .. arrived)
        /\ Append(dead, processing) \in Seq(1 .. arrived)
    BY <2>1
  <2>3. processing' = 0 /\ pending' \in Seq(1 .. arrived) /\ dead' \in Seq(1 .. arrived)
    BY <1>4, <2>2 DEF SessionNack, Nack
  <2> QED BY <1>4, <2>3 DEF SessionNack
<1>5. CASE SessionPurge
  <2>1. PICK k \in 1 .. Len(dead) : dead' = SubSeq(dead, k + 1, Len(dead))
    BY <1>5 DEF SessionPurge, PurgeDead
  <2>2. dead' \in Seq(1 .. arrived) /\ Len(dead') = Len(dead) - k
    BY <2>1
  <2>3. expired' \subseteq 1 .. arrived
    <3>1. expired' = expired \cup {dead[i] : i \in 1 .. k}
      BY <1>5, <2>2 DEF SessionPurge
    <3>2. \A i \in 1 .. k : dead[i] \in 1 .. arrived
      <4> SUFFICES ASSUME NEW i \in 1 .. k PROVE dead[i] \in 1 .. arrived
        OBVIOUS
      <4>1. i \in 1 .. Len(dead)
        OBVIOUS
      <4> QED BY <4>1, ElementOfSeq
    <3> QED BY <3>1, <3>2
  <2> QED BY <1>5, <2>2, <2>3 DEF SessionPurge, PurgeDead
<1>6. CASE UNCHANGED sessionVars
  BY <1>6 DEF sessionVars
<1> QED BY <1>1, <1>2, <1>3, <1>4, <1>5, <1>6 DEF SessionNext

(* The queue holds only messages that have arrived (queue.py:44-61). *)
THEOREM SessionTypeCorrect == SessionSpec => []SessionTypeOK
<1>1. SessionInit => SessionTypeOK
  BY SessionAssumption DEF SessionInit, SessionTypeOK
<1> QED BY <1>1, SessionTypeStep, PTL DEF SessionSpec

-----------------------------------------------------------------------------

(* Ascending sequences of message numbers, and the three changes the queue *)
(* makes to one: the first is taken away, one is put in front, one behind. *)
Ascending(s) == \A i, j \in 1 .. Len(s) : i < j => s[i] < s[j]

LEMMA AscendingTail ==
    ASSUME NEW s \in Seq(Int), s # <<>>, Ascending(s)
    PROVE  /\ Ascending(Tail(s))
           /\ \A i \in 1 .. Len(Tail(s)) : Head(s) < Tail(s)[i] /\ Tail(s)[i] = s[i + 1]
<1>1. /\ Tail(s) \in Seq(Int) /\ Len(Tail(s)) = Len(s) - 1 /\ Head(s) = s[1]
      /\ \A i \in 1 .. Len(Tail(s)) : Tail(s)[i] = s[i + 1]
  BY HeadTailProperties
<1>2. Len(s) \in Nat /\ Len(s) >= 1
  BY EmptySeq, LenProperties
<1>3. \A i, j \in 1 .. Len(s) - 1 : i < j => s[i + 1] < s[j + 1]
  <2> SUFFICES ASSUME NEW i \in 1 .. Len(s) - 1, NEW j \in 1 .. Len(s) - 1, i < j
               PROVE  s[i + 1] < s[j + 1]
    OBVIOUS
  <2>1. i + 1 \in 1 .. Len(s) /\ j + 1 \in 1 .. Len(s) /\ i + 1 < j + 1
    BY <1>2
  <2> QED BY <2>1 DEF Ascending
<1>4. \A i \in 1 .. Len(s) - 1 : s[1] < s[i + 1]
  <2> SUFFICES ASSUME NEW i \in 1 .. Len(s) - 1 PROVE s[1] < s[i + 1]
    OBVIOUS
  <2>1. 1 \in 1 .. Len(s) /\ i + 1 \in 1 .. Len(s) /\ 1 < i + 1
    BY <1>2
  <2> QED BY <2>1 DEF Ascending
<1> HIDE DEF Ascending
<1>5. Ascending(Tail(s))
  BY <1>1, <1>3 DEF Ascending
<1> QED BY <1>1, <1>4, <1>5

LEMMA AscendingCons ==
    ASSUME NEW s \in Seq(Int), Ascending(s), NEW m \in Int,
           \A i \in 1 .. Len(s) : m < s[i]
    PROVE  Ascending(<<m>> \o s)
<1> DEFINE t == <<m>> \o s
<1>1. /\ Len(t) = Len(s) + 1 /\ t[1] = m
      /\ \A i \in 2 .. Len(s) + 1 : t[i] = s[i - 1]
  OBVIOUS
<1> HIDE DEF t
<1>2. Len(s) \in Nat
  BY LenProperties
<1>3. ASSUME NEW i \in 1 .. Len(t), NEW j \in 1 .. Len(t), i < j
      PROVE  t[i] < t[j]
  <2>1. j - 1 \in 1 .. Len(s) /\ t[j] = s[j - 1]
    BY <1>1, <1>2, <1>3
  <2>2. CASE i = 1
    BY <1>1, <2>1, <2>2
  <2>3. CASE i # 1
    <3>1. i - 1 \in 1 .. Len(s) /\ t[i] = s[i - 1] /\ i - 1 < j - 1
      BY <1>1, <1>2, <1>3, <2>3
    <3> QED BY <2>1, <3>1 DEF Ascending
  <2> QED BY <2>2, <2>3
<1> QED BY <1>3 DEF Ascending, t

LEMMA AscendingAppend ==
    ASSUME NEW s \in Seq(Int), Ascending(s), NEW m \in Int,
           \A i \in 1 .. Len(s) : s[i] < m
    PROVE  Ascending(Append(s, m))
<1> DEFINE t == Append(s, m)
<1>1. /\ Len(t) = Len(s) + 1 /\ t[Len(s) + 1] = m
      /\ \A i \in 1 .. Len(s) : t[i] = s[i]
  BY AppendProperties
<1> HIDE DEF t
<1>2. Len(s) \in Nat
  BY LenProperties
<1>3. ASSUME NEW i \in 1 .. Len(t), NEW j \in 1 .. Len(t), i < j
      PROVE  t[i] < t[j]
  <2>1. i \in 1 .. Len(s) /\ t[i] = s[i]
    BY <1>1, <1>2, <1>3
  <2>2. CASE j = Len(s) + 1
    BY <1>1, <2>1, <2>2
  <2>3. CASE j # Len(s) + 1
    <3>1. j \in 1 .. Len(s) /\ t[j] = s[j]
      BY <1>1, <1>2, <1>3, <2>3
    <3> QED BY <1>3, <2>1, <3>1 DEF Ascending
  <2> QED BY <2>2, <2>3
<1> QED BY <1>3 DEF Ascending, t

(* The invariant in terms of Ascending, with the types its steps need. *)
LEMMA OrderFacts ==
    ASSUME SessionTypeOK, ArrivalOrder
    PROVE  /\ pending \in Seq(Int) /\ Ascending(pending)
           /\ processing \in Int /\ arrived \in Nat
           /\ \A i \in 1 .. Len(pending) : pending[i] \in 1 .. arrived
           /\ processing # NoMsg => \A i \in 1 .. Len(pending) : processing < pending[i]
<1>1. \A i \in 1 .. Len(pending) : pending[i] \in 1 .. arrived
  BY ElementOfSeq DEF SessionTypeOK
<1>2. pending \in Seq(Int)
  <2>1. 1 .. arrived \subseteq Int
    BY DEF SessionTypeOK
  <2> QED BY <2>1, SeqMonotonic DEF SessionTypeOK
<1> QED BY <1>1, <1>2 DEF SessionTypeOK, ArrivalOrder, Ascending

(* First in, first out (queue.py:65-134): putting a message back at the    *)
(* head and dropping the oldest one both keep the order of arrival.        *)
THEOREM FirstInFirstOut == SessionSpec => []ArrivalOrder
<1>1. SessionInit => ArrivalOrder
  BY SessionAssumption DEF SessionInit, ArrivalOrder
<1>2. SessionTypeOK /\ ArrivalOrder /\ [SessionNext]_sessionVars => ArrivalOrder'
  <2> SUFFICES ASSUME SessionTypeOK, ArrivalOrder, [SessionNext]_sessionVars PROVE ArrivalOrder'
    OBVIOUS
  <2>0. SUFFICES /\ Ascending(pending')
                 /\ processing' # NoMsg =>
                       \A i \in 1 .. Len(pending') : processing' < pending'[i]
    BY DEF ArrivalOrder, Ascending
  <2>1. CASE SessionEnqueue
    <3> DEFINE kept == IF Full THEN Tail(pending) ELSE pending
    <3>1. /\ kept \in Seq(Int) /\ Ascending(kept)
          /\ \A i \in 1 .. Len(kept) :
                kept[i] <= arrived /\ (processing # NoMsg => processing < kept[i])
      <4>1. CASE Full
        <5>1. pending # <<>> /\ Tail(pending) \in Seq(Int)
              /\ Len(Tail(pending)) = Len(pending) - 1
          BY <4>1, OrderFacts, FullHasHead
        <5>2. \A i \in 1 .. Len(pending) - 1 : i + 1 \in 1 .. Len(pending)
          BY OrderFacts, LenProperties
        <5> QED BY <4>1, <5>1, <5>2, OrderFacts, AscendingTail
      <4>2. CASE ~Full
        BY <4>2, OrderFacts
      <4> QED BY <4>1, <4>2
    <3>2. pending' = Append(kept, arrived + 1) /\ processing' = processing
      BY <2>1 DEF SessionEnqueue, Enqueue
    <3>3. processing < arrived + 1 /\ arrived \in Nat
      BY DEF SessionTypeOK
    <3> HIDE DEF kept
    <3>4. \A i \in 1 .. Len(kept) : kept[i] < arrived + 1
      BY <3>1, <3>3, ElementOfSeq
    <3>5. /\ Len(pending') = Len(kept) + 1 /\ pending'[Len(kept) + 1] = arrived + 1
          /\ \A i \in 1 .. Len(kept) : pending'[i] = kept[i]
      BY <3>1, <3>2, <3>3, AppendProperties
    <3>6. Len(kept) \in Nat
      BY <3>1, LenProperties
    <3>7. ASSUME processing # NoMsg, NEW i \in 1 .. Len(pending')
          PROVE  processing < pending'[i]
      <4>1. i \in 1 .. Len(kept) \/ i = Len(kept) + 1
        BY <3>5, <3>6
      <4> QED BY <3>1, <3>3, <3>5, <3>7, <4>1
    <3>8. Ascending(pending')
      BY <3>1, <3>2, <3>3, <3>4, AscendingAppend
    <3> QED BY <3>2, <3>7, <3>8
  <2>2. CASE SessionDequeue
    BY <2>2, OrderFacts, AscendingTail DEF SessionDequeue, Dequeue, CanDequeue
  <2>3. CASE SessionAck
    BY <2>3, OrderFacts DEF SessionAck, Ack
  <2>4. CASE SessionNack
    BY <2>4, OrderFacts, AscendingCons DEF SessionNack, Nack
  <2>5. CASE SessionPurge
    BY <2>5, OrderFacts DEF SessionPurge, PurgeDead
  <2>6. CASE UNCHANGED sessionVars
    BY <2>6, OrderFacts DEF sessionVars
  <2> QED BY <2>1, <2>2, <2>3, <2>4, <2>5, <2>6 DEF SessionNext
<1> QED BY <1>1, <1>2, SessionTypeCorrect, PTL DEF SessionSpec

-----------------------------------------------------------------------------

(* The queue never holds more than one message above its capacity, or      *)
(* above what a restart put into it (queue.py:67 and 124).                 *)
THEOREM Bounded == SessionSpec => []BacklogBound
<1>1. SessionInit => BacklogBound
  BY SessionAssumption, CapacityAssumption DEF SessionInit, BacklogBound, Occupied
<1>2. SessionTypeOK /\ BacklogBound /\ [SessionNext]_sessionVars => BacklogBound'
  <2> SUFFICES ASSUME SessionTypeOK, BacklogBound, [SessionNext]_sessionVars PROVE BacklogBound'
    OBVIOUS
  <2> USE SessionAssumption, CapacityAssumption DEF SessionTypeOK, BacklogBound, Occupied
  <2>1. CASE SessionEnqueue
    <3>1. CASE Full
      <4>1. Len(pending') = Len(pending)
        BY <2>1, <3>1, FullHasHead, AppendProperties DEF SessionEnqueue, Enqueue
      <4> QED BY <2>1, <4>1 DEF SessionEnqueue, Enqueue
    <3>2. CASE ~Full
      <4>1. /\ Len(pending') = Len(pending) + 1 /\ Len(pending) < Capacity
            /\ processing' = processing /\ restored' = restored
        BY <2>1, <3>2 DEF SessionEnqueue, Enqueue, Full
      <4>2. Len(pending) \in Nat /\ restored \in Nat
        OBVIOUS
      <4>3. Len(pending) + 1 <= Capacity
        BY <4>1, <4>2
      <4>4. Len(pending) + 1 <= (IF restored > Capacity THEN restored ELSE Capacity)
        BY <4>2, <4>3
      <4> QED BY <4>1, <4>2, <4>4
    <3> QED BY <3>1, <3>2
  <2>2. CASE SessionDequeue
    <3>1. /\ processing = NoMsg /\ restored' = restored
          /\ Len(pending') = Len(pending) - 1
      BY <2>2, HeadTailProperties DEF SessionDequeue, Dequeue, CanDequeue
    <3>2. Len(pending) \in Nat
      OBVIOUS
    <3> QED BY <3>1, <3>2
  <2>3. CASE SessionAck
    BY <2>3 DEF SessionAck, Ack
  <2>4. CASE SessionNack
    <3>1. processing' = NoMsg /\ processing # NoMsg /\ restored' = restored
      BY <2>4 DEF SessionNack, Nack
    <3>2. Len(pending') = Len(pending) \/ Len(pending') = Len(pending) + 1
      BY <2>4, <3>1 DEF SessionNack, Nack
    <3>3. Len(pending) \in Nat /\ restored \in Nat
      OBVIOUS
    <3>4. Len(pending) + 1 <= (IF restored > Capacity THEN restored ELSE Capacity) + 1
      BY <3>1
    <3> QED BY <3>1, <3>2, <3>3, <3>4
  <2>5. CASE SessionPurge
    BY <2>5 DEF SessionPurge, PurgeDead
  <2>6. CASE UNCHANGED sessionVars
    BY <2>6 DEF sessionVars
  <2> QED BY <2>1, <2>2, <2>3, <2>4, <2>5, <2>6 DEF SessionNext
<1> QED BY <1>1, <1>2, SessionTypeCorrect, PTL DEF SessionSpec

-----------------------------------------------------------------------------
(* No message of a lifetime is lost *)

(* Six sets that share nothing and are together the messages up to n. *)
Split(P, S, D, A, E, X, n) ==
    /\ P \cup S \cup D \cup A \cup E \cup X = 1 .. n
    /\ P \cap (S \cup D \cup A \cup E \cup X) = {}
    /\ S \cap (D \cup A \cup E \cup X) = {}
    /\ D \cap (A \cup E \cup X) = {}
    /\ A \cap (E \cup X) = {} /\ E \cap X = {}

Slot == {processing} \ {NoMsg}

InOnePlace ==
    /\ Split(ToSet(pending), Slot, ToSet(dead), acked, evicted, expired, arrived)
    /\ \A i, j \in 1 .. Len(dead) : i # j => dead[i] # dead[j]

LEMMA SplitArrival ==
    ASSUME NEW P, NEW S, NEW D, NEW A, NEW E, NEW X, NEW n \in Nat,
           Split(P, S, D, A, E, X, n)
    PROVE  Split(P \cup {n + 1}, S, D, A, E, X, n + 1)
<1>1. 1 .. n + 1 = (1 .. n) \cup {n + 1} /\ n + 1 \notin 1 .. n
  OBVIOUS
<1>2. n + 1 \notin P \cup S \cup D \cup A \cup E \cup X
  BY <1>1 DEF Split
<1> DEFINE m == n + 1
           U == 1 .. n
           W == 1 .. n + 1
<1>3. W = U \cup {m} /\ m \notin P \cup S \cup D \cup A \cup E \cup X
  BY <1>1, <1>2
<1> HIDE DEF m, U, W
<1> SUFFICES Split(P \cup {m}, S, D, A, E, X, m)
  BY DEF m
<1>4. W = 1 .. m /\ U = 1 .. n
  BY DEF m, U, W
<1> QED BY <1>3, <1>4 DEF Split

LEMMA SplitDrop ==
    ASSUME NEW P, NEW S, NEW D, NEW A, NEW E, NEW X, NEW n, NEW h \in P,
           Split(P, S, D, A, E, X, n)
    PROVE  Split(P \ {h}, S, D, A, E \cup {h}, X, n)
BY DEF Split

LEMMA InOnePlaceSaysSo ==
    ASSUME SessionTypeOK, InOnePlace PROVE EveryMessageInOnePlace
<1>1. /\ ToSet(pending) = {pending[i] : i \in 1 .. Len(pending)}
      /\ ToSet(dead) = {dead[i] : i \in 1 .. Len(dead)}
  BY LenProperties DEF ToSet, SessionTypeOK
<1> DEFINE P == ToSet(pending)
           D == ToSet(dead)
<1>2. Places = <<P, Slot, D, acked, evicted, expired>>
  BY <1>1, Zenon DEF Places, Slot
<1>3. Split(P, Slot, D, acked, evicted, expired, arrived)
  BY DEF InOnePlace
<1> HIDE DEF P, D
<1>4. /\ Places[1] = P /\ Places[2] = Slot /\ Places[3] = D
      /\ Places[4] = acked /\ Places[5] = evicted /\ Places[6] = expired
  BY <1>2
<1>5. ASSUME NEW i \in 1 .. 6, NEW j \in 1 .. 6, i # j PROVE Places[i] \cap Places[j] = {}
  <2>1. ASSUME NEW k \in 1 .. 6, NEW l \in 1 .. 6, k < l PROVE Places[k] \cap Places[l] = {}
    <3>1. CASE k = 1
      BY <1>3, <1>4, <2>1, <3>1 DEF Split
    <3>2. CASE k = 2
      BY <1>3, <1>4, <2>1, <3>2 DEF Split
    <3>3. CASE k \in 3 .. 5
      BY <1>3, <1>4, <2>1, <3>3 DEF Split
    <3> QED BY <2>1, <3>1, <3>2, <3>3
  <2>2. i < j \/ j < i
    BY <1>5
  <2> QED BY <2>1, <2>2
<1>6. UNION {Places[i] : i \in 1 .. 6} = 1 .. arrived
  <2>1. \A m : m \in UNION {Places[i] : i \in 1 .. 6}
                  <=> m \in P \cup Slot \cup D \cup acked \cup evicted \cup expired
    <3>1. \A m : m \in UNION {Places[i] : i \in 1 .. 6} <=> \E i \in 1 .. 6 : m \in Places[i]
      OBVIOUS
    <3> QED BY <1>4, <3>1
  <2> QED BY <1>3, <2>1 DEF Split
<1> QED BY <1>5, <1>6 DEF EveryMessageInOnePlace, InOnePlace

(* The first of an ascending sequence leaves it when it is taken away. *)
LEMMA AscendingHead ==
    ASSUME NEW s \in Seq(Int), s # <<>>, Ascending(s)
    PROVE  Head(s) \in ToSet(s) /\ ToSet(Tail(s)) = ToSet(s) \ {Head(s)}
<1>1. ToSet(s) = {Head(s)} \cup ToSet(Tail(s)) /\ Head(s) \in ToSet(s)
  BY ToSetHeadTail
<1>2. Head(s) \notin ToSet(Tail(s))
  <2>1. Tail(s) \in Seq(Int) /\ Head(s) \in Int
    BY HeadTailProperties
  <2>2. \A i \in 1 .. Len(Tail(s)) : Head(s) < Tail(s)[i]
    BY AscendingTail
  <2>3. DOMAIN Tail(s) = 1 .. Len(Tail(s)) /\ \A i \in 1 .. Len(Tail(s)) : Tail(s)[i] \in Int
    BY <2>1, ElementOfSeq, LenProperties
  <2> QED BY <2>1, <2>2, <2>3 DEF ToSet
<1> QED BY <1>1, <1>2

(* Purging takes the messages of a prefix out of the dead queue. *)
LEMMA PurgeSplits ==
    ASSUME NEW s \in Seq(Int), NEW k \in 1 .. Len(s),
           \A i, j \in 1 .. Len(s) : i # j => s[i] # s[j]
    PROVE  LET t == SubSeq(s, k + 1, Len(s))
               gone == {s[i] : i \in 1 .. (Len(s) - Len(t))}
           IN  /\ \A i, j \in 1 .. Len(t) : i # j => t[i] # t[j]
               /\ ToSet(s) = ToSet(t) \cup gone /\ ToSet(t) \cap gone = {}
<1> DEFINE n == Len(s)
           t == SubSeq(s, k + 1, n)
<1>1. /\ n \in Nat /\ DOMAIN s = 1 .. n /\ DOMAIN t = 1 .. Len(t)
      /\ Len(t) = n - k /\ \A i \in 1 .. n - k : t[i] = s[k + i]
  <2>1. n \in Nat /\ DOMAIN s = 1 .. n
    BY LenProperties
  <2>2. k + 1 \in 1 .. n + 1 /\ n \in k .. n /\ \A i \in k + 1 .. n : s[i] \in Int
    BY <2>1, ElementOfSeq
  <2> DEFINE first == k + 1
  <2>3. first \in Int /\ n \in Int /\ \A i \in first .. n : s[i] \in Int
    BY <2>1, <2>2
  <2> HIDE DEF n, first
  <2>4. /\ SubSeq(s, first, n) \in Seq(Int)
        /\ Len(SubSeq(s, first, n)) = IF first <= n THEN n - first + 1 ELSE 0
        /\ \A i \in 1 .. n - first + 1 : SubSeq(s, first, n)[i] = s[first + i - 1]
    BY <2>3, SubSeqProperties
  <2>5. t \in Seq(Int) /\ Len(t) = n - k /\ \A i \in 1 .. n - k : t[i] = s[k + i]
    BY <2>1, <2>2, <2>4 DEF first
  <2> QED BY <2>1, <2>5, LenProperties
<1> HIDE DEF n, t
<1>2. n - Len(t) = k /\ \A i \in 1 .. n - k : k + i \in 1 .. n
  BY <1>1 DEF n
<1>3. \A i \in 1 .. n : i \in 1 .. k \/ i - k \in 1 .. n - k
  BY <1>1 DEF n
<1>4. \A i, j \in 1 .. Len(t) : i # j => t[i] # t[j]
  <2> SUFFICES ASSUME NEW i \in 1 .. Len(t), NEW j \in 1 .. Len(t), i # j PROVE t[i] # t[j]
    OBVIOUS
  <2>1. k + i \in 1 .. n /\ k + j \in 1 .. n /\ k + i # k + j
    BY <1>1, <1>2 DEF n
  <2> QED BY <1>1, <2>1 DEF n
<1> DEFINE gone == {s[i] : i \in 1 .. k}
<1>5. ToSet(s) = ToSet(t) \cup gone
  <2>1. ASSUME NEW i \in 1 .. n PROVE s[i] \in ToSet(t) \cup gone
    <3>1. CASE i \in 1 .. k
      BY <3>1
    <3>2. CASE i - k \in 1 .. n - k
      <4>1. t[i - k] = s[i]
        BY <1>1, <3>2 DEF n
      <4> QED BY <1>1, <3>2, <4>1 DEF ToSet
    <3> QED BY <1>3, <3>1, <3>2
  <2>2. \A i \in 1 .. n - k : t[i] \in ToSet(s)
    BY <1>1, <1>2 DEF ToSet
  <2>3. gone \subseteq ToSet(s)
    BY <1>1 DEF ToSet, n
  <2> QED BY <1>1, <2>1, <2>2, <2>3 DEF ToSet
<1>6. ToSet(t) \cap gone = {}
  <2> SUFFICES ASSUME NEW i \in 1 .. n - k, NEW j \in 1 .. k, t[i] = s[j] PROVE FALSE
    BY <1>1 DEF ToSet
  <2>1. k + i \in 1 .. n /\ j \in 1 .. n /\ k + i # j
    BY <1>1, <1>2 DEF n
  <2> QED BY <1>1, <2>1 DEF n
<1>7. gone = {s[i] : i \in 1 .. (n - Len(t))}
  BY <1>2
<1> QED BY <1>4, <1>5, <1>6, <1>7 DEF n, t

LEMMA InOnePlaceStep ==
    SessionTypeOK /\ ArrivalOrder /\ InOnePlace /\ [SessionNext]_sessionVars => InOnePlace'
<1> SUFFICES ASSUME SessionTypeOK, ArrivalOrder, InOnePlace, [SessionNext]_sessionVars
             PROVE  InOnePlace'
  OBVIOUS
<1> DEFINE P == ToSet(pending)
           D == ToSet(dead)
<1>1. /\ Split(P, Slot, D, acked, evicted, expired, arrived)
      /\ \A i, j \in 1 .. Len(dead) : i # j => dead[i] # dead[j]
  BY DEF InOnePlace
<1>2. /\ pending \in Seq(Int) /\ dead \in Seq(Int) /\ Ascending(pending)
      /\ arrived \in Nat /\ processing \in 0 .. arrived /\ P \subseteq 1 .. arrived
  <2>1. 1 .. arrived \subseteq Int /\ dead \in Seq(1 .. arrived)
    BY DEF SessionTypeOK
  <2>2. dead \in Seq(Int)
    BY <2>1, SeqMonotonic
  <2>3. P \subseteq 1 .. arrived
    BY <1>1, Zenon DEF Split
  <2> QED BY <2>2, <2>3, OrderFacts DEF SessionTypeOK
<1>3. pending # <<>> => /\ Head(pending) \in P /\ ToSet(Tail(pending)) = P \ {Head(pending)}
                        /\ Tail(pending) \in Seq(Int)
  BY <1>2, AscendingHead, HeadTailProperties
<1>4. processing # NoMsg => Slot = {processing}
  BY DEF Slot
<1>5. processing = NoMsg => Slot = {}
  BY DEF Slot
<1> HIDE DEF P, D
<1>6. CASE SessionEnqueue
  <2>1. /\ arrived' = arrived + 1 /\ UNCHANGED <<processing, dead, acked, expired>>
        /\ pending' = Append(IF Full THEN Tail(pending) ELSE pending, arrived + 1)
        /\ evicted' = IF Full THEN evicted \cup {Head(pending)} ELSE evicted
    BY <1>6 DEF SessionEnqueue, Enqueue
  <2>2. Slot' = Slot /\ ToSet(dead)' = D
    BY <2>1 DEF Slot, D
  <2>3. Split(P \cup {arrived + 1}, Slot, D, acked, evicted, expired, arrived + 1)
    BY <1>1, <1>2, SplitArrival
  <2>4. CASE Full
    <3>1. pending # <<>>
      BY <1>2, <2>4, FullHasHead
    <3>2. pending' = Append(Tail(pending), arrived + 1) /\ evicted' = evicted \cup {Head(pending)}
      BY <2>1, <2>4
    <3>3. ToSet(pending)' = (P \ {Head(pending)}) \cup {arrived + 1}
      <4>1. Tail(pending) \in Seq(Int) /\ arrived + 1 \in Int
        BY <1>2, <1>3, <3>1
      <4>2. ToSet(Append(Tail(pending), arrived + 1)) = ToSet(Tail(pending)) \cup {arrived + 1}
        BY <4>1, ToSetAppend, Zenon
      <4> QED BY <1>3, <3>1, <3>2, <4>2
    <3>4. Head(pending) \in P /\ Head(pending) # arrived + 1
      BY <1>2, <1>3, <3>1
    <3>5. ToSet(pending)' = (P \cup {arrived + 1}) \ {Head(pending)}
      BY <3>3, <3>4
    <3>6. Split(ToSet(pending)', Slot, D, acked, evicted \cup {Head(pending)}, expired,
                arrived + 1)
      BY <2>3, <3>4, <3>5, SplitDrop
    <3> QED BY <1>1, <2>1, <2>2, <3>2, <3>6 DEF InOnePlace
  <2>5. CASE ~Full
    <3>1. ToSet(pending)' = P \cup {arrived + 1}
      BY <1>2, <2>1, <2>5, ToSetAppend DEF P
    <3> QED BY <1>1, <2>1, <2>2, <2>3, <2>5, <3>1 DEF InOnePlace
  <2> QED BY <2>4, <2>5
<1>7. CASE SessionDequeue
  <2>1. /\ processing = NoMsg /\ pending # <<>> /\ processing' = Head(pending)
        /\ pending' = Tail(pending) /\ UNCHANGED <<dead, arrived, acked, evicted, expired>>
    BY <1>7 DEF SessionDequeue, Dequeue, CanDequeue
  <2>2. Head(pending) # NoMsg
    BY <1>2, <1>3, <2>1, SessionAssumption
  <2>3. Slot' = {Head(pending)} /\ ToSet(pending)' = P \ {Head(pending)} /\ ToSet(dead)' = D
    BY <1>3, <2>1, <2>2 DEF Slot, D
  <2> QED BY <1>1, <1>3, <1>5, <2>1, <2>3 DEF Split, InOnePlace
<1>8. CASE SessionAck
  <2>1. /\ processing # NoMsg /\ processing' = NoMsg /\ acked' = acked \cup {processing}
        /\ UNCHANGED <<pending, dead, arrived, evicted, expired>>
    BY <1>8 DEF SessionAck, Ack
  <2>2. Slot' = {} /\ ToSet(pending)' = P /\ ToSet(dead)' = D
    BY <2>1 DEF Slot, P, D
  <2> QED BY <1>1, <1>4, <2>1, <2>2 DEF Split, InOnePlace
<1>9. CASE SessionNack
  <2>1. PICK late \in BOOLEAN :
           /\ processing' = NoMsg
           /\ pending' = IF late THEN pending ELSE <<processing>> \o pending
           /\ dead' = IF late THEN Append(dead, processing) ELSE dead
    BY <1>9 DEF SessionNack, Nack
  <2>2. /\ processing # NoMsg /\ UNCHANGED <<arrived, acked, evicted, expired>>
        /\ processing \in Int /\ Slot = {processing} /\ Slot' = {}
    BY <1>2, <1>4, <1>9, <2>1 DEF SessionNack, Slot
  <2>3. CASE late
    <3>1. ToSet(pending)' = P /\ ToSet(dead)' = D \cup {processing}
      BY <1>2, <2>1, <2>2, <2>3, ToSetAppend DEF P, D
    <3>2. processing \notin D
      BY <1>1, <2>2 DEF Split
    <3>3. /\ Len(dead) \in Nat /\ Len(dead') = Len(dead) + 1 /\ dead'[Len(dead) + 1] = processing
          /\ \A i \in 1 .. Len(dead) : dead'[i] = dead[i] /\ dead[i] \in D
      BY <1>2, <2>1, <2>2, <2>3, AppendProperties, LenProperties DEF D, ToSet
    <3>4. \A i, j \in 1 .. Len(dead') : i # j => dead'[i] # dead'[j]
      BY <1>1, <3>2, <3>3
    <3> QED BY <1>1, <2>2, <3>1, <3>4 DEF Split, InOnePlace
  <2>4. CASE ~late
    <3>1. ToSet(dead)' = D /\ dead' = dead
      BY <2>1, <2>4 DEF D
    <3>2. ToSet(pending)' = P \cup {processing}
      <4>1. <<processing>> \in Seq(Int) /\ ToSet(<<processing>>) = {processing}
        BY <2>2, ToSetSingle
      <4>2. ToSet(<<processing>> \o pending) = ToSet(<<processing>>) \cup ToSet(pending)
        <5>1. pending \in Seq(Int) /\ <<processing>> \in Seq(Int)
          BY <1>2, <4>1
        <5> QED BY <5>1, ToSetConcat, Zenon
      <4>3. pending' = <<processing>> \o pending
        BY <2>1, <2>4
      <4> QED BY <4>1, <4>2, <4>3 DEF P
    <3> QED BY <1>1, <2>2, <3>1, <3>2 DEF Split, InOnePlace
  <2> QED BY <2>3, <2>4
<1>10. CASE SessionPurge
  <2>1. PICK k \in 1 .. Len(dead) : dead' = SubSeq(dead, k + 1, Len(dead))
    BY <1>10 DEF SessionPurge, PurgeDead
  <2> DEFINE gone == {dead[i] : i \in 1 .. (Len(dead) - Len(dead'))}
  <2>2. /\ expired' = expired \cup gone
        /\ UNCHANGED <<pending, processing, arrived, acked, evicted>>
    BY <1>10 DEF SessionPurge, PurgeDead
  <2>3. /\ \A i, j \in 1 .. Len(dead') : i # j => dead'[i] # dead'[j]
        /\ D = ToSet(dead)' \cup gone /\ ToSet(dead)' \cap gone = {}
    BY <1>1, <1>2, <2>1, PurgeSplits DEF D
  <2>4. Slot' = Slot /\ ToSet(pending)' = P
    BY <2>2 DEF Slot, P
  <2> HIDE DEF gone
  <2> QED BY <1>1, <2>2, <2>3, <2>4 DEF Split, InOnePlace
<1>11. CASE UNCHANGED sessionVars
  BY <1>1, <1>11 DEF sessionVars, Split, InOnePlace, Slot, P, D
<1> QED BY <1>6, <1>7, <1>8, <1>9, <1>10, <1>11 DEF SessionNext

(* queue.py:65-166: no method puts a message in two places or loses one    *)
(* without a trace; what a full queue drops and what is purged is          *)
(* accounted for.                                                          *)
THEOREM NoneLost == SessionSpec => []EveryMessageInOnePlace
<1>1. SessionInit => InOnePlace
  <2> SUFFICES ASSUME SessionInit PROVE InOnePlace
    OBVIOUS
  <2>1. restored \in Nat /\ pending = [i \in 1 .. restored |-> i] /\ Len(pending) = restored
    BY SessionAssumption DEF SessionInit
  <2>2. ToSet(pending) = 1 .. arrived /\ Slot = {} /\ ToSet(dead) = {} /\ Len(dead) = 0
    BY <2>1, ToSetEmpty DEF SessionInit, ToSet, Slot
  <2> QED BY <2>2 DEF SessionInit, Split, InOnePlace
<1> QED BY <1>1, InOnePlaceStep, InOnePlaceSaysSo, SessionTypeCorrect, FirstInFirstOut, PTL
        DEF SessionSpec

-----------------------------------------------------------------------------
(* Sequences and loops *)

(* Induction on sequences: a set that has the empty sequence and, with a   *)
(* sequence, every longer one has all of them.                             *)
LEMMA SequenceInduction ==
    ASSUME NEW S, NEW T, <<>> \in T,
           \A s \in Seq(S) \cap T, e \in S : Append(s, e) \in T
    PROVE  \A s \in Seq(S) : s \in T
<1> DEFINE Bad == {n \in Nat : \E s \in Seq(S) : Len(s) = n /\ s \notin T}
<1> SUFFICES ASSUME NEW s0 \in Seq(S), s0 \notin T PROVE FALSE
  OBVIOUS
<1>1. Bad \subseteq Nat /\ Bad # {}
  BY LenProperties
<1>2. \E n \in Bad : \A k \in Bad : ~(<<k, n>> \in OpToRel(<, Nat))
  <2> HIDE DEF Bad
  <2> QED BY <1>1, WFMin, NatLessThanWellFounded, Zenon
<1>3. PICK n \in Bad : \A k \in Bad : ~(k < n)
  BY <1>2, <1>1 DEF OpToRel
<1>4. PICK s \in Seq(S) : Len(s) = n /\ s \notin T
  BY <1>3
<1>5. s # <<>>
  BY <1>4
<1>6. PICK t \in Seq(S), e \in S : s = Append(t, e)
  BY <1>5, SequenceEmptyOrAppend
<1>7. Len(t) \in Nat /\ Len(t) < n
  BY <1>4, <1>6, AppendProperties, LenProperties
<1>8. t \in T
  BY <1>3, <1>7
<1> QED BY <1>4, <1>6, <1>8

LEMMA FrontLast ==
    ASSUME NEW S, NEW s \in Seq(S), NEW e \in S
    PROVE  /\ Append(s, e) # <<>> /\ Append(s, e) \in Seq(S)
           /\ Last(Append(s, e)) = e /\ Front(Append(s, e)) = s
<1>1. /\ Append(s, e) # <<>> /\ Append(s, e) \in Seq(S) /\ Len(Append(s, e)) = Len(s) + 1
      /\ Append(s, e)[Len(s) + 1] = e /\ \A i \in 1 .. Len(s) : Append(s, e)[i] = s[i]
      /\ Len(s) \in Nat
  BY AppendProperties, LenProperties
<1>2. SubSeq(Append(s, e), 1, Len(s)) = s
  <2> DEFINE t == SubSeq(Append(s, e), 1, Len(s))
  <2>1. t \in Seq(S) /\ Len(t) = Len(s) /\ \A i \in 1 .. Len(s) : t[i] = s[i]
    <3>1. \A i \in 1 .. Len(s) : Append(s, e)[i] \in S
      BY <1>1, ElementOfSeq
    <3> HIDE DEF t
    <3> QED BY <1>1, <3>1, SubSeqProperties DEF t
  <2> QED BY <2>1, SeqEqual
<1> QED BY <1>1, <1>2 DEF Front, Last

(* A loop over a sequence that starts from z and takes every element into  *)
(* account by step, with the function of the sequence that it computes.    *)
Loop(S, D, z, step) == z \in D /\ step \in [D \X S -> D]

Computes(g, S, D, z, step) ==
    /\ g \in [Seq(S) -> D]
    /\ g[<<>>] = z
    /\ \A s \in Seq(S), e \in S : g[Append(s, e)] = step[<<g[s], e>>]

LEMMA LoopComputes ==
    ASSUME NEW S, NEW D, NEW z, NEW step, Loop(S, D, z, step)
    PROVE  \E g : Computes(g, S, D, z, step)
<1> USE DEF Loop
<1> DEFINE Trace(s, t) == /\ t \in [0 .. Len(s) -> D] /\ t[0] = z
                          /\ \A i \in 1 .. Len(s) : t[i] = step[<<t[i - 1], s[i]>>]
           Value(s, d) == \E t : Trace(s, t) /\ t[Len(s)] = d
           T == {s \in Seq(S) : \E d \in D : \A c : Value(s, c) <=> c = d}
<1>1. <<>> \in T
  <2>1. \A c : Value(<<>>, c) => c = z
    OBVIOUS
  <2>2. Value(<<>>, z)
    <3> DEFINE t == [i \in 0 .. 0 |-> z]
    <3>1. Trace(<<>>, t) /\ t[Len(<<>>)] = z
      OBVIOUS
    <3> QED BY <3>1
  <2>3. <<>> \in Seq(S)
    OBVIOUS
  <2> HIDE DEF Value
  <2> QED BY <2>1, <2>2, <2>3
<1>2. ASSUME NEW s \in Seq(S), NEW e \in S, NEW d \in D, \A c : Value(s, c) <=> c = d
      PROVE  \A c : Value(Append(s, e), c) <=> c = step[<<d, e>>]
  <2> DEFINE n == Len(s)
             u == Append(s, e)
  <2>1. n \in Nat /\ Len(u) = n + 1 /\ u[n + 1] = e /\ \A i \in 1 .. n : u[i] = s[i]
    BY AppendProperties, LenProperties
  <2>2. PICK t : Trace(s, t) /\ t[n] = d
    BY <1>2
  <2>3. Value(u, step[<<d, e>>])
    <3> DEFINE w == [i \in 0 .. n + 1 |-> IF i <= n THEN t[i] ELSE step[<<d, e>>]]
    <3>1. step[<<d, e>>] \in D
      OBVIOUS
    <3>2. w \in [0 .. Len(u) -> D] /\ w[0] = z /\ w[Len(u)] = step[<<d, e>>]
      BY <2>1, <2>2, <3>1
    <3>3. ASSUME NEW i \in 1 .. n + 1 PROVE w[i] = step[<<w[i - 1], u[i]>>]
      <4>1. CASE i = n + 1
        <5>1. i - 1 = n /\ i - 1 \in 0 .. n + 1 /\ i \in 0 .. n + 1 /\ ~(i <= n)
          BY <2>1, <4>1
        <5>2. w[i] = step[<<d, e>>] /\ w[i - 1] = d /\ u[i] = e
          BY <2>1, <2>2, <4>1, <5>1
        <5> QED BY <5>2
      <4>2. CASE i # n + 1
        <5>1. i \in 1 .. n /\ i - 1 \in 0 .. n /\ i \in 0 .. n
          BY <2>1, <4>2
        <5>2. w[i] = t[i] /\ w[i - 1] = t[i - 1] /\ u[i] = s[i]
          BY <2>1, <5>1
        <5> QED BY <2>2, <5>1, <5>2
      <4> QED BY <4>1, <4>2
    <3> HIDE DEF w, u
    <3> QED BY <2>1, <3>2, <3>3
  <2>4. ASSUME NEW w, Trace(u, w) PROVE w[Len(u)] = step[<<d, e>>]
    <3> DEFINE r == [i \in 0 .. n |-> w[i]]
    <3>1. r \in [0 .. n -> D] /\ r[0] = z
      <4>1. \A i \in 0 .. n : i \in 0 .. n + 1
        BY <2>1
      <4> QED BY <2>1, <2>4, <4>1
    <3>2. \A i \in 1 .. n : r[i] = step[<<r[i - 1], s[i]>>]
      <4> TAKE i \in 1 .. n
      <4>1. i \in 1 .. n + 1 /\ i - 1 \in 0 .. n /\ i \in 0 .. n
        BY <2>1
      <4>2. w[i] = step[<<w[i - 1], u[i]>>]
        BY <2>1, <2>4, <4>1
      <4> QED BY <2>1, <4>1, <4>2
    <3>3. r[n] = w[n]
      BY <2>1
    <3>4. Value(s, w[n])
      <4> HIDE DEF r
      <4> QED BY <3>1, <3>2, <3>3
    <3>5. w[n] = d
      BY <1>2, <3>4
    <3>6. n + 1 \in 1 .. Len(u) /\ (n + 1) - 1 = n
      BY <2>1
    <3>7. w[n + 1] = step[<<w[(n + 1) - 1], u[n + 1]>>]
      BY <2>4, <3>6
    <3> QED BY <2>1, <3>5, <3>6, <3>7
  <2> QED BY <2>3, <2>4
<1> HIDE DEF Value
<1>3. \A s \in Seq(S) \cap T, e \in S : Append(s, e) \in T
  <2> SUFFICES ASSUME NEW s \in Seq(S), s \in T, NEW e \in S PROVE Append(s, e) \in T
    OBVIOUS
  <2>1. PICK d \in D : \A c : Value(s, c) <=> c = d
    OBVIOUS
  <2>2. \A c : Value(Append(s, e), c) <=> c = step[<<d, e>>]
    BY <1>2, <2>1
  <2>3. Append(s, e) \in Seq(S) /\ step[<<d, e>>] \in D
    BY AppendProperties
  <2> QED BY <2>2, <2>3
<1>4. \A s \in Seq(S) : s \in T
  <2> HIDE DEF T
  <2> QED BY <1>1, <1>3, SequenceInduction
<1> DEFINE g == [s \in Seq(S) |-> CHOOSE d \in D : Value(s, d)]
<1>5. \A s \in Seq(S) : g[s] \in D /\ \A c : Value(s, c) <=> c = g[s]
  <2> TAKE s \in Seq(S)
  <2>1. PICK d \in D : \A c : Value(s, c) <=> c = d
    BY <1>4
  <2>2. g[s] \in D /\ Value(s, g[s])
    BY <2>1
  <2> QED BY <2>1, <2>2
<1>6. g \in [Seq(S) -> D]
  BY <1>5
<1>7. g[<<>>] = z
  <2>1. Value(<<>>, z)
    <3> DEFINE t == [i \in 0 .. 0 |-> z]
    <3>1. Trace(<<>>, t) /\ t[Len(<<>>)] = z
      OBVIOUS
    <3> QED BY <3>1 DEF Value
  <2> HIDE DEF g
  <2> QED BY <1>5, <2>1, EmptySeq
<1>8. \A s \in Seq(S), e \in S : g[Append(s, e)] = step[<<g[s], e>>]
  <2> TAKE s \in Seq(S), e \in S
  <2> HIDE DEF g
  <2>1. Value(Append(s, e), step[<<g[s], e>>])
    BY <1>2, <1>5
  <2>2. Append(s, e) \in Seq(S)
    BY AppendProperties
  <2> QED BY <1>5, <2>1, <2>2
<1> HIDE DEF g
<1> QED BY <1>6, <1>7, <1>8 DEF Computes

-----------------------------------------------------------------------------
(* The three loops, one element more. *)

LEMMA GarbageIsNoEntry == Garbage \notin Entries
BY DEF Garbage, Entries

LEMMA ParsedStep ==
    /\ Parsed \in [Seq(Lines) -> Seq(Entries)]
    /\ Parsed[<<>>] = <<>>
    /\ \A s \in Seq(Lines), e \in Lines :
          Parsed[Append(s, e)] = IF e = Garbage THEN Parsed[s] ELSE Append(Parsed[s], e)
<1> DEFINE step == [p \in Seq(Entries) \X Lines |->
                       IF p[2] = Garbage THEN p[1] ELSE Append(p[1], p[2])]
           body(g, lines) == IF lines = <<>> THEN <<>>
                             ELSE IF Last(lines) = Garbage THEN g[Front(lines)]
                             ELSE Append(g[Front(lines)], Last(lines))
<1>1. step \in [Seq(Entries) \X Lines -> Seq(Entries)]
  BY DEF Lines
<1>2. <<>> \in Seq(Entries) /\ <<>> \in Seq(Lines)
  BY EmptySeq
<1>3. \E g : Computes(g, Lines, Seq(Entries), <<>>, step)
  <2>1. Loop(Lines, Seq(Entries), <<>>, step)
    BY <1>1, <1>2 DEF Loop
  <2> QED BY <2>1, LoopComputes
<1> PICK g : Computes(g, Lines, Seq(Entries), <<>>, step)
  BY <1>3
<1> USE DEF Computes
<1>4. g = [lines \in Seq(Lines) |-> body(g, lines)]
  <2> SUFFICES ASSUME NEW lines \in Seq(Lines) PROVE g[lines] = body(g, lines)
    BY <1>3
  <2>1. CASE lines = <<>>
    BY <1>3, <2>1
  <2>2. CASE lines # <<>>
    <3>1. PICK s \in Seq(Lines), e \in Lines : lines = Append(s, e)
      BY <2>2, SequenceEmptyOrAppend
    <3>2. Last(lines) = e /\ Front(lines) = s
      BY <3>1, FrontLast
    <3>3. g[lines] = step[<<g[s], e>>] /\ g[s] \in Seq(Entries)
      BY <1>3, <3>1
    <3> QED BY <2>2, <3>2, <3>3
  <2> QED BY <2>1, <2>2
<1>5. Parsed = [lines \in Seq(Lines) |-> body(Parsed, lines)]
  BY <1>4, Zenon DEF Parsed
<1>6. Parsed[<<>>] = <<>>
  BY <1>2, <1>5
<1>7. \A s \in Seq(Lines), e \in Lines :
         Parsed[Append(s, e)] = IF e = Garbage THEN Parsed[s] ELSE Append(Parsed[s], e)
  <2> TAKE s \in Seq(Lines), e \in Lines
  <2>1. /\ Append(s, e) # <<>> /\ Append(s, e) \in Seq(Lines)
        /\ Last(Append(s, e)) = e /\ Front(Append(s, e)) = s
    BY FrontLast
  <2> DEFINE t == Append(s, e)
  <2>2. Parsed[t] = body(Parsed, t)
    BY <1>5, <2>1
  <2> HIDE DEF t
  <2>3. t # <<>> /\ Last(t) = e /\ Front(t) = s
    BY <2>1 DEF t
  <2> QED BY <2>2, <2>3 DEF t
<1>8. \A lines \in Seq(Lines) : Parsed[lines] \in Seq(Entries)
  <2> DEFINE T == {lines \in Seq(Lines) : Parsed[lines] \in Seq(Entries)}
  <2>1. <<>> \in T
    BY <1>2, <1>6
  <2>2. \A s \in Seq(Lines) \cap T, e \in Lines : Append(s, e) \in T
    <3> SUFFICES ASSUME NEW s \in Seq(Lines), Parsed[s] \in Seq(Entries), NEW e \in Lines
                 PROVE  Append(s, e) \in Seq(Lines) /\ Parsed[Append(s, e)] \in Seq(Entries)
      OBVIOUS
    <3>1. CASE e = Garbage
      BY <1>7, <3>1, AppendProperties
    <3>2. CASE e # Garbage
      <4>1. e \in Entries
        BY <3>2 DEF Lines
      <4>2. Append(Parsed[s], e) \in Seq(Entries)
        BY <4>1, AppendProperties
      <4>3. Append(s, e) \in Seq(Lines)
        BY AppendProperties
      <4> QED BY <1>7, <3>2, <4>2, <4>3
    <3> QED BY <3>1, <3>2
  <2>3. \A s \in Seq(Lines) : s \in T
    <3> HIDE DEF T
    <3> QED BY <2>1, <2>2, SequenceInduction
  <2> QED BY <2>3
<1>9. Parsed \in [Seq(Lines) -> Seq(Entries)]
  <2>1. Parsed = [lines \in Seq(Lines) |-> Parsed[lines]]
    BY <1>5
  <2> QED BY <1>8, <2>1
<1> QED BY <1>6, <1>7, <1>9

LEMMA AssignType ==
    ASSUME NEW dict \in Seq(Entries), NEW entry \in Entries
    PROVE  Assign(dict, entry) \in Seq(Entries)
BY DEF Assign

LEMMA LastOpsStep ==
    /\ LastOps \in [Seq(Entries) -> Seq(Entries)]
    /\ LastOps[<<>>] = <<>>
    /\ \A s \in Seq(Entries), e \in Entries :
          LastOps[Append(s, e)] = Assign(LastOps[s], e)
<1> DEFINE step == [p \in Seq(Entries) \X Entries |->
                       Assign(p[1], p[2])]
           body(g, ops) == IF ops = <<>> THEN <<>> ELSE Assign(g[Front(ops)], Last(ops))
<1>1. step \in [Seq(Entries) \X Entries -> Seq(Entries)]
  BY AssignType
<1>2. <<>> \in Seq(Entries) /\ <<>> \in Seq(Entries)
  BY EmptySeq
<1>3. \E g : Computes(g, Entries, Seq(Entries), <<>>, step)
  <2>1. Loop(Entries, Seq(Entries), <<>>, step)
    BY <1>1, <1>2 DEF Loop
  <2> QED BY <2>1, LoopComputes
<1> PICK g : Computes(g, Entries, Seq(Entries), <<>>, step)
  BY <1>3
<1> USE DEF Computes
<1>4. g = [ops \in Seq(Entries) |-> body(g, ops)]
  <2> SUFFICES ASSUME NEW ops \in Seq(Entries) PROVE g[ops] = body(g, ops)
    BY <1>3
  <2>1. CASE ops = <<>>
    BY <1>3, <2>1
  <2>2. CASE ops # <<>>
    <3>1. PICK s \in Seq(Entries), e \in Entries : ops = Append(s, e)
      BY <2>2, SequenceEmptyOrAppend
    <3>2. Last(ops) = e /\ Front(ops) = s
      BY <3>1, FrontLast
    <3>3. g[ops] = step[<<g[s], e>>] /\ g[s] \in Seq(Entries)
      BY <1>3, <3>1
    <3> QED BY <2>2, <3>2, <3>3
  <2> QED BY <2>1, <2>2
<1>5. LastOps = [ops \in Seq(Entries) |-> body(LastOps, ops)]
  BY <1>4, Zenon DEF LastOps
<1>6. LastOps[<<>>] = <<>>
  BY <1>2, <1>5
<1>7. \A s \in Seq(Entries), e \in Entries :
         LastOps[Append(s, e)] = Assign(LastOps[s], e)
  <2> TAKE s \in Seq(Entries), e \in Entries
  <2>1. /\ Append(s, e) # <<>> /\ Append(s, e) \in Seq(Entries)
        /\ Last(Append(s, e)) = e /\ Front(Append(s, e)) = s
    BY FrontLast
  <2> DEFINE t == Append(s, e)
  <2>2. LastOps[t] = body(LastOps, t)
    BY <1>5, <2>1
  <2> HIDE DEF t
  <2>3. t # <<>> /\ Last(t) = e /\ Front(t) = s
    BY <2>1 DEF t
  <2> QED BY <2>2, <2>3 DEF t
<1>8. \A ops \in Seq(Entries) : LastOps[ops] \in Seq(Entries)
  <2> DEFINE T == {ops \in Seq(Entries) : LastOps[ops] \in Seq(Entries)}
  <2>1. <<>> \in T
    BY <1>2, <1>6
  <2>2. \A s \in Seq(Entries) \cap T, e \in Entries : Append(s, e) \in T
    <3> SUFFICES ASSUME NEW s \in Seq(Entries), LastOps[s] \in Seq(Entries), NEW e \in Entries
                 PROVE  Append(s, e) \in Seq(Entries) /\ LastOps[Append(s, e)] \in Seq(Entries)
      OBVIOUS
    <3>1. Assign(LastOps[s], e) \in Seq(Entries)
      BY AssignType
    <3>2. Append(s, e) \in Seq(Entries)
      BY AppendProperties
    <3> QED BY <1>7, <3>1, <3>2
  <2>3. \A s \in Seq(Entries) : s \in T
    <3> HIDE DEF T
    <3> QED BY <2>1, <2>2, SequenceInduction
  <2> QED BY <2>3
<1>9. LastOps \in [Seq(Entries) -> Seq(Entries)]
  <2>1. LastOps = [ops \in Seq(Entries) |-> LastOps[ops]]
    BY <1>5
  <2> QED BY <1>8, <2>1
<1> QED BY <1>6, <1>7, <1>9

LEMMA EnqueuesStep ==
    /\ Enqueues \in [Seq(Entries) -> Seq(Entries)]
    /\ Enqueues[<<>>] = <<>>
    /\ \A s \in Seq(Entries), e \in Entries :
          Enqueues[Append(s, e)] = 
              IF e.op = "enqueue" THEN Append(Enqueues[s], e) ELSE Enqueues[s]
<1> DEFINE step == [p \in Seq(Entries) \X Entries |->
                       IF p[2].op = "enqueue" THEN Append(p[1], p[2]) ELSE p[1]]
           body(g, dict) == IF dict = <<>> THEN <<>>
                             ELSE IF Last(dict).op = "enqueue" THEN Append(g[Front(dict)], Last(dict))
                             ELSE g[Front(dict)]
<1>1. step \in [Seq(Entries) \X Entries -> Seq(Entries)]
  OBVIOUS
<1>2. <<>> \in Seq(Entries) /\ <<>> \in Seq(Entries)
  BY EmptySeq
<1>3. \E g : Computes(g, Entries, Seq(Entries), <<>>, step)
  <2>1. Loop(Entries, Seq(Entries), <<>>, step)
    BY <1>1, <1>2 DEF Loop
  <2> QED BY <2>1, LoopComputes
<1> PICK g : Computes(g, Entries, Seq(Entries), <<>>, step)
  BY <1>3
<1> USE DEF Computes
<1>4. g = [dict \in Seq(Entries) |-> body(g, dict)]
  <2> SUFFICES ASSUME NEW dict \in Seq(Entries) PROVE g[dict] = body(g, dict)
    BY <1>3
  <2>1. CASE dict = <<>>
    BY <1>3, <2>1
  <2>2. CASE dict # <<>>
    <3>1. PICK s \in Seq(Entries), e \in Entries : dict = Append(s, e)
      BY <2>2, SequenceEmptyOrAppend
    <3>2. Last(dict) = e /\ Front(dict) = s
      BY <3>1, FrontLast
    <3>3. g[dict] = step[<<g[s], e>>] /\ g[s] \in Seq(Entries)
      BY <1>3, <3>1
    <3> QED BY <2>2, <3>2, <3>3
  <2> QED BY <2>1, <2>2
<1>5. Enqueues = [dict \in Seq(Entries) |-> body(Enqueues, dict)]
  BY <1>4, Zenon DEF Enqueues
<1>6. Enqueues[<<>>] = <<>>
  BY <1>2, <1>5
<1>7. \A s \in Seq(Entries), e \in Entries :
         Enqueues[Append(s, e)] = 
              IF e.op = "enqueue" THEN Append(Enqueues[s], e) ELSE Enqueues[s]
  <2> TAKE s \in Seq(Entries), e \in Entries
  <2>1. /\ Append(s, e) # <<>> /\ Append(s, e) \in Seq(Entries)
        /\ Last(Append(s, e)) = e /\ Front(Append(s, e)) = s
    BY FrontLast
  <2> DEFINE t == Append(s, e)
  <2>2. Enqueues[t] = body(Enqueues, t)
    BY <1>5, <2>1
  <2> HIDE DEF t
  <2>3. t # <<>> /\ Last(t) = e /\ Front(t) = s
    BY <2>1 DEF t
  <2> QED BY <2>2, <2>3 DEF t
<1>8. \A dict \in Seq(Entries) : Enqueues[dict] \in Seq(Entries)
  <2> DEFINE T == {dict \in Seq(Entries) : Enqueues[dict] \in Seq(Entries)}
  <2>1. <<>> \in T
    BY <1>2, <1>6
  <2>2. \A s \in Seq(Entries) \cap T, e \in Entries : Append(s, e) \in T
    <3> SUFFICES ASSUME NEW s \in Seq(Entries), Enqueues[s] \in Seq(Entries), NEW e \in Entries
                 PROVE  Append(s, e) \in Seq(Entries) /\ Enqueues[Append(s, e)] \in Seq(Entries)
      OBVIOUS
    <3>1. Append(Enqueues[s], e) \in Seq(Entries)
      BY AppendProperties
    <3>2. Append(s, e) \in Seq(Entries)
      BY AppendProperties
    <3> QED BY <1>7, <3>1, <3>2
  <2>3. \A s \in Seq(Entries) : s \in T
    <3> HIDE DEF T
    <3> QED BY <2>1, <2>2, SequenceInduction
  <2> QED BY <2>3
<1>9. Enqueues \in [Seq(Entries) -> Seq(Entries)]
  <2>1. Enqueues = [dict \in Seq(Entries) |-> Enqueues[dict]]
    BY <1>5
  <2> QED BY <1>8, <2>1
<1> QED BY <1>6, <1>7, <1>9

-----------------------------------------------------------------------------
(* What a restart would bring back, as a set, entry by entry. *)

Alive(lines) == ToSet(Restore(lines))

(* The last operation of every id. *)
Final(lines) == ToSet(LastOps[Parsed[lines]])

LEMMA ToSetAssign ==
    ASSUME NEW dict \in Seq(Entries), NEW entry \in Entries
    PROVE  ToSet(Assign(dict, entry)) = {x \in ToSet(dict) : x.id # entry.id} \cup {entry}
<1>1. CASE \E i \in DOMAIN dict : dict[i].id = entry.id
  <2> DEFINE d == [i \in DOMAIN dict |-> IF dict[i].id = entry.id THEN entry ELSE dict[i]]
  <2>1. Assign(dict, entry) = d
    BY <1>1 DEF Assign
  <2>2. ToSet(d) = {d[i] : i \in DOMAIN dict}
    BY DEF ToSet
  <2>3. PICK k \in DOMAIN dict : dict[k].id = entry.id
    BY <1>1
  <2>4. \A x : x \in ToSet(d) <=> x \in {x1 \in ToSet(dict) : x1.id # entry.id} \cup {entry}
    BY <2>2, <2>3 DEF ToSet
  <2> QED BY <2>1, <2>4
<1>2. CASE ~ \E i \in DOMAIN dict : dict[i].id = entry.id
  <2>1. Assign(dict, entry) = Append(dict, entry)
    BY <1>2 DEF Assign
  <2>2. \A x \in ToSet(dict) : x.id # entry.id
    BY <1>2 DEF ToSet
  <2> QED BY <2>1, <2>2, ToSetAppend
<1> QED BY <1>1, <1>2

LEMMA FinalStep ==
    /\ Final(<<>>) = {}
    /\ \A s \in Seq(Lines) : Final(s) \subseteq Entries
    /\ \A s \in Seq(Lines), e \in Lines :
          Final(Append(s, e)) = IF e = Garbage THEN Final(s)
                                ELSE {x \in Final(s) : x.id # e.id} \cup {e}
<1>1. Final(<<>>) = {}
  BY ParsedStep, LastOpsStep, ToSetEmpty DEF Final
<1>2. ASSUME NEW s \in Seq(Lines) PROVE Final(s) \subseteq Entries
  <2>1. LastOps[Parsed[s]] \in Seq(Entries)
    BY ParsedStep, LastOpsStep
  <2> QED BY <2>1, LenProperties, ElementOfSeq DEF Final, ToSet
<1>3. ASSUME NEW s \in Seq(Lines), NEW e \in Lines
      PROVE  Final(Append(s, e)) = IF e = Garbage THEN Final(s)
                                ELSE {x \in Final(s) : x.id # e.id} \cup {e}
  <2>1. CASE e = Garbage
    BY <2>1, ParsedStep DEF Final
  <2>2. CASE e # Garbage
    <3>1. e \in Entries /\ Parsed[s] \in Seq(Entries) /\ LastOps[Parsed[s]] \in Seq(Entries)
      BY <2>2, ParsedStep, LastOpsStep DEF Lines
    <3>2. LastOps[Parsed[Append(s, e)]] = Assign(LastOps[Parsed[s]], e)
      BY <2>2, <3>1, ParsedStep, LastOpsStep
    <3> QED BY <2>2, <3>1, <3>2, ToSetAssign DEF Final
  <2> QED BY <2>1, <2>2
<1> QED BY <1>1, <1>2, <1>3

LEMMA EnqueuesSet ==
    ASSUME NEW dict \in Seq(Entries)
    PROVE  ToSet(Enqueues[dict]) = {x \in ToSet(dict) : x.op = "enqueue"}
<1> DEFINE T == {d \in Seq(Entries) :
                    ToSet(Enqueues[d]) = {x \in ToSet(d) : x.op = "enqueue"}}
<1>1. <<>> \in T
  BY EmptySeq, EnqueuesStep, ToSetEmpty
<1>2. ASSUME NEW d \in Seq(Entries), d \in T, NEW e \in Entries
      PROVE  Append(d, e) \in T
  <2>1. Enqueues[d] \in Seq(Entries) /\ Append(d, e) \in Seq(Entries)
    BY EnqueuesStep, AppendProperties
  <2>2. ToSet(Append(d, e)) = ToSet(d) \cup {e}
    BY ToSetAppend
  <2>3. CASE e.op = "enqueue"
    <3>1. ToSet(Enqueues[Append(d, e)]) = ToSet(Enqueues[d]) \cup {e}
      BY <2>1, <2>3, EnqueuesStep, ToSetAppend
    <3> QED BY <1>2, <2>1, <2>2, <2>3, <3>1
  <2>4. CASE e.op # "enqueue"
    <3>1. ToSet(Enqueues[Append(d, e)]) = ToSet(Enqueues[d])
      BY <2>4, EnqueuesStep
    <3> QED BY <1>2, <2>1, <2>2, <2>4, <3>1
  <2> QED BY <2>3, <2>4
<1>3. \A d \in Seq(Entries) : d \in T
  <2>1. \A s \in Seq(Entries) \cap T, e \in Entries : Append(s, e) \in T
    BY <1>2
  <2> HIDE DEF T
  <2> QED BY <1>1, <2>1, SequenceInduction
<1> QED BY <1>3

(* A message is brought back iff its last operation is an enqueue. *)
LEMMA AliveFinal ==
    ASSUME NEW lines \in Seq(Lines)
    PROVE  \A m : m \in Alive(lines) <=> \E x \in Final(lines) : x.op = "enqueue" /\ x.id = m
<1> DEFINE kept == Enqueues[LastOps[Parsed[lines]]]
<1>1. Parsed[lines] \in Seq(Entries) /\ LastOps[Parsed[lines]] \in Seq(Entries)
  BY ParsedStep, LastOpsStep
<1>2. ToSet(kept) = {x \in Final(lines) : x.op = "enqueue"}
  BY <1>1, EnqueuesSet DEF Final
<1>3. Restore(lines) = [i \in DOMAIN kept |-> kept[i].id]
  BY DEF Restore, Unsettled, ReadAllOps
<1>4. Alive(lines) = {kept[i].id : i \in DOMAIN kept}
  BY <1>3 DEF Alive, ToSet
<1> HIDE DEF kept
<1>5. \A m : m \in Alive(lines) <=> \E x \in ToSet(kept) : x.id = m
  BY <1>4 DEF ToSet
<1> QED BY <1>2, <1>5

LEMMA AliveEntry ==
    ASSUME NEW s \in Seq(Lines), NEW e \in Entries
    PROVE  \A m : m \in Alive(Append(s, e)) <=>
                  (m \in Alive(s) /\ m # e.id) \/ (e.op = "enqueue" /\ m = e.id)
<1> DEFINE t == Append(s, e)
<1>1. e \in Lines /\ e # Garbage
  BY GarbageIsNoEntry DEF Lines
<1>2. t \in Seq(Lines)
  BY <1>1, AppendProperties
<1>3. Final(t) = {x \in Final(s) : x.id # e.id} \cup {e}
  BY <1>1, FinalStep
<1>4. \A m : m \in Alive(t) <=> \E x \in Final(t) : x.op = "enqueue" /\ x.id = m
  <2> HIDE DEF t
  <2> QED BY <1>2, AliveFinal
<1>5. \A m : m \in Alive(s) <=> \E x \in Final(s) : x.op = "enqueue" /\ x.id = m
  BY AliveFinal
<1> HIDE DEF t
<1> QED BY <1>3, <1>4, <1>5 DEF t

(* One entry more: an enqueue adds its message, an ack or a nack removes   *)
(* it, a line that does not parse changes nothing.                         *)
LEMMA AliveStep ==
    /\ Alive(<<>>) = {}
    /\ \A s \in Seq(Lines) : Alive(s) \subseteq Messages
    /\ \A s \in Seq(Lines) : Alive(Append(s, Garbage)) = Alive(s)
    /\ \A s \in Seq(Lines), e \in Entries :
          Alive(Append(s, e)) = IF e.op = "enqueue" THEN Alive(s) \cup {e.id}
                                                    ELSE Alive(s) \ {e.id}
<1>1. Alive(<<>>) = {}
  BY EmptySeq, AliveFinal, FinalStep
<1>2. ASSUME NEW s \in Seq(Lines) PROVE Alive(s) \subseteq Messages
  BY AliveFinal, FinalStep DEF Entries
<1>3. ASSUME NEW s \in Seq(Lines) PROVE Alive(Append(s, Garbage)) = Alive(s)
  <2>1. Garbage \in Lines /\ Append(s, Garbage) \in Seq(Lines)
    BY AppendProperties DEF Lines
  <2>2. Final(Append(s, Garbage)) = Final(s)
    BY <2>1, FinalStep
  <2> QED BY <2>1, <2>2, AliveFinal
<1>4. ASSUME NEW s \in Seq(Lines), NEW e \in Entries
      PROVE  Alive(Append(s, e)) = IF e.op = "enqueue" THEN Alive(s) \cup {e.id}
                                                       ELSE Alive(s) \ {e.id}
  <2>1. \A m : m \in Alive(Append(s, e)) <=>
                  (m \in Alive(s) /\ m # e.id) \/ (e.op = "enqueue" /\ m = e.id)
    BY AliveEntry
  <2> QED BY <2>1
<1> QED BY <1>1, <1>2, <1>3, <1>4

(* Two files that agree on some messages still do after the same entries.  *)
LEMMA AliveAgree ==
    ASSUME NEW F \in Seq(Lines), NEW G \in Seq(Lines), NEW X,
           \A m : m \notin X => (m \in Alive(F) <=> m \in Alive(G))
    PROVE  \A R \in Seq(Lines) : \A m :
              m \notin X => (m \in Alive(F \o R) <=> m \in Alive(G \o R))
<1> DEFINE T == {R \in Seq(Lines) : \A m :
                    m \notin X => (m \in Alive(F \o R) <=> m \in Alive(G \o R))}
<1>1. <<>> \in T
  BY EmptySeq, ConcatEmptySeq
<1>2. ASSUME NEW R \in Seq(Lines), R \in T, NEW e \in Lines
      PROVE  Append(R, e) \in T
  <2>1. /\ F \o R \in Seq(Lines) /\ G \o R \in Seq(Lines) /\ Append(R, e) \in Seq(Lines)
        /\ F \o Append(R, e) = Append(F \o R, e) /\ G \o Append(R, e) = Append(G \o R, e)
    OBVIOUS
  <2>2. CASE e = Garbage
    BY <1>2, <2>1, <2>2, AliveStep
  <2>3. CASE e \in Entries
    <3>1. \A m : m \in Alive(Append(F \o R, e)) <=>
                 (m \in Alive(F \o R) /\ m # e.id) \/ (e.op = "enqueue" /\ m = e.id)
      BY <2>1, <2>3, AliveEntry
    <3>2. \A m : m \in Alive(Append(G \o R, e)) <=>
                 (m \in Alive(G \o R) /\ m # e.id) \/ (e.op = "enqueue" /\ m = e.id)
      BY <2>1, <2>3, AliveEntry
    <3>3. \A m : m \notin X => (m \in Alive(F \o R) <=> m \in Alive(G \o R))
      BY <1>2
    <3>4. \A m : m \notin X => (m \in Alive(Append(F \o R, e)) <=>
                                   m \in Alive(Append(G \o R, e)))
      BY <3>1, <3>2, <3>3
    <3> QED BY <2>1, <3>4
  <2> QED BY <2>2, <2>3 DEF Lines
<1>3. \A R \in Seq(Lines) : R \in T
  <2>1. \A s \in Seq(Lines) \cap T, e \in Lines : Append(s, e) \in T
    BY <1>2
  <2> HIDE DEF T
  <2> QED BY <1>1, <2>1, SequenceInduction
<1> QED BY <1>3

(* Compaction brings back the same messages. *)
LEMMA CompactAlive ==
    ASSUME NEW F \in Seq(Lines)
    PROVE  Compact(F) \in Seq(Lines) /\ Alive(Compact(F)) = Alive(F)
<1> DEFINE T == {d \in Seq(Entries) :
                    (\A x \in ToSet(d) : x.op = "enqueue") =>
                        \A m : m \in Alive(d) <=> \E x \in ToSet(d) : x.id = m}
           kept == Enqueues[LastOps[Parsed[F]]]
<1>1. <<>> \in T
  BY EmptySeq, AliveStep, ToSetEmpty
<1>2. ASSUME NEW d \in Seq(Entries), d \in T, NEW e \in Entries
      PROVE  Append(d, e) \in T
  <2>1. Append(d, e) \in Seq(Entries) /\ ToSet(Append(d, e)) = ToSet(d) \cup {e}
    BY AppendProperties, ToSetAppend
  <2>2. d \in Seq(Lines)
    BY SeqMonotonic DEF Lines
  <2> QED BY <1>2, <2>1, <2>2, AliveStep
<1>3. \A d \in Seq(Entries) : d \in T
  <2>1. \A s \in Seq(Entries) \cap T, e \in Entries : Append(s, e) \in T
    BY <1>2
  <2> HIDE DEF T
  <2> QED BY <1>1, <2>1, SequenceInduction
<1>4. /\ LastOps[Parsed[F]] \in Seq(Entries) /\ kept \in Seq(Entries)
      /\ ToSet(kept) = {x \in Final(F) : x.op = "enqueue"}
  <2>1. Parsed[F] \in Seq(Entries)
    BY ParsedStep
  <2>2. LastOps[Parsed[F]] \in Seq(Entries)
    BY <2>1, LastOpsStep
  <2> QED BY <2>2, EnqueuesStep, EnqueuesSet DEF Final
<1>5. kept \in T
  BY <1>3, <1>4
<1>6. Alive(kept) = Alive(F) /\ kept \in Seq(Lines)
  <2>1. kept \in Seq(Lines)
    BY <1>4, SeqMonotonic DEF Lines
  <2>2. \A m : m \in Alive(kept) <=> \E x \in ToSet(kept) : x.id = m
    BY <1>4, <1>5
  <2>3. \A m : m \in Alive(kept) <=> m \in Alive(F)
    <3> HIDE DEF kept
    <3> QED BY <1>4, <2>2, AliveFinal
  <2> QED BY <2>1, <2>3
<1>7. Compact(F) = F \/ Compact(F) = kept
  BY DEF Compact, Unsettled, ReadAllOps
<1> QED BY <1>6, <1>7

-----------------------------------------------------------------------------
(* The persistence: types *)

LEMMA RestoreType ==
    ASSUME NEW lines \in Seq(Lines)
    PROVE  Restore(lines) \in Seq(Messages)
<1> DEFINE kept == Enqueues[LastOps[Parsed[lines]]]
<1>1. Parsed[lines] \in Seq(Entries)
  BY ParsedStep
<1>2. LastOps[Parsed[lines]] \in Seq(Entries)
  BY <1>1, LastOpsStep
<1>3. kept \in Seq(Entries)
  BY <1>2, EnqueuesStep
<1>4. Restore(lines) = [i \in DOMAIN kept |-> kept[i].id]
  BY DEF Restore, Unsettled, ReadAllOps
<1> HIDE DEF kept
<1>5. DOMAIN kept = 1 .. Len(kept) /\ Len(kept) \in Nat
  BY <1>3, LenProperties
<1>6. \A i \in 1 .. Len(kept) : kept[i].id \in Messages
  <2>1. \A i \in 1 .. Len(kept) : kept[i] \in Entries
    BY <1>3, ElementOfSeq
  <2> QED BY <2>1 DEF Entries
<1> QED BY <1>4, <1>5, <1>6

(* An entry of an operation on a message. *)
LEMMA EntryType ==
    ASSUME NEW m \in Messages
    PROVE  \A op \in {"enqueue", "ack", "nack"} :
              Entry(op, m) \in Entries /\ Entry(op, m).op = op /\ Entry(op, m).id = m
BY DEF Entry, Entries

LEMMA PersistTypeStep == TypeOK /\ [Next]_vars => TypeOK'
<1> SUFFICES ASSUME TypeOK, [Next]_vars PROVE TypeOK'
  OBVIOUS
<1> USE DEF TypeOK
<1>1. CASE Boot
  BY <1>1, PersistAssumption DEF Boot
<1>2. CASE InitPersist
  BY <1>2, RestoreType DEF InitPersist, history
<1>3. ASSUME NEW m \in Messages, EnqueueNext(m) PROVE TypeOK'
  <2>1. (IF Full THEN Tail(pending) ELSE pending) \in Seq(Messages)
    BY FullHasHead
  <2>2. pending' \in Seq(Messages)
    BY <1>3, <2>1 DEF EnqueueNext, Enqueue
  <2>3. tasks' \in Seq(Entries)
    BY <1>3, EntryType DEF EnqueueNext, Schedule
  <2>4. Full => Head(pending) \in Messages
    BY FullHasHead
  <2>5. dropped' \in SUBSET Messages
    BY <1>3, <2>4 DEF EnqueueNext
  <2> QED BY <1>3, <2>2, <2>3, <2>5 DEF EnqueueNext, Enqueue
<1>4. CASE DequeueNext
  <2>1. Head(pending) \in Messages /\ Tail(pending) \in Seq(Messages)
    BY <1>4 DEF DequeueNext, Dequeue, CanDequeue
  <2> QED BY <1>4, <2>1 DEF DequeueNext, Dequeue, history
<1>5. CASE AckNext
  <2>1. processing \in Messages
    BY <1>5 DEF AckNext
  <2>2. tasks' \in Seq(Entries)
    BY <1>5, <2>1, EntryType DEF AckNext, Schedule
  <2> QED BY <1>5, <2>1, <2>2 DEF AckNext, Ack
<1>6. ASSUME NEW late \in BOOLEAN, NackNext(late) PROVE TypeOK'
  <2>1. processing \in Messages
    BY <1>6 DEF NackNext
  <2>2. tasks' \in Seq(Entries) /\ settled' \in SUBSET Messages
    <3>1. CASE late
      <4>1. Entry("nack", processing) \in Entries
        BY <2>1, EntryType
      <4>2. Schedule(Entry("nack", processing))
        BY <1>6, <3>1, Zenon DEF NackNext
      <4>3. settled' = settled \cup {processing}
        BY <1>6, <3>1, Zenon DEF NackNext
      <4>4. tasks' \in Seq(Entries)
        BY <4>1, <4>2 DEF Schedule
      <4> QED BY <2>1, <4>3, <4>4
    <3>2. CASE ~late
      BY <1>6, <3>2 DEF NackNext
    <3> QED BY <3>1, <3>2
  <2>3. <<processing>> \o pending \in Seq(Messages) /\ Append(dead, processing) \in Seq(Messages)
    BY <2>1
  <2>4. pending' \in Seq(Messages) /\ dead' \in Seq(Messages) /\ processing' = NoMsg
    BY <1>6, <2>1, <2>3 DEF NackNext, Nack
  <2> QED BY <1>6, <2>2, <2>4 DEF NackNext
<1>7. ASSUME NEW large \in BOOLEAN, RunWriteTask(large) PROVE TypeOK'
  <2>1. Head(tasks) \in Entries /\ Tail(tasks) \in Seq(Entries)
    BY <1>7 DEF RunWriteTask
  <2>2. Append(writeQ, Head(tasks)) \in Seq(Entries)
    BY <2>1
  <2>3. Compact(file) \in Seq(Lines)
    BY CompactAlive
  <2> QED BY <1>7, <2>1, <2>2, <2>3 DEF RunWriteTask, memory, history
<1>8. CASE WriteLine
  <2>1. Head(writeQ) \in Entries /\ Tail(writeQ) \in Seq(Entries)
    BY <1>8 DEF WriteLine
  <2>2. Append(file, Head(writeQ)) \in Seq(Lines)
    BY <2>1 DEF Lines
  <2>3. Head(writeQ).id \in Messages
    BY <2>1 DEF Entries
  <2> QED BY <1>8, <2>1, <2>2, <2>3 DEF WriteLine, memory
<1>9. ASSUME NEW partial \in BOOLEAN, WriteLineFails(partial) PROVE TypeOK'
  <2>1. Head(writeQ) \in Entries /\ Tail(writeQ) \in Seq(Entries)
    BY <1>9 DEF WriteLineFails
  <2>2. Garbage \in Lines
    BY DEF Lines
  <2>3. /\ Append(file, Garbage) \in Seq(Lines) /\ Append(file, Garbage) # <<>>
        /\ Last(Append(file, Garbage)) = Garbage
    BY <2>2, FrontLast
  <2>4. Head(writeQ).id \in Messages
    BY <2>1 DEF Entries
  <2>5. file' \in Seq(Lines) /\ torn' \in BOOLEAN
        /\ (torn' => file' # <<>> /\ Last(file') = Garbage)
    BY <1>9, <2>3 DEF WriteLineFails
  <2> QED BY <1>9, <2>1, <2>4, <2>5 DEF WriteLineFails, memory
<1>10. CASE Close
  BY <1>10 DEF Close, memory, history
<1>11. CASE Closed
  BY <1>11 DEF Closed, memory, history
<1>12. CASE Crash
  BY <1>12 DEF Crash, memory, history
<1>13. CASE UNCHANGED vars
  BY <1>13 DEF vars, memory, history
<1> QED BY <1>1, <1>2, <1>3, <1>4, <1>5, <1>6, <1>7, <1>8, <1>9, <1>10, <1>11, <1>12,
           <1>13 DEF Next

LEMMA InitTypeOK == Init => TypeOK
<1>1. /\ <<>> \in Seq(Messages) /\ <<>> \in Seq(Entries) /\ <<>> \in Seq(Lines)
      /\ {} \in SUBSET Messages
  BY EmptySeq
<1> SUFFICES ASSUME Init PROVE TypeOK
  OBVIOUS
<1>2. torn \in BOOLEAN /\ (torn => file # <<>> /\ Last(file) = Garbage)
  BY Zenon DEF Init
<1>3. /\ phase = "down" /\ processing = NoMsg /\ boots = 0 /\ faults = 0
      /\ pending = <<>> /\ dead = <<>> /\ tasks = <<>> /\ writeQ = <<>> /\ file = <<>>
      /\ seen = {} /\ unlogged = {} /\ settled = {} /\ dropped = {} /\ failed = {}
      /\ spoiled = {}
  BY DEF Init, QueueInit
<1> QED BY <1>1, <1>2, <1>3 DEF TypeOK

(* Queue, write queue and file hold what they are meant to hold, through   *)
(* every crash, failing write and compaction (queue_persist.py).           *)
THEOREM PersistTypeCorrect == Spec => []TypeOK
BY InitTypeOK, PersistTypeStep, PTL DEF Spec

-----------------------------------------------------------------------------
(* The persistence: what the file and the queue have in common *)

(* Nothing is on its way to the file before the persistence is attached,   *)
(* and what is in the queue then entered in this lifetime.                 *)
NothingPending ==
    /\ phase \in {"down", "subscribed"} => writeQ = <<>>
    /\ phase # "up" => tasks = <<>>
    /\ phase = "subscribed" => ToSet(Backlog) \subseteq unlogged

Remembered ==
    phase = "up" => \A m \in ToSet(Backlog) :
        m \in unlogged \cup settled \cup failed \cup spoiled \/ m \in Alive(Log)

Explained ==
    phase = "up" => Alive(Log) \subseteq ToSet(Backlog) \cup dropped \cup failed \cup spoiled

(* Every spoiled message, and a line that will spoil another one, goes     *)
(* back to a failure of its own.                                           *)
SpoiledByFaults ==
    /\ IsFiniteSet(spoiled)
    /\ Cardinality(spoiled) + (IF torn THEN 1 ELSE 0) <= faults

PersistInv == TypeOK /\ NothingPending /\ Remembered /\ Explained /\ SpoiledByFaults

LEMMA SlotAndPending ==
    ASSUME NEW rest \in Seq(Messages), NEW slot \in Messages \cup {NoMsg}
    PROVE  LET all == IF slot = NoMsg THEN rest ELSE <<slot>> \o rest
           IN  all \in Seq(Messages) /\ ToSet(all) = ToSet(rest) \cup ({slot} \ {NoMsg})
<1>1. CASE slot = NoMsg
  BY <1>1
<1>2. CASE slot # NoMsg
  <2>1. <<slot>> \in Seq(Messages)
    BY <1>2
  <2>2. ToSet(<<slot>> \o rest) = ToSet(<<slot>>) \cup ToSet(rest)
    BY <2>1, ToSetConcat
  <2> QED BY <1>2, <2>1, <2>2, ToSetSingle, ConcatProperties
<1> QED BY <1>1, <1>2

LEMMA BacklogSet ==
    ASSUME TypeOK, TypeOK'
    PROVE  /\ Backlog \in Seq(Messages) /\ Backlog' \in Seq(Messages)
           /\ ToSet(Backlog) = ToSet(pending) \cup ({processing} \ {NoMsg})
           /\ ToSet(Backlog') = ToSet(pending') \cup ({processing'} \ {NoMsg})
<1>1. /\ pending \in Seq(Messages) /\ processing \in Messages \cup {NoMsg}
      /\ pending' \in Seq(Messages) /\ processing' \in Messages \cup {NoMsg}
  BY DEF TypeOK
<1> QED BY <1>1, SlotAndPending DEF Backlog

LEMMA LinesConcat ==
    \A s, t, u \in Seq(Lines) :
        s \o t \in Seq(Lines) /\ (s \o t) \o u = s \o (t \o u)
<1> TAKE s, t, u \in Seq(Lines)
<1>1. s \o t \in Seq(Lines)
  BY ConcatProperties, Zenon
<1>2. (s \o t) \o u = s \o (t \o u)
  <2> DEFINE S == Lines
  <2>1. s \in Seq(S) /\ t \in Seq(S) /\ u \in Seq(S)
    OBVIOUS
  <2> HIDE DEF S
  <2> QED BY <2>1, ConcatAssociative
<1> QED BY <1>1, <1>2

LEMMA LogType ==
    ASSUME TypeOK
    PROVE  /\ writeQ \in Seq(Lines) /\ tasks \in Seq(Lines) /\ file \in Seq(Lines)
           /\ writeQ \o tasks \in Seq(Lines) /\ Log \in Seq(Lines)
           /\ Log = file \o (writeQ \o tasks)
<1>1. writeQ \in Seq(Lines) /\ tasks \in Seq(Lines) /\ file \in Seq(Lines)
  BY SeqMonotonic DEF TypeOK, Lines
<1> QED BY <1>1, ConcatProperties, ConcatAssociative DEF Log

(* A write task that has been created is the last entry of the log. *)
LEMMA LogGrows ==
    ASSUME TypeOK, NEW e \in Entries, tasks' = Append(tasks, e), UNCHANGED <<file, writeQ>>
    PROVE  Log' = Append(Log, e)
<1>1. e \in Lines
  BY DEF Lines
<1>2. file \o writeQ \in Seq(Lines) /\ tasks \in Seq(Lines)
  BY LogType, ConcatProperties
<1> QED BY <1>1, <1>2 DEF Log

LEMMA InitPersistInv == Init => PersistInv
<1> SUFFICES ASSUME Init PROVE PersistInv
  OBVIOUS
<1>1. TypeOK
  BY InitTypeOK
<1>2. NothingPending /\ Remembered /\ Explained
  BY DEF Init, NothingPending, Remembered, Explained
<1>3. SpoiledByFaults
  <2>1. spoiled = {} /\ faults = 0
    BY DEF Init
  <2>2. ~torn
    BY Zenon DEF Init
  <2> QED BY <2>1, <2>2, FS_EmptySet DEF SpoiledByFaults
<1> QED BY <1>1, <1>2, <1>3 DEF PersistInv

(* What the steps of the queue do to the backlog and to the log. *)
LEMMA EnqueueEffect ==
    ASSUME TypeOK, TypeOK', NEW m \in Messages, EnqueueNext(m)
    PROVE  /\ ToSet(Backlog') \subseteq ToSet(Backlog) \cup {m} /\ m \in ToSet(Backlog')
           /\ ToSet(Backlog) \ ToSet(Backlog') \subseteq dropped'
           /\ dropped \subseteq dropped' \cup {m}
           /\ phase = "up" => Alive(Log') = Alive(Log) \cup {m}
<1> DEFINE kept == IF Full THEN Tail(pending) ELSE pending
<1>1. /\ kept \in Seq(Messages) /\ pending \in Seq(Messages)
      /\ ToSet(kept) \subseteq ToSet(pending)
      /\ ToSet(pending) \subseteq ToSet(kept) \cup (IF Full THEN {Head(pending)} ELSE {})
  <2>1. CASE Full
    <3>1. pending # <<>> /\ pending \in Seq(Messages) /\ Tail(pending) \in Seq(Messages)
      BY <2>1, FullHasHead DEF TypeOK
    <3> QED BY <2>1, <3>1, ToSetHeadTail
  <2>2. CASE ~Full
    BY <2>2 DEF TypeOK
  <2> QED BY <2>1, <2>2
<1>2. pending' = Append(kept, m) /\ processing' = processing
  BY DEF EnqueueNext, Enqueue
<1> HIDE DEF kept
<1>3. ToSet(pending') = ToSet(kept) \cup {m}
  BY <1>1, <1>2, ToSetAppend
<1>4. /\ ToSet(Backlog) = ToSet(pending) \cup ({processing} \ {NoMsg})
      /\ ToSet(Backlog') = ToSet(pending') \cup ({processing'} \ {NoMsg})
  BY BacklogSet
<1>5. dropped' = (IF Full THEN dropped \cup {Head(pending)} ELSE dropped) \ {m}
  BY DEF EnqueueNext
<1>6. ASSUME phase = "up" PROVE Alive(Log') = Alive(Log) \cup {m}
  <2>1. Entry("enqueue", m) \in Entries /\ Entry("enqueue", m).op = "enqueue"
        /\ Entry("enqueue", m).id = m
    BY EntryType
  <2>2. tasks' = Append(tasks, Entry("enqueue", m)) /\ UNCHANGED <<file, writeQ>>
    BY <1>6 DEF EnqueueNext, Schedule
  <2>3. Log' = Append(Log, Entry("enqueue", m)) /\ Log \in Seq(Lines)
    BY <2>1, <2>2, LogGrows, LogType
  <2> QED BY <2>1, <2>3, AliveStep
<1> QED BY <1>1, <1>2, <1>3, <1>4, <1>5, <1>6

LEMMA DequeueEffect ==
    ASSUME TypeOK, TypeOK', DequeueNext
    PROVE  ToSet(Backlog') = ToSet(Backlog) /\ Log' = Log
<1>1. /\ pending # <<>> /\ pending \in Seq(Messages) /\ processing = NoMsg
      /\ processing' = Head(pending) /\ pending' = Tail(pending)
  BY DEF DequeueNext, Dequeue, CanDequeue, TypeOK
<1>2. Head(pending) \in Messages
  BY <1>1, HeadTailProperties
<1>3. ToSet(pending) = {Head(pending)} \cup ToSet(Tail(pending))
  BY <1>1, ToSetHeadTail
<1>4. /\ ToSet(Backlog) = ToSet(pending) \cup ({processing} \ {NoMsg})
      /\ ToSet(Backlog') = ToSet(pending') \cup ({processing'} \ {NoMsg})
  BY BacklogSet
<1> QED BY <1>1, <1>2, <1>3, <1>4, PersistAssumption DEF DequeueNext, Log

LEMMA AckEffect ==
    ASSUME TypeOK, TypeOK', AckNext
    PROVE  /\ processing \in Messages
           /\ ToSet(Backlog') \subseteq ToSet(Backlog)
           /\ ToSet(Backlog) \subseteq ToSet(Backlog') \cup {processing}
           /\ Alive(Log') = Alive(Log) \ {processing}
<1>1. processing \in Messages /\ processing' = NoMsg /\ pending' = pending
  BY DEF AckNext, Ack, TypeOK
<1>2. /\ ToSet(Backlog) = ToSet(pending) \cup ({processing} \ {NoMsg})
      /\ ToSet(Backlog') = ToSet(pending') \cup ({processing'} \ {NoMsg})
  BY BacklogSet
<1>3. /\ Entry("ack", processing) \in Entries /\ Entry("ack", processing).op = "ack"
      /\ Entry("ack", processing).id = processing
  BY <1>1, EntryType
<1>4. tasks' = Append(tasks, Entry("ack", processing)) /\ UNCHANGED <<file, writeQ>>
  BY DEF AckNext, Schedule
<1>5. Log' = Append(Log, Entry("ack", processing)) /\ Log \in Seq(Lines)
  BY <1>3, <1>4, LogGrows, LogType
<1>6. Alive(Log') = Alive(Log) \ {processing}
  BY <1>3, <1>5, AliveStep
<1> QED BY <1>1, <1>2, <1>6

LEMMA NackEffect ==
    ASSUME TypeOK, TypeOK', NEW late \in BOOLEAN, NackNext(late)
    PROVE  /\ processing \in Messages
           /\ ~late => /\ ToSet(Backlog') = ToSet(Backlog) /\ settled' = settled
                       /\ Log' = Log
           /\ late => /\ settled' = settled \cup {processing}
                      /\ ToSet(Backlog') \subseteq ToSet(Backlog)
                      /\ ToSet(Backlog) \subseteq ToSet(Backlog') \cup {processing}
                      /\ Alive(Log') = Alive(Log) \ {processing}
<1>1. processing \in Messages /\ processing # NoMsg /\ processing' = NoMsg
      /\ UNCHANGED <<file, writeQ, phase>> /\ phase = "up"
  BY DEF NackNext, Nack, TypeOK
<1>2. /\ ToSet(Backlog) = ToSet(pending) \cup ({processing} \ {NoMsg})
      /\ ToSet(Backlog') = ToSet(pending') \cup ({processing'} \ {NoMsg})
  BY BacklogSet
<1>3. CASE late
  <2>1. pending' = pending
    BY <1>1, <1>3, Zenon DEF NackNext, Nack
  <2>2. Schedule(Entry("nack", processing)) /\ settled' = settled \cup {processing}
    BY <1>3, Zenon DEF NackNext
  <2>3. /\ Entry("nack", processing) \in Entries /\ Entry("nack", processing).op = "nack"
        /\ Entry("nack", processing).id = processing
    BY <1>1, EntryType
  <2>4. Log' = Append(Log, Entry("nack", processing)) /\ Log \in Seq(Lines)
    BY <1>1, <2>2, <2>3, LogGrows, LogType DEF Schedule
  <2>5. Alive(Log') = Alive(Log) \ {processing}
    BY <2>3, <2>4, AliveStep
  <2>6. ToSet(Backlog) = ToSet(pending) \cup {processing} /\ ToSet(Backlog') = ToSet(pending)
    BY <1>1, <1>2, <2>1
  <2> QED BY <1>1, <1>3, <2>2, <2>5, <2>6
<1>4. CASE ~late
  <2>1. pending' = <<processing>> \o pending
    BY <1>1, <1>4, Zenon DEF NackNext, Nack
  <2>2. UNCHANGED <<tasks, settled>>
    BY <1>4, Zenon DEF NackNext
  <2>3. <<processing>> \in Seq(Messages) /\ pending \in Seq(Messages)
    BY <1>1 DEF TypeOK
  <2>4. ToSet(pending') = {processing} \cup ToSet(pending)
    <3>1. ToSet(pending') = ToSet(<<processing>>) \cup ToSet(pending)
      BY <2>1, <2>3, ToSetConcat
    <3> QED BY <3>1, ToSetSingle
  <2>5. Log' = Log
    BY <1>1, <2>2 DEF Log
  <2>6. ToSet(Backlog') = ToSet(Backlog)
    BY <1>1, <1>2, <2>4
  <2> QED BY <1>1, <1>4, <2>2, <2>5, <2>6
<1> QED BY <1>3, <1>4

(* Moving the first task, or the first entry of the write queue. *)
LEMMA MoveFirst ==
    ASSUME NEW S, NEW s \in Seq(S), NEW t \in Seq(S), t # <<>>
    PROVE  /\ Append(s, Head(t)) \o Tail(t) = s \o t
           /\ Append(s, Head(t)) \in Seq(S) /\ Tail(t) \in Seq(S) /\ Head(t) \in S
<1>1. Head(t) \in S /\ Tail(t) \in Seq(S) /\ <<Head(t)>> \in Seq(S)
  BY HeadTailProperties
<1>2. Append(s, Head(t)) = s \o <<Head(t)>> /\ Append(s, Head(t)) \in Seq(S)
  BY <1>1, AppendProperties, AppendIsConcat
<1>3. t = <<Head(t)>> \o Tail(t)
  <2>1. /\ Len(t) \in Nat \ {0} /\ Len(Tail(t)) = Len(t) - 1 /\ Head(t) = t[1]
        /\ \A i \in 1 .. Len(Tail(t)) : Tail(t)[i] = t[i + 1]
    BY HeadTailProperties, EmptySeq
  <2> DEFINE u == <<Head(t)>> \o Tail(t)
  <2>2. /\ u \in Seq(S) /\ Len(u) = 1 + Len(Tail(t))
        /\ \A i \in 1 .. 1 + Len(Tail(t)) : u[i] = IF i <= 1 THEN Head(t) ELSE Tail(t)[i - 1]
    BY <1>1, ConcatProperties
  <2> HIDE DEF u
  <2>3. \A i \in 1 .. Len(t) : t[i] = u[i]
    <3> TAKE i \in 1 .. Len(t)
    <3>1. CASE i = 1
      BY <2>1, <2>2, <3>1
    <3>2. CASE i # 1
      <4>1. i - 1 \in 1 .. Len(Tail(t)) /\ i \in 1 .. 1 + Len(Tail(t)) /\ ~(i <= 1)
        BY <2>1, <3>2
      <4>2. (i - 1) + 1 = i
        BY <2>1
      <4> QED BY <2>1, <2>2, <4>1, <4>2
    <3> QED BY <3>1, <3>2
  <2>4. t = u
    BY <2>1, <2>2, <2>3, SeqEqual
  <2> QED BY <2>4 DEF u
<1>4. (s \o <<Head(t)>>) \o Tail(t) = s \o (<<Head(t)>> \o Tail(t))
  BY <1>1, ConcatAssociative
<1> QED BY <1>1, <1>2, <1>3, <1>4

LEMMA RunEffect ==
    ASSUME TypeOK, TypeOK', NEW large \in BOOLEAN, RunWriteTask(large)
    PROVE  \A m : m \in Alive(Log) <=> m \in Alive(Log')
<1>1. /\ writeQ \in Seq(Lines) /\ tasks \in Seq(Lines) /\ tasks # <<>>
      /\ writeQ' = Append(writeQ, Head(tasks)) /\ tasks' = Tail(tasks)
      /\ file \in Seq(Lines) /\ file' \in Seq(Lines)
  BY LogType DEF RunWriteTask, TypeOK
<1>2. writeQ' \o tasks' = writeQ \o tasks /\ writeQ \o tasks \in Seq(Lines)
      /\ writeQ' \in Seq(Lines) /\ tasks' \in Seq(Lines)
  BY <1>1, MoveFirst, ConcatProperties
<1>3. Log = file \o (writeQ \o tasks) /\ Log' = file' \o (writeQ' \o tasks')
  <2>1. Log' = (file' \o writeQ') \o tasks'
    BY DEF Log
  <2>2. (file' \o writeQ') \o tasks' = file' \o (writeQ' \o tasks')
    BY <1>1, <1>2, LinesConcat, Zenon
  <2> QED BY <2>1, <2>2, LogType
<1>4. file' = file \/ file' = Compact(file)
  BY DEF RunWriteTask
<1>5. \A m : m \in Alive(file) <=> m \in Alive(file')
  BY <1>1, <1>4, CompactAlive
<1> DEFINE F == file
           G == file'
           R == writeQ \o tasks
<1>6. \A m : m \notin {} => (m \in Alive(F \o R) <=> m \in Alive(G \o R))
  <2>1. F \in Seq(Lines) /\ G \in Seq(Lines) /\ R \in Seq(Lines)
        /\ \A m : m \notin {} => (m \in Alive(F) <=> m \in Alive(G))
    BY <1>1, <1>2, <1>5
  <2> HIDE DEF F, G, R
  <2> QED BY <2>1, AliveAgree
<1> QED BY <1>2, <1>3, <1>6

(* The first entry of the write queue has gone to the file or is lost.     *)
LEMMA WriteEffect ==
    ASSUME TypeOK, TypeOK', writeQ # <<>>, writeQ' = Tail(writeQ), tasks' = tasks,
           NEW X,
           \A m : m \notin X => (m \in Alive(Append(file, Head(writeQ))) <=> m \in Alive(file'))
    PROVE  \A m : m \notin X => (m \in Alive(Log) <=> m \in Alive(Log'))
<1>1. /\ writeQ \in Seq(Lines) /\ tasks \in Seq(Lines) /\ file \in Seq(Lines)
      /\ file' \in Seq(Lines)
  BY LogType DEF TypeOK
<1> DEFINE e == Head(writeQ)
           F == Append(file, e)
           G == file'
           R == Tail(writeQ) \o tasks
<1>2. e \in Lines /\ Tail(writeQ) \in Seq(Lines) /\ F \in Seq(Lines)
      /\ F \o Tail(writeQ) = file \o writeQ
  BY <1>1, MoveFirst
<1>3. R \in Seq(Lines) /\ (F \o Tail(writeQ)) \o tasks = F \o R
      /\ (G \o Tail(writeQ)) \o tasks = G \o R
  <2> DEFINE t == Tail(writeQ)
  <2>1. t \in Seq(Lines) /\ F \in Seq(Lines) /\ G \in Seq(Lines) /\ tasks \in Seq(Lines)
    BY <1>1, <1>2
  <2> HIDE DEF t, F, G
  <2>2. (F \o t) \o tasks = F \o (t \o tasks) /\ (G \o t) \o tasks = G \o (t \o tasks)
    BY <2>1, LinesConcat, Zenon
  <2>3. t \o tasks \in Seq(Lines)
    BY <2>1, LinesConcat, Zenon
  <2> QED BY <2>2, <2>3 DEF t
<1>4. Log = F \o R /\ Log' = G \o R
  BY <1>2, <1>3 DEF Log
<1>5. F \in Seq(Lines) /\ G \in Seq(Lines)
      /\ \A m : m \notin X => (m \in Alive(F) <=> m \in Alive(G))
  BY <1>1, <1>2
<1> HIDE DEF F, G, R
<1>6. \A m : m \notin X => (m \in Alive(F \o R) <=> m \in Alive(G \o R))
  BY <1>3, <1>5, AliveAgree
<1> QED BY <1>4, <1>6

LEMMA WriteLineEffect ==
    ASSUME TypeOK, TypeOK', WriteLine
    PROVE  /\ Head(writeQ) \in Entries
           /\ \A m : m \notin (IF torn THEN {Head(writeQ).id} ELSE {}) =>
                        (m \in Alive(Log) <=> m \in Alive(Log'))
<1>1. /\ writeQ # <<>> /\ writeQ' = Tail(writeQ) /\ tasks' = tasks /\ file \in Seq(Lines)
      /\ Head(writeQ) \in Entries
  BY DEF WriteLine, TypeOK
<1>2. CASE torn
  <2>1. file' = file
    BY <1>2 DEF WriteLine
  <2>2. \A m : m \notin {Head(writeQ).id} =>
                  (m \in Alive(Append(file, Head(writeQ))) <=> m \in Alive(file'))
    BY <1>1, <2>1, AliveEntry
  <2>3. \A m : m \notin {Head(writeQ).id} => (m \in Alive(Log) <=> m \in Alive(Log'))
    BY <1>1, <2>2, WriteEffect
  <2> QED BY <1>1, <1>2, <2>3
<1>3. CASE ~torn
  <2>1. file' = Append(file, Head(writeQ))
    BY <1>3 DEF WriteLine
  <2>2. \A m : m \notin {} => (m \in Alive(Append(file, Head(writeQ))) <=> m \in Alive(file'))
    BY <2>1
  <2>3. \A m : m \notin {} => (m \in Alive(Log) <=> m \in Alive(Log'))
    BY <1>1, <2>2, WriteEffect
  <2> QED BY <1>1, <1>3, <2>3
<1> QED BY <1>2, <1>3

LEMMA WriteLineFailsEffect ==
    ASSUME TypeOK, TypeOK', NEW partial \in BOOLEAN, WriteLineFails(partial)
    PROVE  \A m : m \notin {Head(writeQ).id} => (m \in Alive(Log) <=> m \in Alive(Log'))
<1>1. /\ writeQ # <<>> /\ writeQ' = Tail(writeQ) /\ tasks' = tasks /\ file \in Seq(Lines)
      /\ Head(writeQ) \in Entries
  BY DEF WriteLineFails, TypeOK
<1>2. file' = file \/ file' = Append(file, Garbage)
  BY DEF WriteLineFails
<1>3. Alive(file') = Alive(file)
  BY <1>1, <1>2, AliveStep
<1>4. \A m : m \notin {Head(writeQ).id} =>
                (m \in Alive(Append(file, Head(writeQ))) <=> m \in Alive(file'))
  BY <1>1, <1>3, AliveEntry
<1> QED BY <1>1, <1>4, WriteEffect

(* Only Boot, WriteLine and WriteLineFails change who is spoiled or what   *)
(* will be.                                                                *)
LEMMA SpoiledStep == TypeOK /\ SpoiledByFaults /\ [Next]_vars => SpoiledByFaults'
<1> SUFFICES ASSUME TypeOK, SpoiledByFaults, [Next]_vars PROVE SpoiledByFaults'
  OBVIOUS
<1> DEFINE t == IF torn THEN 1 ELSE 0
           u == IF torn' THEN 1 ELSE 0
<1>0. /\ IsFiniteSet(spoiled) /\ Cardinality(spoiled) \in Nat /\ faults \in Nat
      /\ Cardinality(spoiled) + t <= faults /\ t \in 0 .. 1 /\ u \in 0 .. 1
  BY FS_CardinalityType DEF SpoiledByFaults, TypeOK
<1>1. CASE Boot
  <2>1. spoiled' = {} /\ u = t /\ faults' = faults
    BY <1>1 DEF Boot
  <2> QED BY <1>0, <2>1, FS_EmptySet DEF SpoiledByFaults
<1>2. CASE WriteLine
  <2>1. CASE torn
    <3>1. spoiled' = spoiled \cup {Head(writeQ).id} /\ u = 0 /\ t = 1 /\ faults' = faults
      BY <1>2, <2>1 DEF WriteLine
    <3>2. IsFiniteSet(spoiled') /\ Cardinality(spoiled') <= Cardinality(spoiled) + 1
      <4>1. /\ IsFiniteSet(spoiled \cup {Head(writeQ).id})
            /\ Cardinality(spoiled \cup {Head(writeQ).id})
                  = IF Head(writeQ).id \in spoiled THEN Cardinality(spoiled)
                                                   ELSE Cardinality(spoiled) + 1
        BY <1>0, FS_AddElement
      <4> QED BY <1>0, <3>1, <4>1
    <3>3. Cardinality(spoiled') \in Nat
      BY <3>2, FS_CardinalityType
    <3> QED BY <1>0, <3>1, <3>2, <3>3 DEF SpoiledByFaults
  <2>2. CASE ~torn
    <3>1. spoiled' = spoiled /\ u = 0 /\ faults' = faults
      BY <1>2, <2>2 DEF WriteLine
    <3> QED BY <1>0, <3>1 DEF SpoiledByFaults
  <2> QED BY <2>1, <2>2
<1>3. CASE \E partial \in BOOLEAN : WriteLineFails(partial)
  <2>1. spoiled' = spoiled /\ faults' = faults + 1
    BY <1>3 DEF WriteLineFails
  <2> QED BY <1>0, <2>1 DEF SpoiledByFaults
<1>4. CASE \E large \in BOOLEAN : RunWriteTask(large)
  <2>1. spoiled' = spoiled /\ faults' = faults /\ (torn' = FALSE \/ torn' = torn)
    BY <1>4 DEF RunWriteTask, history
  <2>2. u <= t
    BY <2>1
  <2> QED BY <1>0, <2>1, <2>2 DEF SpoiledByFaults
<1>5. ASSUME UNCHANGED <<spoiled, torn, faults>> PROVE SpoiledByFaults'
  BY <1>5 DEF SpoiledByFaults
<1>6. \/ Boot \/ WriteLine \/ \E partial \in BOOLEAN : WriteLineFails(partial)
      \/ \E large \in BOOLEAN : RunWriteTask(large)
      \/ UNCHANGED <<spoiled, torn, faults>>
  <2>1. CASE InitPersist \/ DequeueNext \/ Close \/ Closed \/ Crash \/ UNCHANGED vars
    BY <2>1 DEF InitPersist, DequeueNext, Close, Closed, Crash, vars, history
  <2>2. CASE \E m \in Messages : EnqueueNext(m)
    BY <2>2 DEF EnqueueNext
  <2>3. CASE AckNext \/ \E late \in BOOLEAN : NackNext(late)
    BY <2>3 DEF AckNext, NackNext
  <2> QED BY <2>1, <2>2, <2>3 DEF Next
<1> QED BY <1>1, <1>2, <1>3, <1>4, <1>5, <1>6

LEMMA PersistInvStep == PersistInv /\ [Next]_vars => PersistInv'
<1> SUFFICES ASSUME PersistInv, [Next]_vars PROVE PersistInv'
  OBVIOUS
<1>0. TypeOK /\ NothingPending /\ Remembered /\ Explained /\ TypeOK' /\ SpoiledByFaults'
  BY PersistTypeStep, SpoiledStep DEF PersistInv
<1> SUFFICES NothingPending' /\ Remembered' /\ Explained'
  BY <1>0 DEF PersistInv
<1> USE <1>0
(* The steps that leave the process without its persistence attached.      *)
<1>1. CASE Boot
  <2>1. /\ phase = "down" /\ phase' = "subscribed" /\ pending' = <<>> /\ processing' = NoMsg
        /\ tasks' = tasks /\ writeQ' = writeQ
    BY <1>1 DEF Boot
  <2>2. ToSet(Backlog') = {}
    BY <2>1, BacklogSet, ToSetEmpty
  <2> QED BY <2>1, <2>2 DEF NothingPending, Remembered, Explained
<1>2. CASE Close \/ Closed \/ Crash
  <2>1. phase' \in {"down", "closing"} /\ tasks' = <<>> /\ (phase' = "down" => writeQ' = <<>>)
    BY <1>2 DEF Close, Closed, Crash, NothingPending
  <2> QED BY <2>1 DEF NothingPending, Remembered, Explained
<1>3. CASE InitPersist
  <2>1. /\ phase = "subscribed" /\ phase' = "up" /\ pending' = pending \o Restore(file)
        /\ UNCHANGED <<processing, tasks, writeQ, file, unlogged>>
        /\ writeQ = <<>> /\ tasks = <<>> /\ ToSet(Backlog) \subseteq unlogged
    BY <1>3 DEF InitPersist, history, NothingPending
  <2>2. ToSet(pending') = ToSet(pending) \cup Alive(file)
    BY <2>1, RestoreType, ToSetConcat DEF TypeOK, Alive
  <2>3. Log' = file
    <3>1. file \o <<>> = file
      BY ConcatEmptySeq DEF TypeOK
    <3> QED BY <2>1, <3>1 DEF Log
  <2>4. ToSet(Backlog') = ToSet(Backlog) \cup Alive(file)
    BY <2>1, <2>2, BacklogSet
  <2> QED BY <2>1, <2>3, <2>4 DEF NothingPending, Remembered, Explained
<1>4. ASSUME NEW m \in Messages, EnqueueNext(m)
      PROVE  NothingPending' /\ Remembered' /\ Explained'
  <2>1. /\ phase' = phase /\ phase \in {"subscribed", "up"} /\ writeQ' = writeQ
        /\ unlogged \subseteq unlogged' \cup {m} /\ settled \subseteq settled' \cup {m}
        /\ failed' = failed /\ spoiled' = spoiled
        /\ phase = "subscribed" => unlogged' = unlogged \cup {m} /\ tasks' = tasks
    BY <1>4 DEF EnqueueNext, Schedule
  <2>2. /\ ToSet(Backlog') \subseteq ToSet(Backlog) \cup {m} /\ m \in ToSet(Backlog')
        /\ ToSet(Backlog) \ ToSet(Backlog') \subseteq dropped'
        /\ dropped \subseteq dropped' \cup {m}
        /\ phase = "up" => Alive(Log') = Alive(Log) \cup {m}
    BY <1>4, EnqueueEffect
  <2>3. NothingPending'
    BY <2>1, <2>2 DEF NothingPending
  <2>4. Remembered'
    BY <2>1, <2>2 DEF Remembered
  <2>5. Explained'
    BY <2>1, <2>2 DEF Explained
  <2> QED BY <2>3, <2>4, <2>5
<1>5. CASE DequeueNext
  <2>1. /\ phase = "up" /\ phase' = "up"
        /\ UNCHANGED <<unlogged, settled, dropped, failed, spoiled>>
    BY <1>5 DEF DequeueNext, history
  <2>2. ToSet(Backlog') = ToSet(Backlog) /\ Log' = Log
    BY <1>5, DequeueEffect
  <2> QED BY <2>1, <2>2 DEF NothingPending, Remembered, Explained
<1>6. CASE AckNext
  <2>1. /\ phase = "up" /\ phase' = "up" /\ settled' = settled \cup {processing}
        /\ UNCHANGED <<unlogged, dropped, failed, spoiled>>
    BY <1>6 DEF AckNext
  <2>2. /\ ToSet(Backlog') \subseteq ToSet(Backlog)
        /\ ToSet(Backlog) \subseteq ToSet(Backlog') \cup {processing}
        /\ Alive(Log') = Alive(Log) \ {processing}
    BY <1>6, AckEffect
  <2> QED BY <2>1, <2>2 DEF NothingPending, Remembered, Explained
<1>7. ASSUME NEW late \in BOOLEAN, NackNext(late)
      PROVE  NothingPending' /\ Remembered' /\ Explained'
  <2>1. phase = "up" /\ phase' = "up" /\ UNCHANGED <<unlogged, dropped, failed, spoiled>>
    BY <1>7 DEF NackNext
  <2>2. CASE late
    <3>1. /\ settled' = settled \cup {processing} /\ ToSet(Backlog') \subseteq ToSet(Backlog)
          /\ ToSet(Backlog) \subseteq ToSet(Backlog') \cup {processing}
          /\ Alive(Log') = Alive(Log) \ {processing}
      BY <1>7, <2>2, NackEffect
    <3> QED BY <2>1, <3>1 DEF NothingPending, Remembered, Explained
  <2>3. CASE ~late
    <3>1. ToSet(Backlog') = ToSet(Backlog) /\ settled' = settled /\ Log' = Log
      BY <1>7, <2>3, NackEffect
    <3> QED BY <2>1, <3>1 DEF NothingPending, Remembered, Explained
  <2> QED BY <2>2, <2>3
(* The steps that bring an entry nearer to the file.                       *)
<1>8. ASSUME NEW X,
             /\ phase' = phase /\ phase \in {"up", "closing"} /\ UNCHANGED <<memory>>
             /\ UNCHANGED <<unlogged, settled, dropped>> /\ (phase # "up" => tasks' = <<>>)
             /\ failed \subseteq failed' /\ spoiled \subseteq spoiled'
             /\ X \subseteq failed' \cup spoiled',
             \A m : m \notin X => (m \in Alive(Log) <=> m \in Alive(Log'))
      PROVE  NothingPending' /\ Remembered' /\ Explained'
  <2>1. Backlog' = Backlog
    BY <1>8 DEF memory, Backlog
  <2>2. NothingPending'
    BY <1>8 DEF NothingPending
  <2>3. Remembered'
    BY <1>8, <2>1 DEF Remembered
  <2>4. Explained'
    BY <1>8, <2>1 DEF Explained
  <2> QED BY <2>2, <2>3, <2>4
<1>9. ASSUME NEW large \in BOOLEAN, RunWriteTask(large)
      PROVE  NothingPending' /\ Remembered' /\ Explained'
  <2>1. \A m : m \notin {} => (m \in Alive(Log) <=> m \in Alive(Log'))
    BY <1>9, RunEffect
  <2>2. /\ phase' = phase /\ phase = "up" /\ UNCHANGED <<memory>>
        /\ UNCHANGED <<unlogged, settled, dropped, failed, spoiled>>
    BY <1>9 DEF RunWriteTask, history
  <2> QED BY <1>8, <2>1, <2>2
<1>10. CASE WriteLine
  <2> DEFINE X == IF torn THEN {Head(writeQ).id} ELSE {}
  <2>1. \A m : m \notin X => (m \in Alive(Log) <=> m \in Alive(Log'))
    BY <1>10, WriteLineEffect
  <2>2. /\ phase' = phase /\ phase \in {"up", "closing"} /\ UNCHANGED <<memory>>
        /\ UNCHANGED <<unlogged, settled, dropped, failed>> /\ tasks' = tasks
        /\ spoiled \subseteq spoiled' /\ X \subseteq spoiled'
    BY <1>10 DEF WriteLine
  <2>3. phase # "up" => tasks' = <<>>
    BY <2>2 DEF NothingPending
  <2> HIDE DEF X
  <2> QED BY <1>8, <2>1, <2>2, <2>3
<1>11. ASSUME NEW partial \in BOOLEAN, WriteLineFails(partial)
       PROVE  NothingPending' /\ Remembered' /\ Explained'
  <2> DEFINE X == {Head(writeQ).id}
  <2>1. \A m : m \notin X => (m \in Alive(Log) <=> m \in Alive(Log'))
    BY <1>11, WriteLineFailsEffect
  <2>2. /\ phase' = phase /\ phase \in {"up", "closing"} /\ UNCHANGED <<memory>>
        /\ UNCHANGED <<unlogged, settled, dropped, spoiled>> /\ tasks' = tasks
        /\ failed \subseteq failed' /\ X \subseteq failed'
    BY <1>11 DEF WriteLineFails
  <2>3. phase # "up" => tasks' = <<>>
    BY <2>2 DEF NothingPending
  <2> HIDE DEF X
  <2> QED BY <1>8, <2>1, <2>2, <2>3
<1>12. CASE UNCHANGED vars
  <2>1. /\ UNCHANGED <<phase, tasks, writeQ, unlogged, settled, dropped, failed, spoiled>>
        /\ Backlog' = Backlog /\ Log' = Log
    BY <1>12 DEF vars, memory, history, Backlog, Log
  <2> QED BY <2>1 DEF NothingPending, Remembered, Explained
<1> QED BY <1>1, <1>2, <1>3, <1>4, <1>5, <1>6, <1>7, <1>9, <1>10, <1>11, <1>12 DEF Next

LEMMA PersistInvariant == Spec => []PersistInv
BY InitPersistInv, PersistInvStep, PTL DEF Spec

(* Crash safety (queue_persist.py:4): a restart brings back every message  *)
(* in memory, or will once what is on its way has been written, unless its *)
(* own append failed or joined a line cut short.                           *)
THEOREM NothingIsForgotten == Spec => []NothingForgotten
<1>1. PersistInv => NothingForgotten
  <2> SUFFICES ASSUME PersistInv, phase = "up", NEW m \in ToSet(Backlog),
                      m \notin unlogged \cup settled \cup failed \cup spoiled
               PROVE  Contains(Restore(Log), m)
    BY DEF NothingForgotten
  <2>1. m \in ToSet(Restore(Log)) /\ Restore(Log) \in Seq(Messages)
    BY LogType, RestoreType DEF PersistInv, Remembered, Alive
  <2> QED BY <2>1, LenProperties DEF ToSet, Contains
<1> QED BY <1>1, PersistInvariant, PTL

(* An acknowledged or dead message never comes back, whatever compaction   *)
(* did between its operations (queue_persist.py:275-318).                  *)
THEOREM NothingIsResurrected == Spec => []NothingResurrected
<1>1. PersistInv => NothingResurrected
  BY DEF PersistInv, Explained, NothingResurrected, Alive
<1> QED BY <1>1, PersistInvariant, PTL

(* However many writes fail, each forgets or resurrects one message        *)
(* besides its own at most (queue_persist.py:81-88).                       *)
THEOREM DamageBounded == Spec => []DamageIsBounded
<1>1. PersistInv => DamageIsBounded
  <2> SUFFICES ASSUME PersistInv, phase = "up" PROVE DamageIsBounded
    BY DEF DamageIsBounded
  <2> DEFINE forgotten == ToSet(Backlog) \ (unlogged \cup settled \cup failed
                                                \cup ToSet(Restore(Log)))
             resurrected == ToSet(Restore(Log)) \ (ToSet(Backlog) \cup dropped \cup failed)
  <2>1. forgotten \cup resurrected \subseteq spoiled
    BY DEF PersistInv, Remembered, Explained, Alive
  <2>2. /\ IsFiniteSet(spoiled) /\ faults \in Nat
        /\ Cardinality(spoiled) + (IF torn THEN 1 ELSE 0) <= faults
    BY DEF PersistInv, SpoiledByFaults, TypeOK
  <2> HIDE DEF forgotten, resurrected
  <2>3. /\ IsFiniteSet(forgotten \cup resurrected)
        /\ Cardinality(forgotten \cup resurrected) <= Cardinality(spoiled)
    BY <2>1, <2>2, FS_Subset
  <2>4. Cardinality(spoiled) \in Nat /\ Cardinality(forgotten \cup resurrected) \in Nat
    BY <2>2, <2>3, FS_CardinalityType
  <2>5. Cardinality(forgotten \cup resurrected) <= faults
    BY <2>2, <2>3, <2>4
  <2> QED BY <2>5 DEF DamageIsBounded, forgotten, resurrected
<1> QED BY <1>1, PersistInvariant, PTL

-----------------------------------------------------------------------------
(* The persistence implements the abstract durable queue *)

LEMMA EntriesConcat ==
    ASSUME NEW w \in Seq(Entries), NEW t \in Seq(Entries)
    PROVE  /\ w \o t \in Seq(Entries) /\ (t = <<>> => w \o t = w)
           /\ w # <<>> => /\ w \o t # <<>> /\ Head(w \o t) = Head(w)
                          /\ Tail(w \o t) = Tail(w) \o t
           /\ \A e \in Entries : w \o Append(t, e) = Append(w \o t, e)
           /\ SubSeq(w \o t, 1, Len(w)) = w /\ SubSeq(w \o t, 1, 0) = <<>>
           /\ Len(w \o t) = Len(w) + Len(t)
           /\ t # <<>> => Len(w) \in 0 .. Len(w \o t) - 1
           /\ w \o t # <<>> => 0 \in 0 .. Len(w \o t) - 1
<1>1. /\ w \o t \in Seq(Entries) /\ Len(w \o t) = Len(w) + Len(t)
      /\ Len(w) \in Nat /\ Len(t) \in Nat
      /\ \A i \in 1 .. Len(w) : (w \o t)[i] = w[i]
  BY ConcatProperties, LenProperties
<1>2. t = <<>> => w \o t = w
  BY ConcatEmptySeq
<1>3. \A e \in Entries : w \o Append(t, e) = Append(w \o t, e)
  OBVIOUS
<1>4. ASSUME w # <<>>
      PROVE  w \o t # <<>> /\ Head(w \o t) = Head(w) /\ Tail(w \o t) = Tail(w) \o t
  BY <1>4
<1>5. SubSeq(w \o t, 1, Len(w)) = w /\ SubSeq(w \o t, 1, 0) = <<>>
  <2> DEFINE u == SubSeq(w \o t, 1, Len(w))
  <2>1. \A i \in 1 .. Len(w) : (w \o t)[i] \in Entries
    BY <1>1, ElementOfSeq
  <2>2. u \in Seq(Entries) /\ Len(u) = Len(w) /\ \A i \in 1 .. Len(w) : u[i] = w[i]
    BY <1>1, <2>1, SubSeqProperties
  <2> HIDE DEF u
  <2>3. u = w
    BY <2>2, SeqEqual
  <2>4. SubSeq(w \o t, 1, 0) = <<>>
    BY SubSeqEmpty
  <2> QED BY <2>3, <2>4 DEF u
<1>6. (t # <<>> => Len(t) > 0) /\ (w \o t # <<>> => Len(w \o t) > 0)
  BY <1>1, EmptySeq
<1>7. /\ t # <<>> => Len(w) \in 0 .. Len(w \o t) - 1
      /\ w \o t # <<>> => 0 \in 0 .. Len(w \o t) - 1
  <2> DEFINE n == Len(w)  k == Len(t)  z == Len(w \o t)
  <2>1. n \in Nat /\ k \in Nat /\ z = n + k
    BY <1>1
  <2> HIDE DEF n, k, z
  <2>2. (k > 0 => n \in 0 .. z - 1) /\ (z > 0 => 0 \in 0 .. z - 1)
    BY <2>1
  <2> QED BY <1>6, <2>2 DEF n, k, z
<1> HIDE DEF Entries
<1>8. w \o t \in Seq(Entries) /\ Len(w \o t) = Len(w) + Len(t)
  BY <1>1
<1> QED BY <1>2, <1>3, <1>4, <1>5, <1>7, <1>8, Zenon

LEMMA PromiseInit == Init => Promise!Init
<1> SUFFICES ASSUME Init PROVE Promise!Init
  OBVIOUS
<1>1. file = <<>> /\ writeQ \o tasks = <<>> /\ torn = FALSE
  BY DEF Init
<1> QED BY <1>1, AliveStep DEF Promise!Init, Alive

LEMMA PromiseStep ==
    TypeOK /\ TypeOK' /\ [Next]_vars => [Promise!Next]_(Promise!vars)
<1> SUFFICES ASSUME TypeOK, TypeOK', [Next]_vars PROVE Promise!Next \/ UNCHANGED Promise!vars
  OBVIOUS
<1> USE DEF Promise!vars
<1>0. /\ writeQ \in Seq(Entries) /\ tasks \in Seq(Entries) /\ file \in Seq(Lines)
      /\ file' \in Seq(Lines)
  BY DEF TypeOK
(* Creating a write task issues an operation. *)
<1>1. ASSUME NEW e \in Entries, Schedule(e), UNCHANGED <<file, writeQ, torn>>
      PROVE  Promise!Next \/ UNCHANGED Promise!vars
  <2>1. CASE phase = "up"
    <3>1. (writeQ \o tasks)' = Append(writeQ \o tasks, e)
      BY <1>0, <1>1, <2>1, EntriesConcat DEF Schedule
    <3>2. Promise!Issue
      BY <1>1, <3>1 DEF Promise!Issue, Promise!Entries, Entries
    <3> QED BY <3>2 DEF Promise!Next
  <2>2. CASE phase # "up"
    BY <1>1, <2>2 DEF Schedule
  <2> QED BY <2>1, <2>2
<1>2. ASSUME UNCHANGED <<file, writeQ, tasks, torn>>
      PROVE  Promise!Next \/ UNCHANGED Promise!vars
  BY <1>2
<1>3. CASE Boot \/ InitPersist \/ DequeueNext \/ Closed \/ UNCHANGED vars
  BY <1>2, <1>3 DEF Boot, InitPersist, DequeueNext, Closed, vars
<1>4. ASSUME NEW m \in Messages, EnqueueNext(m)
      PROVE  Promise!Next \/ UNCHANGED Promise!vars
  BY <1>1, <1>4, EntryType DEF EnqueueNext
<1>5. CASE AckNext
  <2>1. processing \in Messages
    BY <1>5 DEF AckNext, TypeOK
  <2> QED BY <1>1, <1>5, <2>1, EntryType DEF AckNext
<1>6. ASSUME NEW late \in BOOLEAN, NackNext(late)
      PROVE  Promise!Next \/ UNCHANGED Promise!vars
  <2>1. processing \in Messages /\ UNCHANGED <<file, writeQ, torn>>
    BY <1>6 DEF NackNext, TypeOK
  <2>2. CASE late
    <3>1. Schedule(Entry("nack", processing))
      BY <1>6, <2>2, Zenon DEF NackNext
    <3> QED BY <1>1, <2>1, <3>1, EntryType
  <2>3. CASE ~late
    <3>1. UNCHANGED tasks
      BY <1>6, <2>3, Zenon DEF NackNext
    <3> QED BY <1>2, <2>1, <3>1
  <2> QED BY <2>2, <2>3
(* A task that starts is invisible but for the line compaction repairs. *)
<1>7. ASSUME NEW large \in BOOLEAN, RunWriteTask(large)
      PROVE  Promise!Next \/ UNCHANGED Promise!vars
  <2>1. (writeQ \o tasks)' = writeQ \o tasks
    BY <1>0, <1>7, MoveFirst DEF RunWriteTask
  <2>2. ToSet(Restore(file))' = ToSet(Restore(file))
    BY <1>0, <1>7, CompactAlive DEF RunWriteTask, Alive
  <2>3. torn' = FALSE \/ torn' = torn
    BY <1>7 DEF RunWriteTask
  <2>4. CASE torn' = FALSE
    BY <2>1, <2>2, <2>4 DEF Promise!Next, Promise!Repair
  <2>5. CASE torn' = torn
    BY <2>1, <2>2, <2>5
  <2> QED BY <2>3, <2>4, <2>5
<1>8. ASSUME writeQ # <<>>, writeQ' = Tail(writeQ), tasks' = tasks
      PROVE  /\ writeQ \o tasks # <<>> /\ (writeQ \o tasks)' = Tail(writeQ \o tasks)
             /\ Head(writeQ \o tasks) = Head(writeQ) /\ Head(writeQ) \in Entries
  <2>1. Head(writeQ) \in Entries
    BY <1>0, <1>8, HeadTailProperties
  <2> QED BY <1>0, <1>8, <2>1, EntriesConcat
<1>9. CASE WriteLine
  <2>1. writeQ # <<>> /\ writeQ' = Tail(writeQ) /\ tasks' = tasks /\ torn' = FALSE
    BY <1>9 DEF WriteLine
  <2>2. CASE torn
    <3>1. file' = file
      BY <1>9, <2>2 DEF WriteLine
    <3>2. Promise!LoseOne
      BY <1>8, <2>1, <2>2, <3>1 DEF Promise!LoseOne
    <3> QED BY <3>2 DEF Promise!Next
  <2>3. CASE ~torn
    <3>1. file' = Append(file, Head(writeQ))
      BY <1>9, <2>3 DEF WriteLine
    <3>2. ToSet(Restore(file))' = Promise!Apply(ToSet(Restore(file)), Head(writeQ))
      BY <1>0, <1>8, <2>1, <3>1, AliveStep DEF Alive, Promise!Apply
    <3>3. torn' = torn
      BY <2>1, <2>3, TypeOK DEF TypeOK
    <3>4. Promise!BecomeDurable
      BY <1>8, <2>1, <2>3, <3>2, <3>3 DEF Promise!BecomeDurable
    <3> QED BY <3>4 DEF Promise!Next
  <2> QED BY <2>2, <2>3
<1>10. ASSUME NEW partial \in BOOLEAN, WriteLineFails(partial)
       PROVE  Promise!Next \/ UNCHANGED Promise!vars
  <2>1. writeQ # <<>> /\ writeQ' = Tail(writeQ) /\ tasks' = tasks
    BY <1>10 DEF WriteLineFails
  <2>2. file' = file \/ file' = Append(file, Garbage)
    BY <1>10 DEF WriteLineFails
  <2>3. ToSet(Restore(file))' = ToSet(Restore(file))
    BY <1>0, <2>2, AliveStep DEF Alive
  <2>4. torn' \in {TRUE, torn}
    BY <1>10 DEF WriteLineFails, TypeOK
  <2>5. Promise!Fail
    BY <1>8, <2>1, <2>3, <2>4 DEF Promise!Fail
  <2> QED BY <2>5 DEF Promise!Next
(* The end of the process forgets what was issued last. *)
<1>11. CASE Close
  <2>1. tasks' = <<>> /\ UNCHANGED <<writeQ, file, torn>>
    BY <1>11 DEF Close
  <2>2. CASE tasks = <<>>
    BY <1>2, <2>1, <2>2
  <2>3. CASE tasks # <<>>
    <3>1. (writeQ \o tasks)' = SubSeq(writeQ \o tasks, 1, Len(writeQ))
      BY <1>0, <2>1, EntriesConcat
    <3>2. Len(writeQ) \in 0 .. Len(writeQ \o tasks) - 1
      BY <1>0, <2>3, EntriesConcat
    <3>3. Promise!Stop
      BY <2>1, <3>1, <3>2 DEF Promise!Stop
    <3> QED BY <3>3 DEF Promise!Next
  <2> QED BY <2>2, <2>3
<1>12. CASE Crash
  <2>1. tasks' = <<>> /\ writeQ' = <<>> /\ UNCHANGED <<file, torn>>
    BY <1>12 DEF Crash
  <2>2. (writeQ \o tasks)' = <<>>
    BY <2>1
  <2>3. CASE writeQ \o tasks = <<>>
    BY <2>1, <2>2, <2>3
  <2>4. CASE writeQ \o tasks # <<>>
    <3>1. /\ (writeQ \o tasks)' = SubSeq(writeQ \o tasks, 1, 0)
          /\ 0 \in 0 .. Len(writeQ \o tasks) - 1
      BY <1>0, <2>2, <2>4, EntriesConcat
    <3>2. Promise!Stop
      BY <2>1, <3>1 DEF Promise!Stop
    <3> QED BY <3>2 DEF Promise!Next
  <2> QED BY <2>3, <2>4
<1> QED BY <1>3, <1>4, <1>5, <1>6, <1>7, <1>9, <1>10, <1>11, <1>12 DEF Next

(* The tasks, the write queue and the compacted file are the abstract      *)
(* durable queue (queue_persist.py:3-7), through every crash and failure.  *)
THEOREM DurableQueueImplemented == Spec => ImplementsDurableQueue
<1>1. Spec => Promise!Init /\ [][Promise!Next]_(Promise!vars)
  BY PromiseInit, PromiseStep, PersistTypeCorrect, PTL DEF Spec
<1> QED BY <1>1 DEF ImplementsDurableQueue, Promise!Spec

-----------------------------------------------------------------------------
(* The order of the queue through a restart *)

(* Every position of s goes to a position of t, in the same order. *)
Embeds(h, s, t) ==
    /\ h \in [1 .. Len(s) -> 1 .. Len(t)]
    /\ \A i, j \in 1 .. Len(s) : i < j => h[i] < h[j]

(* Some lines of t are gone in s, or no longer parse. *)
Thinner(s, t) ==
    \E h : Embeds(h, s, t) /\ \A i \in 1 .. Len(s) : s[i] = t[h[i]] \/ s[i] = Garbage

(* No id is enqueued after another operation on it. *)
OnlyFirst(lines) ==
    \A i, j \in 1 .. Len(lines) :
        i < j /\ lines[i] \in Entries /\ lines[j] \in Entries /\ lines[i].id = lines[j].id
            => lines[j].op # "enqueue"

Mentions(lines, m) == \E i \in 1 .. Len(lines) : lines[i] \in Entries /\ lines[i].id = m

(* The enqueue entries of s are in the order of s. *)
InOrder(s, lines) ==
    \A m, n \in Messages : Before(s, m, n) =>
        \A i, j \in 1 .. Len(lines) :
            lines[i] = Entry("enqueue", m) /\ lines[j] = Entry("enqueue", n) => i < j

OrderInv ==
    /\ OnlyFirst(Log)
    /\ \A m \in Messages : Mentions(Log, m) => m \in seen
    /\ phase \in {"subscribed", "up"} => ToSet(Backlog) \subseteq seen
    /\ phase = "subscribed" => /\ processing = NoMsg
                               /\ \A m \in ToSet(Backlog) : ~Mentions(Log, m)
    /\ phase = "up" => InOrder(Backlog, Log)

(* Thinning keeps what is said of the order of the lines. *)
LEMMA ThinnerKeeps ==
    ASSUME NEW s \in Seq(Lines), NEW t \in Seq(Lines), Thinner(s, t)
    PROVE  /\ OnlyFirst(t) => OnlyFirst(s)
           /\ \A m : Mentions(s, m) => Mentions(t, m)
           /\ \A b : InOrder(b, t) => InOrder(b, s)
<1>1. PICK h : Embeds(h, s, t) /\ \A i \in 1 .. Len(s) : s[i] = t[h[i]] \/ s[i] = Garbage
  BY DEF Thinner
<1>2. /\ \A i \in 1 .. Len(s) : h[i] \in 1 .. Len(t) /\ (s[i] \in Entries => s[i] = t[h[i]])
      /\ \A i, j \in 1 .. Len(s) : i < j => h[i] < h[j]
  BY <1>1, GarbageIsNoEntry DEF Embeds
<1>3. ASSUME OnlyFirst(t) PROVE OnlyFirst(s)
  <2> SUFFICES ASSUME NEW i \in 1 .. Len(s), NEW j \in 1 .. Len(s), i < j,
                      s[i] \in Entries, s[j] \in Entries, s[i].id = s[j].id
               PROVE  s[j].op # "enqueue"
    BY DEF OnlyFirst
  <2>1. h[i] \in 1 .. Len(t) /\ h[j] \in 1 .. Len(t) /\ h[i] < h[j]
        /\ s[i] = t[h[i]] /\ s[j] = t[h[j]]
    BY <1>2
  <2> QED BY <1>3, <2>1 DEF OnlyFirst
<1>4. \A m : Mentions(s, m) => Mentions(t, m)
  BY <1>2 DEF Mentions
<1>5. ASSUME NEW b, InOrder(b, t) PROVE InOrder(b, s)
  <2> SUFFICES ASSUME NEW m \in Messages, NEW n \in Messages, Before(b, m, n),
                      NEW i \in 1 .. Len(s), NEW j \in 1 .. Len(s),
                      s[i] = Entry("enqueue", m), s[j] = Entry("enqueue", n)
               PROVE  i < j
    BY DEF InOrder
  <2>1. s[i] \in Entries /\ s[j] \in Entries
    BY EntryType
  <2>2. h[i] \in 1 .. Len(t) /\ h[j] \in 1 .. Len(t) /\ t[h[i]] = s[i] /\ t[h[j]] = s[j]
    BY <1>2, <2>1
  <2>3. h[i] < h[j]
    BY <1>5, <2>2 DEF InOrder
  <2>4. Len(s) \in Nat /\ Len(t) \in Nat
    BY LenProperties
  <2>5. ~(j < i)
    BY <1>2, <2>2, <2>3, <2>4
  <2>6. i # j
    BY <2>2, <2>3, <2>4
  <2> QED BY <2>4, <2>5, <2>6
<1> QED BY <1>3, <1>4, <1>5

LEMMA ThinnerConcat ==
    ASSUME NEW s \in Seq(Lines), NEW t \in Seq(Lines),
           NEW u \in Seq(Lines), NEW v \in Seq(Lines), Thinner(s, t), Thinner(u, v)
    PROVE  Thinner(s \o u, t \o v)
<1>1. PICK h : Embeds(h, s, t) /\ \A i \in 1 .. Len(s) : s[i] = t[h[i]] \/ s[i] = Garbage
  BY DEF Thinner
<1>2. PICK g : Embeds(g, u, v) /\ \A i \in 1 .. Len(u) : u[i] = v[g[i]] \/ u[i] = Garbage
  BY DEF Thinner
<1> DEFINE a == Len(s)  b == Len(t)  c == Len(u)  d == Len(v)
           f == [i \in 1 .. Len(s \o u) |-> IF i <= a THEN h[i] ELSE b + g[i - a]]
<1>3. /\ a \in Nat /\ b \in Nat /\ c \in Nat /\ d \in Nat
      /\ Len(s \o u) = a + c /\ Len(t \o v) = b + d
      /\ \A i \in 1 .. a + c : (s \o u)[i] = IF i <= a THEN s[i] ELSE u[i - a]
      /\ \A i \in 1 .. b + d : (t \o v)[i] = IF i <= b THEN t[i] ELSE v[i - b]
  BY LenProperties, ConcatProperties
<1>4. /\ \A i \in 1 .. a : h[i] \in 1 .. b /\ (s[i] = t[h[i]] \/ s[i] = Garbage)
      /\ \A i \in 1 .. c : g[i] \in 1 .. d /\ (u[i] = v[g[i]] \/ u[i] = Garbage)
      /\ \A i, j \in 1 .. a : i < j => h[i] < h[j]
      /\ \A i, j \in 1 .. c : i < j => g[i] < g[j]
  BY <1>1, <1>2 DEF Embeds
<1>5. \A i \in 1 .. a + c : f[i] = IF i <= a THEN h[i] ELSE b + g[i - a]
  BY <1>3
<1> HIDE DEF a, b, c, d
<1>6. \A i \in 1 .. a + c : /\ f[i] \in 1 .. b + d
                            /\ (s \o u)[i] = (t \o v)[f[i]] \/ (s \o u)[i] = Garbage
  <2> TAKE i \in 1 .. a + c
  <2>1. CASE i <= a
    <3>1. i \in 1 .. a /\ h[i] \in 1 .. b /\ f[i] = h[i]
      BY <1>3, <1>4, <1>5, <2>1
    <3>2. f[i] \in 1 .. b + d /\ f[i] <= b
      BY <1>3, <3>1
    <3> HIDE DEF f
    <3> QED BY <1>3, <1>4, <2>1, <3>1, <3>2
  <2>2. CASE ~(i <= a)
    <3>1. i - a \in 1 .. c
      BY <1>3, <2>2
    <3>2. g[i - a] \in 1 .. d /\ f[i] = b + g[i - a]
      BY <1>4, <1>5, <2>2, <3>1
    <3>3. f[i] \in 1 .. b + d /\ ~(f[i] <= b) /\ f[i] - b = g[i - a]
      BY <1>3, <3>2
    <3> HIDE DEF f
    <3> QED BY <1>3, <1>4, <2>2, <3>1, <3>2, <3>3
  <2> QED BY <2>1, <2>2
<1>7. ASSUME NEW i \in 1 .. a + c, NEW j \in 1 .. a + c, i < j PROVE f[i] < f[j]
  <2>1. CASE j <= a
    <3>1. i \in 1 .. a /\ j \in 1 .. a
      BY <1>3, <1>7, <2>1
    <3> QED BY <1>3, <1>4, <1>5, <1>7, <2>1, <3>1
  <2>2. CASE i <= a /\ ~(j <= a)
    <3>1. i \in 1 .. a /\ j - a \in 1 .. c
      BY <1>3, <2>2
    <3>2. h[i] \in 1 .. b /\ g[j - a] \in 1 .. d
      BY <1>4, <3>1
    <3>3. h[i] < b + g[j - a]
      BY <1>3, <3>2
    <3> QED BY <1>5, <2>2, <3>3
  <2>3. CASE ~(i <= a)
    <3>1. i - a \in 1 .. c /\ j - a \in 1 .. c /\ i - a < j - a /\ ~(j <= a)
      BY <1>3, <1>7, <2>3
    <3>2. g[i - a] < g[j - a] /\ g[i - a] \in 1 .. d /\ g[j - a] \in 1 .. d
      BY <1>4, <3>1
    <3>3. b + g[i - a] < b + g[j - a]
      BY <1>3, <3>2
    <3> QED BY <1>5, <2>3, <3>1, <3>3
  <2> QED BY <2>1, <2>2, <2>3
<1>8. f \in [1 .. a + c -> 1 .. b + d]
  BY <1>3, <1>6
<1> HIDE DEF f
<1>9. Embeds(f, s \o u, t \o v)
  BY <1>3, <1>7, <1>8 DEF Embeds
<1> QED BY <1>3, <1>6, <1>9 DEF Thinner

LEMMA ThinnerBasics ==
    /\ \A s \in Seq(Lines) : Thinner(s, s) /\ Thinner(<<>>, s)
    /\ \A e \in Lines : Thinner(<<Garbage>>, <<e>>)
<1>1. ASSUME NEW s \in Seq(Lines) PROVE Thinner(s, s)
  <2> DEFINE h == [i \in 1 .. Len(s) |-> i]
  <2>1. Embeds(h, s, s) /\ \A i \in 1 .. Len(s) : s[i] = s[h[i]]
    BY DEF Embeds
  <2> HIDE DEF h
  <2> QED BY <2>1 DEF Thinner
<1>2. ASSUME NEW s \in Seq(Lines) PROVE Thinner(<<>>, s)
  <2> DEFINE e == <<>>
             h == [i \in 1 .. 0 |-> i]
  <2>1. Len(e) = 0 /\ 1 .. 0 = {}
    OBVIOUS
  <2>2. h \in [1 .. 0 -> 1 .. Len(s)]
    BY <2>1
  <2> HIDE DEF e, h
  <2>3. Embeds(h, e, s) /\ \A i \in 1 .. Len(e) : e[i] = s[h[i]]
    BY <2>1, <2>2 DEF Embeds
  <2>4. Thinner(e, s)
    BY <2>3 DEF Thinner
  <2> QED BY <2>4 DEF e
<1>3. ASSUME NEW e \in Lines PROVE Thinner(<<Garbage>>, <<e>>)
  <2> DEFINE g == <<Garbage>>
             x == <<e>>
             h == [i \in 1 .. 1 |-> i]
  <2>1. Len(g) = 1 /\ Len(x) = 1 /\ g[1] = Garbage /\ 1 .. 1 = {1}
    OBVIOUS
  <2>2. h \in [1 .. 1 -> 1 .. 1]
    OBVIOUS
  <2> HIDE DEF g, x, h
  <2>3. Embeds(h, g, x) /\ \A i \in 1 .. Len(g) : g[i] = Garbage
    BY <2>1, <2>2 DEF Embeds
  <2>4. Thinner(g, x)
    BY <2>3 DEF Thinner
  <2> QED BY <2>4 DEF g, x
<1> QED BY <1>1, <1>2, <1>3

(* The dictionary has its ids in the order of their first lines. *)
LEMMA DictOrder ==
    \A L \in Seq(Lines) : OnlyFirst(L) =>
        \E h : /\ Embeds(h, LastOps[Parsed[L]], L)
               /\ \A p \in 1 .. Len(LastOps[Parsed[L]]) :
                     /\ L[h[p]] \in Entries /\ L[h[p]].id = LastOps[Parsed[L]][p].id
                     /\ LastOps[Parsed[L]][p].op = "enqueue" => L[h[p]] = LastOps[Parsed[L]][p]
<1> DEFINE Fits(h, d, L) == /\ Embeds(h, d, L)
                            /\ \A p \in 1 .. Len(d) :
                                  /\ L[h[p]] \in Entries /\ L[h[p]].id = d[p].id
                                  /\ d[p].op = "enqueue" => L[h[p]] = d[p]
           T == {L \in Seq(Lines) : OnlyFirst(L) => \E h : Fits(h, LastOps[Parsed[L]], L)}
<1>1. <<>> \in T
  <2>1. LastOps[Parsed[<<>>]] = <<>> /\ <<>> \in Seq(Lines)
    BY ParsedStep, LastOpsStep, EmptySeq
  <2> DEFINE e == <<>>
             h == [i \in 1 .. 0 |-> i]
  <2>2. Len(e) = 0 /\ 1 .. 0 = {} /\ h \in [1 .. 0 -> 1 .. Len(e)]
    OBVIOUS
  <2> HIDE DEF e, h
  <2>3. Fits(h, e, e)
    BY <2>2 DEF Embeds
  <2> QED BY <2>1, <2>3 DEF e
<1>2. ASSUME NEW L \in Seq(Lines), L \in T, NEW e \in Lines PROVE Append(L, e) \in T
  <2> DEFINE M == Append(L, e)
             d == LastOps[Parsed[L]]
             dd == LastOps[Parsed[M]]
             n == Len(L)
             k == Len(d)
  <2>1. /\ M \in Seq(Lines) /\ Len(M) = n + 1 /\ n \in Nat
        /\ \A i \in 1 .. n : M[i] = L[i]
        /\ M[n + 1] = e
    BY AppendProperties, LenProperties
  <2>2. Parsed[L] \in Seq(Entries) /\ d \in Seq(Entries) /\ k \in Nat
        /\ \A p \in 1 .. k : d[p] \in Entries
    <3>1. Parsed[L] \in Seq(Entries) /\ d \in Seq(Entries)
      BY ParsedStep, LastOpsStep
    <3> HIDE DEF d
    <3> QED BY <3>1, LenProperties, ElementOfSeq
  <2>3. dd = IF e = Garbage THEN d ELSE Assign(d, e)
    <3>1. CASE e = Garbage
      BY <3>1, ParsedStep
    <3>2. CASE e # Garbage
      <4>1. e \in Entries
        BY <3>2 DEF Lines
      <4> QED BY <2>2, <3>2, <4>1, ParsedStep, LastOpsStep
    <3> QED BY <3>1, <3>2
  <2> SUFFICES ASSUME OnlyFirst(M) PROVE \E h : Fits(h, dd, M)
    BY <2>1
  <2> HIDE DEF M, d, dd, n, k
  <2>4. OnlyFirst(L)
    <3> SUFFICES ASSUME NEW i \in 1 .. n, NEW j \in 1 .. n, i < j,
                        L[i] \in Entries, L[j] \in Entries, L[i].id = L[j].id
                 PROVE  L[j].op # "enqueue"
      BY DEF OnlyFirst, n
    <3>1. i \in 1 .. Len(M) /\ j \in 1 .. Len(M) /\ M[i] = L[i] /\ M[j] = L[j]
      BY <2>1
    <3> QED BY <3>1 DEF OnlyFirst
  <2>5. PICK h : Fits(h, d, L)
    BY <1>2, <2>4 DEF d
  <2> HIDE DEF T
  <2>6. /\ \A p \in 1 .. k : /\ h[p] \in 1 .. n
                             /\ L[h[p]] \in Entries /\ L[h[p]].id = d[p].id
                             /\ d[p].op = "enqueue" => L[h[p]] = d[p]
        /\ \A p, q \in 1 .. k : p < q => h[p] < h[q]
        /\ h \in [1 .. k -> 1 .. n]
    BY <2>5 DEF Embeds, k, n
  <2>7. \A p \in 1 .. k : h[p] \in 1 .. n + 1 /\ M[h[p]] = L[h[p]]
    BY <2>1, <2>6
  <2>8. h \in [1 .. k -> 1 .. n + 1]
    BY <2>6, <2>7
  <2>9. CASE e = Garbage
    <3>1. dd = d
      BY <2>3, <2>9
    <3>2. Fits(h, d, M)
      BY <2>1, <2>6, <2>7, <2>8 DEF Embeds, k
    <3> QED BY <3>1, <3>2
  <2>10. CASE e # Garbage /\ \E p \in DOMAIN d : d[p].id = e.id
    <3>1. e \in Entries /\ DOMAIN d = 1 .. k
      BY <2>2, <2>10, LenProperties DEF Lines, k
    <3>2. dd = [p \in 1 .. k |-> IF d[p].id = e.id THEN e ELSE d[p]]
      BY <2>3, <2>10, <3>1 DEF Assign
    <3>3. Len(dd) = k /\ \A p \in 1 .. k : dd[p] = IF d[p].id = e.id THEN e ELSE d[p]
      <4>1. dd \in Seq(Entries)
        <5>1. \A p \in 1 .. k : (IF d[p].id = e.id THEN e ELSE d[p]) \in Entries
          BY <2>2, <3>1
        <5> QED BY <2>2, <3>2, <5>1
      <4>2. DOMAIN dd = 1 .. k
        BY <3>2
      <4>3. DOMAIN dd = 1 .. Len(dd) /\ Len(dd) \in Nat
        BY <4>1, LenProperties
      <4> QED BY <2>2, <3>2, <4>2, <4>3
    <3>4. PICK p \in 1 .. k : d[p].id = e.id
      BY <2>10, <3>1
    <3>5. e.op # "enqueue"
      <4>1. /\ h[p] \in 1 .. Len(M) /\ n + 1 \in 1 .. Len(M) /\ h[p] < n + 1
            /\ M[h[p]] = L[h[p]] /\ M[n + 1] = e
        BY <2>1, <2>6, <2>7
      <4> QED BY <2>6, <3>1, <3>4, <4>1 DEF OnlyFirst
    <3>6. ASSUME NEW q \in 1 .. k
          PROVE  /\ M[h[q]] \in Entries /\ M[h[q]].id = dd[q].id
                 /\ dd[q].op = "enqueue" => M[h[q]] = dd[q]
      <4>1. CASE d[q].id = e.id
        BY <2>6, <2>7, <3>3, <3>5, <4>1
      <4>2. CASE d[q].id # e.id
        BY <2>6, <2>7, <3>3, <4>2
      <4> QED BY <4>1, <4>2
    <3>7. Fits(h, dd, M)
      BY <2>1, <2>6, <2>8, <3>3, <3>6 DEF Embeds
    <3> QED BY <3>7
  <2>11. CASE e # Garbage /\ ~ \E p \in DOMAIN d : d[p].id = e.id
    <3>1. e \in Entries
      BY <2>11 DEF Lines
    <3>2. dd = Append(d, e)
      BY <2>3, <2>11 DEF Assign
    <3>3. Len(dd) = k + 1 /\ dd[k + 1] = e /\ \A p \in 1 .. k : dd[p] = d[p]
      BY <2>2, <3>1, <3>2, AppendProperties DEF k
    <3> DEFINE f == [p \in 1 .. k + 1 |-> IF p = k + 1 THEN n + 1 ELSE h[p]]
    <3>4. f[k + 1] = n + 1 /\ (\A p \in 1 .. k : f[p] = h[p]) /\ f \in [1 .. k + 1 -> 1 .. n + 1]
      <4>1. \A p \in 1 .. k : p \in 1 .. k + 1 /\ p # k + 1
        BY <2>2
      <4>2. k + 1 \in 1 .. k + 1 /\ n + 1 \in 1 .. n + 1
        BY <2>1, <2>2
      <4>3. \A p \in 1 .. k + 1 : p = k + 1 \/ p \in 1 .. k
        BY <2>2
      <4> QED BY <2>7, <4>1, <4>2, <4>3
    <3> HIDE DEF f
    <3>5. \A p \in 1 .. k + 1 : p = k + 1 \/ p \in 1 .. k
      BY <2>2
    <3>6. ASSUME NEW p \in 1 .. k + 1, NEW q \in 1 .. k + 1, p < q PROVE f[p] < f[q]
      <4>1. p \in 1 .. k
        BY <2>2, <3>6
      <4>2. CASE q = k + 1
        BY <2>1, <2>6, <3>4, <4>1, <4>2
      <4>3. CASE q \in 1 .. k
        BY <2>6, <3>4, <3>6, <4>1, <4>3
      <4> QED BY <3>5, <4>2, <4>3
    <3>7. ASSUME NEW p \in 1 .. k + 1
          PROVE  /\ M[f[p]] \in Entries /\ M[f[p]].id = dd[p].id
                 /\ dd[p].op = "enqueue" => M[f[p]] = dd[p]
      <4>1. CASE p = k + 1
        BY <2>1, <3>1, <3>3, <3>4, <4>1
      <4>2. CASE p \in 1 .. k
        BY <2>6, <2>7, <3>3, <3>4, <4>2
      <4> QED BY <3>5, <4>1, <4>2
    <3>8. Fits(f, dd, M)
      BY <2>1, <3>3, <3>4, <3>6, <3>7 DEF Embeds
    <3> QED BY <3>8
  <2> QED BY <2>9, <2>10, <2>11
<1>3. \A L \in Seq(Lines) : L \in T
  <2>1. \A s \in Seq(Lines) \cap T, e \in Lines : Append(s, e) \in T
    BY <1>2
  <2> HIDE DEF T
  <2> QED BY <1>1, <2>1, SequenceInduction
<1> QED BY <1>3

(* The enqueues of the dictionary keep its order. *)
LEMMA EnqueuesOrder ==
    \A d \in Seq(Entries) :
        \E h : /\ Embeds(h, Enqueues[d], d)
               /\ \A p \in 1 .. Len(Enqueues[d]) :
                     Enqueues[d][p] = d[h[p]] /\ Enqueues[d][p].op = "enqueue"
<1> DEFINE Fits(h, s, d) == /\ Embeds(h, s, d)
                            /\ \A p \in 1 .. Len(s) : s[p] = d[h[p]] /\ s[p].op = "enqueue"
           T == {d \in Seq(Entries) : \E h : Fits(h, Enqueues[d], d)}
<1>1. <<>> \in T
  <2>1. Enqueues[<<>>] = <<>> /\ <<>> \in Seq(Entries)
    BY EnqueuesStep, EmptySeq
  <2> DEFINE e == <<>>
             h == [i \in 1 .. 0 |-> i]
  <2>2. Len(e) = 0 /\ 1 .. 0 = {} /\ h \in [1 .. 0 -> 1 .. Len(e)]
    OBVIOUS
  <2> HIDE DEF e, h
  <2>3. Fits(h, e, e)
    BY <2>2 DEF Embeds
  <2> QED BY <2>1, <2>3 DEF e
<1>2. ASSUME NEW d \in Seq(Entries), d \in T, NEW e \in Entries PROVE Append(d, e) \in T
  <2> DEFINE dd == Append(d, e)
             s == Enqueues[d]
             ss == Enqueues[dd]
             n == Len(d)
             k == Len(s)
  <2>1. /\ dd \in Seq(Entries) /\ Len(dd) = n + 1 /\ n \in Nat
        /\ \A i \in 1 .. n : dd[i] = d[i]
        /\ dd[n + 1] = e
    BY AppendProperties, LenProperties
  <2>2. s \in Seq(Entries) /\ k \in Nat
    <3>1. s \in Seq(Entries)
      BY EnqueuesStep
    <3> HIDE DEF s
    <3> QED BY <3>1, LenProperties
  <2>3. ss = IF e.op = "enqueue" THEN Append(s, e) ELSE s
    BY EnqueuesStep
  <2>4. PICK h : Fits(h, s, d)
    BY <1>2
  <2> SUFFICES \E f : Fits(f, ss, dd)
    BY <2>1
  <2> HIDE DEF T, dd, s, ss, n, k
  <2>5. /\ \A p \in 1 .. k : h[p] \in 1 .. n /\ s[p] = d[h[p]] /\ s[p].op = "enqueue"
        /\ \A p, q \in 1 .. k : p < q => h[p] < h[q]
        /\ h \in [1 .. k -> 1 .. n]
    BY <2>4 DEF Embeds, k, n
  <2>6. \A p \in 1 .. k : h[p] \in 1 .. n + 1 /\ dd[h[p]] = d[h[p]]
    BY <2>1, <2>5
  <2>7. CASE e.op # "enqueue"
    <3>1. h \in [1 .. k -> 1 .. n + 1]
      BY <2>5, <2>6
    <3>2. Fits(h, s, dd)
      BY <2>1, <2>5, <2>6, <3>1 DEF Embeds, k
    <3> QED BY <2>3, <2>7, <3>2
  <2>8. CASE e.op = "enqueue"
    <3>1. Len(ss) = k + 1 /\ ss[k + 1] = e /\ \A p \in 1 .. k : ss[p] = s[p]
      BY <2>2, <2>3, <2>8, AppendProperties DEF k
    <3> DEFINE f == [p \in 1 .. k + 1 |-> IF p = k + 1 THEN n + 1 ELSE h[p]]
    <3>2. f[k + 1] = n + 1 /\ (\A p \in 1 .. k : f[p] = h[p]) /\ f \in [1 .. k + 1 -> 1 .. n + 1]
      <4>1. \A p \in 1 .. k : p \in 1 .. k + 1 /\ p # k + 1
        BY <2>2
      <4>2. k + 1 \in 1 .. k + 1 /\ n + 1 \in 1 .. n + 1
        BY <2>1, <2>2
      <4>3. \A p \in 1 .. k + 1 : p = k + 1 \/ p \in 1 .. k
        BY <2>2
      <4> QED BY <2>6, <4>1, <4>2, <4>3
    <3> HIDE DEF f
    <3>3. \A p \in 1 .. k + 1 : p = k + 1 \/ p \in 1 .. k
      BY <2>2
    <3>4. ASSUME NEW p \in 1 .. k + 1, NEW q \in 1 .. k + 1, p < q PROVE f[p] < f[q]
      <4>1. p \in 1 .. k
        BY <2>2, <3>4
      <4>2. CASE q = k + 1
        BY <2>1, <2>5, <3>2, <4>1, <4>2
      <4>3. CASE q \in 1 .. k
        BY <2>5, <3>2, <3>4, <4>1, <4>3
      <4> QED BY <3>3, <4>2, <4>3
    <3>5. ASSUME NEW p \in 1 .. k + 1 PROVE ss[p] = dd[f[p]] /\ ss[p].op = "enqueue"
      <4>1. CASE p = k + 1
        BY <2>1, <2>8, <3>1, <3>2, <4>1
      <4>2. CASE p \in 1 .. k
        BY <2>5, <2>6, <3>1, <3>2, <4>2
      <4> QED BY <3>3, <4>1, <4>2
    <3>6. Fits(f, ss, dd)
      BY <2>1, <3>1, <3>2, <3>4, <3>5 DEF Embeds
    <3> QED BY <3>6
  <2> QED BY <2>7, <2>8
<1>3. \A d \in Seq(Entries) : d \in T
  <2>1. \A s \in Seq(Entries) \cap T, e \in Entries : Append(s, e) \in T
    BY <1>2
  <2> HIDE DEF T
  <2> QED BY <1>1, <2>1, SequenceInduction
<1> QED BY <1>3

(* What is kept of a file, in the order of the file. *)
LEMMA UnsettledOrder ==
    ASSUME NEW L \in Seq(Lines), OnlyFirst(L)
    PROVE  /\ Unsettled(Parsed[L]) \in Seq(Entries)
           /\ \E h : /\ Embeds(h, Unsettled(Parsed[L]), L)
                     /\ \A p \in 1 .. Len(Unsettled(Parsed[L])) :
                           /\ Unsettled(Parsed[L])[p] = L[h[p]]
                           /\ Unsettled(Parsed[L])[p].op = "enqueue"
<1> DEFINE d == LastOps[Parsed[L]]
           s == Enqueues[d]
<1>1. d \in Seq(Entries) /\ s \in Seq(Entries)
  BY ParsedStep, LastOpsStep, EnqueuesStep
<1>2. PICK h : /\ Embeds(h, d, L)
               /\ \A p \in 1 .. Len(d) : d[p].op = "enqueue" => L[h[p]] = d[p]
  <2> HIDE DEF d
  <2> QED BY DictOrder DEF d
<1>3. PICK g : /\ Embeds(g, s, d)
               /\ \A p \in 1 .. Len(s) : s[p] = d[g[p]] /\ s[p].op = "enqueue"
  <2> HIDE DEF d
  <2> QED BY <1>1, EnqueuesOrder
<1> HIDE DEF d, s
<1> DEFINE f == [p \in 1 .. Len(s) |-> h[g[p]]]
<1>4. \A p \in 1 .. Len(s) : g[p] \in 1 .. Len(d) /\ h[g[p]] \in 1 .. Len(L)
  BY <1>2, <1>3 DEF Embeds
<1>5. f \in [1 .. Len(s) -> 1 .. Len(L)] /\ \A p \in 1 .. Len(s) : f[p] = h[g[p]]
  BY <1>4
<1> HIDE DEF f
<1>6. \A p, q \in 1 .. Len(s) : p < q => f[p] < f[q]
  BY <1>2, <1>3, <1>4, <1>5 DEF Embeds
<1>7. \A p \in 1 .. Len(s) : s[p] = L[f[p]] /\ s[p].op = "enqueue"
  BY <1>2, <1>3, <1>4, <1>5
<1>8. Embeds(f, s, L)
  BY <1>5, <1>6 DEF Embeds
<1>9. Unsettled(Parsed[L]) = s
  BY DEF Unsettled, s, d
<1> QED BY <1>1, <1>7, <1>8, <1>9

LEMMA CompactThinner ==
    ASSUME NEW F \in Seq(Lines), OnlyFirst(F)
    PROVE  Thinner(Compact(F), F)
<1>1. Compact(F) = F \/ Compact(F) = Unsettled(Parsed[F])
  BY DEF Compact, ReadAllOps
<1>2. Thinner(F, F)
  BY ThinnerBasics
<1>3. Thinner(Unsettled(Parsed[F]), F)
  BY UnsettledOrder DEF Thinner
<1> QED BY <1>1, <1>2, <1>3

(* A restart brings the messages back in the order of their enqueues. *)
LEMMA RestoreOrder ==
    ASSUME NEW L \in Seq(Lines), OnlyFirst(L)
    PROVE  /\ \A m \in ToSet(Restore(L)) :
                 m \in Messages /\ \E i \in 1 .. Len(L) : L[i] = Entry("enqueue", m)
           /\ \A m, n : Before(Restore(L), m, n) =>
                 \E i, j \in 1 .. Len(L) :
                    i < j /\ L[i] = Entry("enqueue", m) /\ L[j] = Entry("enqueue", n)
           /\ \A m, n \in ToSet(Restore(L)) :
                 (\A i, j \in 1 .. Len(L) :
                    L[i] = Entry("enqueue", m) /\ L[j] = Entry("enqueue", n) => i < j)
                 => Before(Restore(L), m, n) /\ ~Before(Restore(L), n, m)
<1> DEFINE s == Unsettled(Parsed[L])
           R == Restore(L)
<1>1. PICK h : /\ Embeds(h, s, L)
               /\ \A p \in 1 .. Len(s) : s[p] = L[h[p]] /\ s[p].op = "enqueue"
  BY UnsettledOrder
<1>2. s \in Seq(Entries)
  BY UnsettledOrder
<1>3. R = [p \in DOMAIN s |-> s[p].id]
  BY DEF Restore, ReadAllOps
<1> HIDE DEF s, R
<1>4. /\ DOMAIN R = 1 .. Len(s) /\ Len(s) \in Nat /\ Len(L) \in Nat
      /\ \A p \in 1 .. Len(s) : R[p] = s[p].id
  BY <1>2, <1>3, LenProperties
<1>5. \A p \in 1 .. Len(s) : /\ h[p] \in 1 .. Len(L) /\ R[p] \in Messages
                             /\ L[h[p]] = Entry("enqueue", R[p])
  <2> TAKE p \in 1 .. Len(s)
  <2>1. s[p] \in Entries /\ s[p].op = "enqueue" /\ s[p] = L[h[p]] /\ h[p] \in 1 .. Len(L)
    BY <1>1, <1>2, ElementOfSeq DEF Embeds
  <2>2. s[p] = Entry("enqueue", s[p].id) /\ s[p].id \in Messages
    BY <2>1 DEF Entries, Entry
  <2> QED BY <1>4, <2>1, <2>2
<1>6. \A p, q \in 1 .. Len(s) : p < q => h[p] < h[q]
  BY <1>1 DEF Embeds
<1>7. \A m : m \in ToSet(R) <=> \E p \in 1 .. Len(s) : R[p] = m
  BY <1>4 DEF ToSet
<1>8. \A m \in ToSet(R) :
         m \in Messages /\ \E i \in 1 .. Len(L) : L[i] = Entry("enqueue", m)
  BY <1>5, <1>7
<1>9. ASSUME NEW m, NEW n, Before(R, m, n)
      PROVE  \E i, j \in 1 .. Len(L) :
                i < j /\ L[i] = Entry("enqueue", m) /\ L[j] = Entry("enqueue", n)
  <2>1. PICK p \in 1 .. Len(s), q \in 1 .. Len(s) : p < q /\ R[p] = m /\ R[q] = n
    BY <1>4, <1>9 DEF Before
  <2> QED BY <1>5, <1>6, <2>1
<1>10. ASSUME NEW m \in ToSet(R), NEW n \in ToSet(R),
              \A i, j \in 1 .. Len(L) :
                 L[i] = Entry("enqueue", m) /\ L[j] = Entry("enqueue", n) => i < j
       PROVE  Before(R, m, n) /\ ~Before(R, n, m)
  <2>1. PICK p \in 1 .. Len(s), q \in 1 .. Len(s) : R[p] = m /\ R[q] = n
    BY <1>7
  <2>2. h[p] < h[q] /\ h[p] \in Nat /\ h[q] \in Nat
    BY <1>4, <1>5, <1>10, <2>1
  <2>3. ~(q < p) /\ p # q
    BY <1>6, <2>2
  <2>4. p < q
    BY <1>4, <2>3
  <2>5. Before(R, m, n)
    BY <1>4, <2>1, <2>4 DEF Before
  <2>6. ASSUME Before(R, n, m) PROVE FALSE
    <3>1. PICK i \in 1 .. Len(L), j \in 1 .. Len(L) :
             i < j /\ L[i] = Entry("enqueue", n) /\ L[j] = Entry("enqueue", m)
      BY <1>9, <2>6
    <3>2. j < i
      BY <1>10, <3>1
    <3> QED BY <1>4, <3>1, <3>2
  <2> QED BY <2>5, <2>6
<1> QED BY <1>8, <1>9, <1>10 DEF R

LEMMA BeforeFacts ==
    ASSUME NEW s \in Seq(Messages)
    PROVE  /\ \A m, n : Before(s, m, n) => m \in ToSet(s) /\ n \in ToSet(s)
           /\ \A e \in Messages : \A m, n : Before(Append(s, e), m, n) =>
                 Before(s, m, n) \/ (m \in ToSet(s) /\ n = e)
           /\ \A e \in Messages : \A m, n : Before(<<e>> \o s, m, n) <=>
                 Before(s, m, n) \/ (m = e /\ n \in ToSet(s))
           /\ \A t \in Seq(Messages) : \A m, n : Before(s \o t, m, n) =>
                 Before(s, m, n) \/ m \in ToSet(s) \/ Before(t, m, n)
<1>1. DOMAIN s = 1 .. Len(s) /\ Len(s) \in Nat
  BY LenProperties
<1>2. \A m, n : Before(s, m, n) => m \in ToSet(s) /\ n \in ToSet(s)
  BY DEF Before, ToSet
<1>3. ASSUME NEW e \in Messages, NEW m, NEW n, Before(Append(s, e), m, n)
      PROVE  Before(s, m, n) \/ (m \in ToSet(s) /\ n = e)
  <2> DEFINE t == Append(s, e)
  <2>1. /\ DOMAIN t = 1 .. Len(s) + 1 /\ t[Len(s) + 1] = e
        /\ \A i \in 1 .. Len(s) : t[i] = s[i]
    BY AppendProperties, LenProperties
  <2> HIDE DEF t
  <2>2. PICK i \in 1 .. Len(s) + 1, j \in 1 .. Len(s) + 1 : i < j /\ t[i] = m /\ t[j] = n
    BY <1>3, <2>1 DEF Before, t
  <2>3. i \in 1 .. Len(s) /\ s[i] = m
    BY <1>1, <2>1, <2>2
  <2>4. CASE j = Len(s) + 1
    BY <1>1, <2>1, <2>2, <2>3, <2>4 DEF ToSet
  <2>5. CASE j # Len(s) + 1
    <3>1. j \in 1 .. Len(s)
      BY <1>1, <2>2, <2>5
    <3>2. s[j] = n
      BY <2>1, <2>2, <3>1
    <3> QED BY <1>1, <2>2, <2>3, <3>1, <3>2 DEF Before
  <2> QED BY <2>4, <2>5
<1>4. ASSUME NEW e \in Messages, NEW m, NEW n
      PROVE  Before(<<e>> \o s, m, n) <=> Before(s, m, n) \/ (m = e /\ n \in ToSet(s))
  <2> DEFINE t == <<e>> \o s
  <2>1. /\ DOMAIN t = 1 .. Len(s) + 1 /\ t[1] = e
        /\ \A i \in 1 .. Len(s) : t[i + 1] = s[i]
    <3>1. <<e>> \in Seq(Messages) /\ Len(<<e>>) = 1 /\ <<e>>[1] = e
      OBVIOUS
    <3>2. /\ t \in Seq(Messages) /\ Len(t) = 1 + Len(s)
          /\ \A i \in 1 .. 1 + Len(s) : t[i] = IF i <= 1 THEN <<e>>[i] ELSE s[i - 1]
      BY <3>1, ConcatProperties
    <3>3. DOMAIN t = 1 .. Len(t)
      BY <3>2, LenProperties
    <3> HIDE DEF t
    <3> QED BY <1>1, <3>1, <3>2, <3>3
  <2> HIDE DEF t
  <2>2. ASSUME Before(t, m, n) PROVE Before(s, m, n) \/ (m = e /\ n \in ToSet(s))
    <3>1. PICK i \in 1 .. Len(s) + 1, j \in 1 .. Len(s) + 1 : i < j /\ t[i] = m /\ t[j] = n
      BY <2>1, <2>2 DEF Before
    <3>2. j - 1 \in 1 .. Len(s) /\ (j - 1) + 1 = j
      BY <1>1, <3>1
    <3>3. s[j - 1] = n
      BY <2>1, <3>1, <3>2
    <3>4. CASE i = 1
      BY <1>1, <2>1, <3>1, <3>2, <3>3, <3>4 DEF ToSet
    <3>5. CASE i # 1
      <4>1. i - 1 \in 1 .. Len(s) /\ (i - 1) + 1 = i /\ i - 1 < j - 1
        BY <1>1, <3>1, <3>5
      <4>2. s[i - 1] = m
        BY <2>1, <3>1, <4>1
      <4> QED BY <1>1, <3>2, <3>3, <4>1, <4>2 DEF Before
    <3> QED BY <3>4, <3>5
  <2>3. ASSUME Before(s, m, n) PROVE Before(t, m, n)
    <3>1. PICK i \in 1 .. Len(s), j \in 1 .. Len(s) : i < j /\ s[i] = m /\ s[j] = n
      BY <1>1, <2>3 DEF Before
    <3>2. /\ i + 1 \in 1 .. Len(s) + 1 /\ j + 1 \in 1 .. Len(s) + 1 /\ i + 1 < j + 1
          /\ t[i + 1] = m /\ t[j + 1] = n
      BY <1>1, <2>1, <3>1
    <3> QED BY <2>1, <3>2 DEF Before
  <2>4. ASSUME m = e, n \in ToSet(s) PROVE Before(t, m, n)
    <3>1. PICK j \in 1 .. Len(s) : s[j] = n
      BY <1>1, <2>4 DEF ToSet
    <3>2. 1 \in 1 .. Len(s) + 1 /\ j + 1 \in 1 .. Len(s) + 1 /\ 1 < j + 1 /\ t[j + 1] = n
      BY <1>1, <2>1, <3>1
    <3> QED BY <2>1, <2>4, <3>2 DEF Before
  <2> QED BY <2>2, <2>3, <2>4 DEF t
<1>5. ASSUME NEW t \in Seq(Messages), NEW m, NEW n, Before(s \o t, m, n)
      PROVE  Before(s, m, n) \/ m \in ToSet(s) \/ Before(t, m, n)
  <2> DEFINE u == s \o t
             a == Len(s)
             b == Len(t)
  <2>1. /\ a \in Nat /\ b \in Nat /\ DOMAIN u = 1 .. a + b /\ DOMAIN t = 1 .. b
        /\ \A i \in 1 .. a + b : u[i] = IF i <= a THEN s[i] ELSE t[i - a]
    BY ConcatProperties, LenProperties
  <2> HIDE DEF u, a, b
  <2>2. PICK i \in 1 .. a + b, j \in 1 .. a + b : i < j /\ u[i] = m /\ u[j] = n
    BY <1>5, <2>1 DEF Before, u
  <2>3. CASE i <= a
    <3>1. i \in DOMAIN s /\ s[i] = m
      BY <1>1, <2>1, <2>2, <2>3 DEF a
    <3> QED BY <3>1 DEF ToSet
  <2>4. CASE ~(i <= a)
    <3>1. i - a \in 1 .. b /\ j - a \in 1 .. b /\ i - a < j - a /\ ~(j <= a)
      BY <2>1, <2>2, <2>4
    <3>2. t[i - a] = m /\ t[j - a] = n
      BY <2>1, <2>2, <2>4, <3>1
    <3> QED BY <2>1, <3>1, <3>2 DEF Before
  <2> QED BY <2>3, <2>4
<1> QED BY <1>2, <1>3, <1>4, <1>5

(* Every step of the writer thins the log out. *)
LEMMA RunThinner ==
    ASSUME TypeOK, TypeOK', OnlyFirst(file), NEW large \in BOOLEAN, RunWriteTask(large)
    PROVE  Thinner(Log', Log)
<1>1. /\ writeQ \in Seq(Lines) /\ tasks \in Seq(Lines) /\ tasks # <<>>
      /\ writeQ' = Append(writeQ, Head(tasks)) /\ tasks' = Tail(tasks)
      /\ file \in Seq(Lines) /\ file' \in Seq(Lines)
  BY LogType DEF RunWriteTask, TypeOK
<1>2. /\ writeQ' \o tasks' = writeQ \o tasks /\ writeQ \o tasks \in Seq(Lines)
      /\ writeQ' \in Seq(Lines) /\ tasks' \in Seq(Lines)
  BY <1>1, MoveFirst, ConcatProperties
<1>3. Log = file \o (writeQ \o tasks) /\ Log' = file' \o (writeQ \o tasks)
  <2>1. Log' = (file' \o writeQ') \o tasks'
    BY DEF Log
  <2>2. (file' \o writeQ') \o tasks' = file' \o (writeQ' \o tasks')
    BY <1>1, <1>2, LinesConcat, Zenon
  <2> QED BY <1>2, <2>1, <2>2, LogType
<1>4. Thinner(file', file)
  <2>1. file' = file \/ file' = Compact(file)
    BY DEF RunWriteTask
  <2> QED BY <1>1, <2>1, ThinnerBasics, CompactThinner
<1>5. Thinner(writeQ \o tasks, writeQ \o tasks)
  BY <1>2, ThinnerBasics
<1> QED BY <1>1, <1>2, <1>3, <1>4, <1>5, ThinnerConcat

LEMMA WriteThinner ==
    ASSUME TypeOK, TypeOK', writeQ # <<>>, writeQ' = Tail(writeQ), tasks' = tasks,
           file' \in {file, Append(file, Garbage), Append(file, Head(writeQ))}
    PROVE  Thinner(Log', Log)
<1>1. /\ writeQ \in Seq(Lines) /\ tasks \in Seq(Lines) /\ file \in Seq(Lines)
      /\ file' \in Seq(Lines)
  BY LogType DEF TypeOK
<1> DEFINE e == Head(writeQ)
           t == Tail(writeQ)
           F == Append(file, e)
<1>2. /\ e \in Lines /\ t \in Seq(Lines) /\ F \in Seq(Lines) /\ F \o t = file \o writeQ
  BY <1>1, MoveFirst
<1>3. Log = (F \o t) \o tasks /\ Log' = (file' \o t) \o tasks
  BY <1>2 DEF Log
<1>4. Thinner(file', F)
  <2> DEFINE x == <<e>>
             g == <<Garbage>>
             z == <<>>
  <2>1. Garbage \in Lines
    BY DEF Lines
  <2>2. F = file \o x /\ Append(file, Garbage) = file \o g /\ file \o z = file
    BY <1>1, <1>2, <2>1, AppendIsConcat, ConcatEmptySeq
  <2>3. x \in Seq(Lines) /\ g \in Seq(Lines) /\ z \in Seq(Lines)
    BY <1>2, <2>1
  <2>4. Thinner(x, x) /\ Thinner(g, x) /\ Thinner(z, x) /\ Thinner(file, file)
    BY <1>1, <1>2, <2>3, ThinnerBasics
  <2> HIDE DEF x, g, z, F, e, t
  <2>5. Thinner(file \o z, file \o x) /\ Thinner(file \o g, file \o x)
        /\ Thinner(file \o x, file \o x)
    BY <1>1, <2>3, <2>4, ThinnerConcat
  <2>6. file' = file \o z \/ file' = file \o g \/ file' = file \o x
    BY <2>2 DEF F, e
  <2> QED BY <2>2, <2>5, <2>6
<1> HIDE DEF e, t, F
<1>5. Thinner(t, t) /\ Thinner(tasks, tasks)
  BY <1>1, <1>2, ThinnerBasics
<1>6. Thinner(file' \o t, F \o t) /\ file' \o t \in Seq(Lines) /\ F \o t \in Seq(Lines)
  BY <1>1, <1>2, <1>4, <1>5, ThinnerConcat, ConcatProperties
<1> QED BY <1>1, <1>3, <1>5, <1>6, ThinnerConcat

LEMMA StopThinner ==
    ASSUME TypeOK, TypeOK', file' = file, tasks' = <<>>, writeQ' \in {writeQ, <<>>}
    PROVE  Thinner(Log', Log)
<1>1. /\ writeQ \in Seq(Lines) /\ tasks \in Seq(Lines) /\ file \in Seq(Lines)
      /\ writeQ' \in Seq(Lines) /\ tasks' \in Seq(Lines)
  BY LogType, EmptySeq
<1>2. Thinner(file, file) /\ Thinner(writeQ', writeQ) /\ Thinner(tasks', tasks)
  BY <1>1, ThinnerBasics
<1>3. Thinner(file \o writeQ', file \o writeQ) /\ file \o writeQ' \in Seq(Lines)
      /\ file \o writeQ \in Seq(Lines)
  BY <1>1, <1>2, ThinnerConcat, ConcatProperties
<1> QED BY <1>1, <1>2, <1>3, ThinnerConcat DEF Log

(* A settled message adds its entry to the log, which enqueues nothing. *)
LEMMA SettleKeeps ==
    ASSUME TypeOK, NEW e \in Entries, e.op # "enqueue", Log' = Append(Log, e)
    PROVE  /\ OnlyFirst(Log) => OnlyFirst(Log')
           /\ \A m : Mentions(Log', m) => Mentions(Log, m) \/ m = e.id
           /\ \A b : InOrder(b, Log) => InOrder(b, Log')
<1> DEFINE n == Len(Log)
<1>1. /\ n \in Nat /\ Len(Log') = n + 1 /\ Log'[n + 1] = e
      /\ \A i \in 1 .. n : Log'[i] = Log[i]
  <2>1. Log \in Seq(Lines) /\ e \in Lines
    BY LogType DEF Lines
  <2> QED BY <2>1, AppendProperties, LenProperties
<1> HIDE DEF n
<1>2. \A i \in 1 .. n + 1 : i = n + 1 \/ i \in 1 .. n
  BY <1>1
<1>3. \A m : Log'[n + 1] # Entry("enqueue", m)
  BY <1>1 DEF Entry
<1>4. ASSUME OnlyFirst(Log) PROVE OnlyFirst(Log')
  <2> SUFFICES ASSUME NEW i \in 1 .. n + 1, NEW j \in 1 .. n + 1, i < j,
                      Log'[i] \in Entries, Log'[j] \in Entries, Log'[i].id = Log'[j].id
               PROVE  Log'[j].op # "enqueue"
    BY <1>1 DEF OnlyFirst
  <2>1. CASE j = n + 1
    BY <1>1, <2>1
  <2>2. CASE j \in 1 .. n
    <3>1. i \in 1 .. n
      BY <1>1, <2>2
    <3> QED BY <1>1, <1>4, <2>2, <3>1 DEF OnlyFirst, n
  <2> QED BY <1>2, <2>1, <2>2
<1>5. ASSUME NEW m, Mentions(Log', m) PROVE Mentions(Log, m) \/ m = e.id
  BY <1>1, <1>2, <1>5 DEF Mentions, n
<1>6. ASSUME NEW b, InOrder(b, Log) PROVE InOrder(b, Log')
  <2> SUFFICES ASSUME NEW x \in Messages, NEW y \in Messages, Before(b, x, y),
                      NEW i \in 1 .. n + 1, NEW j \in 1 .. n + 1,
                      Log'[i] = Entry("enqueue", x), Log'[j] = Entry("enqueue", y)
               PROVE  i < j
    BY <1>1 DEF InOrder
  <2>1. i \in 1 .. n /\ j \in 1 .. n
    BY <1>2, <1>3
  <2> QED BY <1>1, <1>6, <2>1 DEF InOrder, n
<1> QED BY <1>4, <1>5, <1>6

(* A message that has never been seen goes last, in the queue and the log. *)
LEMMA EnqueueKeeps ==
    ASSUME TypeOK, NEW x \in Messages, ~Mentions(Log, x),
           Log' = Append(Log, Entry("enqueue", x))
    PROVE  /\ OnlyFirst(Log) => OnlyFirst(Log')
           /\ \A m : Mentions(Log', m) => Mentions(Log, m) \/ m = x
           /\ \A b, c :
                 /\ InOrder(b, Log) /\ x \notin ToSet(b)
                 /\ \A m, n : Before(b, m, n) => m \in ToSet(b) /\ n \in ToSet(b)
                 /\ \A m, n : Before(c, m, n) =>
                       Before(b, m, n) \/ (m \in ToSet(b) /\ n = x)
                 => InOrder(c, Log')
<1> DEFINE n == Len(Log)
           e == Entry("enqueue", x)
<1>1. /\ n \in Nat /\ Len(Log') = n + 1 /\ Log'[n + 1] = e
      /\ \A i \in 1 .. n : Log'[i] = Log[i]
      /\ e \in Entries /\ e.id = x
  <2>1. Log \in Seq(Lines) /\ e \in Lines /\ e \in Entries /\ e.id = x
    BY LogType, EntryType DEF Lines
  <2> HIDE DEF e
  <2> QED BY <2>1, AppendProperties, LenProperties DEF e
<1>2. \A m : Entry("enqueue", m) = e => m = x
  BY DEF Entry
<1>3. \A i \in 1 .. n : Log[i] \in Entries => Log[i].id # x
  BY DEF Mentions
<1> HIDE DEF n, e
<1>4. \A i \in 1 .. n + 1 : i = n + 1 \/ i \in 1 .. n
  BY <1>1
<1>5. ASSUME OnlyFirst(Log) PROVE OnlyFirst(Log')
  <2> SUFFICES ASSUME NEW i \in 1 .. n + 1, NEW j \in 1 .. n + 1, i < j,
                      Log'[i] \in Entries, Log'[j] \in Entries, Log'[i].id = Log'[j].id
               PROVE  Log'[j].op # "enqueue"
    BY <1>1 DEF OnlyFirst
  <2>0. i \in 1 .. n
    BY <1>1, <1>4
  <2>1. CASE j = n + 1
    BY <1>1, <1>3, <2>0, <2>1
  <2>2. CASE j \in 1 .. n
    BY <1>1, <1>5, <2>0, <2>2 DEF OnlyFirst, n
  <2> QED BY <1>4, <2>1, <2>2
<1>6. ASSUME NEW m, Mentions(Log', m) PROVE Mentions(Log, m) \/ m = x
  BY <1>1, <1>4, <1>6 DEF Mentions, n
<1>7. ASSUME NEW b, NEW c, InOrder(b, Log), x \notin ToSet(b),
             \A m1, n1 : Before(b, m1, n1) => m1 \in ToSet(b) /\ n1 \in ToSet(b),
             \A m1, n1 : Before(c, m1, n1) =>
                 Before(b, m1, n1) \/ (m1 \in ToSet(b) /\ n1 = x)
      PROVE  InOrder(c, Log')
  <2> SUFFICES ASSUME NEW m \in Messages, NEW y \in Messages, Before(c, m, y),
                      NEW i \in 1 .. n + 1, NEW j \in 1 .. n + 1,
                      Log'[i] = Entry("enqueue", m), Log'[j] = Entry("enqueue", y)
               PROVE  i < j
    BY <1>1 DEF InOrder
  <2>1. m # x /\ (y = x \/ Before(b, m, y))
    BY <1>7
  <2>2. i \in 1 .. n /\ Log[i] = Entry("enqueue", m)
    BY <1>1, <1>2, <1>4, <2>1
  <2>3. CASE y = x
    <3>1. Entry("enqueue", y) \in Entries /\ Entry("enqueue", y).id = x
      BY <2>3, EntryType
    <3>2. j = n + 1
      BY <1>1, <1>3, <1>4, <3>1
    <3> QED BY <1>1, <2>2, <3>2
  <2>4. CASE y # x
    <3>1. j \in 1 .. n /\ Log[j] = Entry("enqueue", y)
      BY <1>1, <1>2, <1>4, <2>4
    <3> QED BY <1>7, <2>1, <2>2, <2>4, <3>1 DEF InOrder, n
  <2> QED BY <2>3, <2>4
<1> QED BY <1>5, <1>6, <1>7

(* A step that thins the log out and leaves the queue alone. *)
LEMMA ThinnerStep ==
    ASSUME TypeOK, TypeOK', OrderInv, Thinner(Log', Log), UNCHANGED <<memory, seen>>,
           phase' \in {phase, "closing", "down"}
    PROVE  OrderInv'
<1>1. Log \in Seq(Lines) /\ Log' \in Seq(Lines)
  <2>1. writeQ' \in Seq(Lines) /\ tasks' \in Seq(Lines) /\ file' \in Seq(Lines)
    BY SeqMonotonic DEF TypeOK, Lines
  <2> QED BY <2>1, LogType, ConcatProperties DEF Log
<1>2. /\ OnlyFirst(Log) => OnlyFirst(Log')
      /\ \A m : Mentions(Log', m) => Mentions(Log, m)
      /\ \A b : InOrder(b, Log) => InOrder(b, Log')
  BY <1>1, ThinnerKeeps
<1>3. Backlog' = Backlog /\ processing' = processing /\ seen' = seen
  BY DEF memory, Backlog
<1> QED BY <1>2, <1>3 DEF OrderInv

LEMMA OrderInit == Init => OrderInv
<1> SUFFICES ASSUME Init PROVE OrderInv
  OBVIOUS
<1>1. Log = <<>> /\ phase = "down"
  BY DEF Init, Log
<1>2. Len(Log) = 0
  BY <1>1
<1> QED BY <1>1, <1>2 DEF OrderInv, OnlyFirst, Mentions

LEMMA OrderStep ==
    ASSUME Redelivery = FALSE
    PROVE  TypeOK /\ TypeOK' /\ NothingPending /\ OrderInv /\ [Next]_vars => OrderInv'
<1> SUFFICES ASSUME TypeOK, TypeOK', NothingPending, OrderInv, [Next]_vars PROVE OrderInv'
  OBVIOUS
<1>1. Log \in Seq(Lines) /\ file \in Seq(Lines)
  BY LogType
<1>2. /\ Backlog \in Seq(Messages) /\ Backlog' \in Seq(Messages)
      /\ ToSet(Backlog) = ToSet(pending) \cup ({processing} \ {NoMsg})
      /\ ToSet(Backlog') = ToSet(pending') \cup ({processing'} \ {NoMsg})
      /\ pending \in Seq(Messages) /\ processing \in Messages \cup {NoMsg}
      /\ \A m \in ToSet(Backlog) : m \in Messages
  <2>1. Backlog \in Seq(Messages)
    BY BacklogSet
  <2>2. \A m \in ToSet(Backlog) : m \in Messages
    BY <2>1, LenProperties, ElementOfSeq DEF ToSet
  <2> QED BY <2>2, BacklogSet DEF TypeOK
<1>3. \A m, n : Before(Backlog, m, n) => m \in ToSet(Backlog) /\ n \in ToSet(Backlog)
  BY <1>2, BeforeFacts
<1>4. CASE Boot
  <2>1. /\ phase' = "subscribed" /\ seen' = seen /\ processing' = NoMsg /\ pending' = <<>>
        /\ UNCHANGED <<file, writeQ, tasks>>
    BY <1>4 DEF Boot
  <2>2. Log' = Log /\ ToSet(Backlog') = {}
    BY <1>2, <2>1, ToSetEmpty DEF Log
  <2> QED BY <2>1, <2>2 DEF OrderInv
<1>5. CASE InitPersist
  <2>1. /\ phase = "subscribed" /\ phase' = "up" /\ seen' = seen
        /\ pending' = pending \o Restore(file) /\ processing' = processing
        /\ UNCHANGED <<file, writeQ, tasks>>
    BY <1>5 DEF InitPersist
  <2>2. writeQ = <<>> /\ tasks = <<>> /\ processing = NoMsg
    BY <2>1 DEF NothingPending, OrderInv
  <2>3. Log = file /\ Log' = file
    BY <1>1, <2>1, <2>2, ConcatEmptySeq DEF Log
  <2>4. Backlog = pending /\ Backlog' = Backlog \o Restore(file)
    BY <2>1, <2>2 DEF Backlog
  <2>5. OnlyFirst(file) /\ (\A m \in ToSet(Backlog) : ~Mentions(file, m))
        /\ (\A m \in Messages : Mentions(file, m) => m \in seen)
        /\ ToSet(Backlog) \subseteq seen
    BY <2>1, <2>3 DEF OrderInv
  <2>6. Restore(file) \in Seq(Messages)
    BY <1>1, RestoreType
  <2>7. \A m \in Messages, i \in 1 .. Len(file) :
           file[i] = Entry("enqueue", m) => Mentions(file, m)
    BY EntryType DEF Mentions
  <2>8. ToSet(Backlog') \subseteq seen
    <3>1. ToSet(Backlog') = ToSet(Backlog) \cup ToSet(Restore(file))
      BY <1>2, <2>4, <2>6, ToSetConcat
    <3>2. ToSet(Restore(file)) \subseteq seen
      BY <1>1, <2>5, <2>7, RestoreOrder
    <3> QED BY <2>5, <3>1, <3>2
  <2>9. InOrder(Backlog', file)
    <3> SUFFICES ASSUME NEW m \in Messages, NEW n \in Messages, Before(Backlog', m, n),
                        NEW i \in 1 .. Len(file), NEW j \in 1 .. Len(file),
                        file[i] = Entry("enqueue", m), file[j] = Entry("enqueue", n)
                 PROVE  i < j
      BY DEF InOrder
    <3>1. m \notin ToSet(Backlog)
      BY <2>5, <2>7
    <3>2. Before(Restore(file), m, n)
      BY <1>2, <1>3, <2>4, <2>6, <3>1, BeforeFacts
    <3>3. PICK p \in 1 .. Len(file), q \in 1 .. Len(file) :
             p < q /\ file[p] = Entry("enqueue", m) /\ file[q] = Entry("enqueue", n)
      BY <1>1, <2>5, <3>2, RestoreOrder
    <3>4. ASSUME NEW x \in Messages, NEW a \in 1 .. Len(file), NEW b \in 1 .. Len(file),
                 file[a] = Entry("enqueue", x), file[b] = Entry("enqueue", x)
          PROVE  a = b
      <4>1. /\ file[a] \in Entries /\ file[b] \in Entries /\ file[a].id = file[b].id
            /\ file[a].op = "enqueue" /\ file[b].op = "enqueue"
        BY <3>4, EntryType
      <4>2. ~(a < b) /\ ~(b < a)
        BY <2>5, <4>1 DEF OnlyFirst
      <4> QED BY <1>1, <4>2, LenProperties
    <3>5. p = i /\ q = j
      BY <3>3, <3>4
    <3> QED BY <3>3, <3>5
  <2> QED BY <2>1, <2>3, <2>5, <2>8, <2>9 DEF OrderInv
<1>6. ASSUME NEW m \in Messages, EnqueueNext(m) PROVE OrderInv'
  <2>1. /\ phase \in {"subscribed", "up"} /\ phase' = phase /\ m \notin seen
        /\ seen' = seen \cup {m} /\ processing' = processing
        /\ UNCHANGED <<file, writeQ>>
    BY <1>6 DEF EnqueueNext, Enqueue
  <2>2. /\ ToSet(Backlog') \subseteq ToSet(Backlog) \cup {m} /\ m \notin ToSet(Backlog)
        /\ ToSet(Backlog') \subseteq seen'
    BY <1>6, <2>1, EnqueueEffect DEF OrderInv
  <2>3. ~Mentions(Log, m)
    BY <2>1 DEF OrderInv
  <2>4. CASE phase = "subscribed"
    <3>1. Log' = Log
      BY <1>6, <2>1, <2>4 DEF EnqueueNext, Schedule, Log
    <3> QED BY <2>1, <2>2, <2>3, <2>4, <3>1 DEF OrderInv
  <2>5. CASE phase = "up"
    <3>1. tasks' = Append(tasks, Entry("enqueue", m)) /\ Entry("enqueue", m) \in Entries
      BY <1>6, <2>5, EntryType DEF EnqueueNext, Schedule
    <3>2. Log' = Append(Log, Entry("enqueue", m))
      BY <2>1, <3>1, LogGrows
    <3>3. \A x, y : Before(Backlog', x, y) =>
             Before(Backlog, x, y) \/ (x \in ToSet(Backlog) /\ y = m)
      <4> DEFINE kept == IF Full THEN Tail(pending) ELSE pending
      <4>1. /\ kept \in Seq(Messages) /\ ToSet(kept) \subseteq ToSet(pending)
            /\ \A x, y : Before(kept, x, y) => Before(pending, x, y)
        <5>1. CASE Full
          <6>1. pending # <<>>
            BY <5>1, FullHasHead DEF TypeOK
          <6> DEFINE t == Tail(pending)
                     h == Head(pending)
          <6>2. t \in Seq(Messages) /\ h \in Messages /\ ToSet(t) \subseteq ToSet(pending)
            BY <1>2, <6>1, HeadTailProperties, ToSetHeadTail
          <6>3. pending = <<h>> \o t
            <7> DEFINE z == <<>>
            <7>1. z \in Seq(Messages) /\ Append(z, h) = <<h>> /\ z \o pending = pending
              BY <1>2, ConcatEmptySeq
            <7> HIDE DEF z
            <7>2. Append(z, h) \o t = z \o pending
              BY <1>2, <6>1, <7>1, MoveFirst
            <7> QED BY <7>1, <7>2
          <6> HIDE DEF t, h
          <6>4. \A x, y : Before(t, x, y) => Before(pending, x, y)
            BY <6>2, <6>3, BeforeFacts
          <6> QED BY <5>1, <6>2, <6>4 DEF t
        <5>2. CASE ~Full
          BY <1>2, <5>2
        <5> QED BY <5>1, <5>2
      <4>2. pending' = Append(kept, m)
        BY <1>6 DEF EnqueueNext, Enqueue
      <4> HIDE DEF kept
      <4>3. \A x, y : Before(pending', x, y) =>
               Before(pending, x, y) \/ (x \in ToSet(pending) /\ y = m)
        BY <4>1, <4>2, BeforeFacts
      <4>4. CASE processing = NoMsg
        BY <1>2, <2>1, <4>3, <4>4 DEF Backlog
      <4>5. CASE processing # NoMsg
        <5>1. /\ Backlog = <<processing>> \o pending /\ Backlog' = <<processing>> \o pending'
              /\ processing \in Messages /\ pending' \in Seq(Messages)
          BY <1>2, <2>1, <4>5 DEF Backlog, TypeOK
        <5>2. \A x, y : Before(Backlog, x, y) <=>
                 Before(pending, x, y) \/ (x = processing /\ y \in ToSet(pending))
          BY <1>2, <5>1, BeforeFacts
        <5>3. \A x, y : Before(Backlog', x, y) <=>
                 Before(pending', x, y) \/ (x = processing /\ y \in ToSet(pending'))
          BY <5>1, BeforeFacts
        <5>4. ToSet(pending') = ToSet(kept) \cup {m}
          BY <4>1, <4>2, ToSetAppend
        <5> QED BY <1>2, <4>1, <4>3, <4>5, <5>2, <5>3, <5>4
      <4> QED BY <4>4, <4>5
    <3>4. InOrder(Backlog, Log) /\ OnlyFirst(Log)
      BY <2>5 DEF OrderInv
    <3>5. OnlyFirst(Log') /\ InOrder(Backlog', Log')
          /\ \A x : Mentions(Log', x) => Mentions(Log, x) \/ x = m
      BY <1>3, <2>2, <2>3, <3>2, <3>3, <3>4, EnqueueKeeps
    <3> QED BY <2>1, <2>2, <2>5, <3>5 DEF OrderInv
  <2> QED BY <2>1, <2>4, <2>5
<1>7. CASE DequeueNext
  <2>1. /\ pending # <<>> /\ processing = NoMsg /\ processing' = Head(pending)
        /\ pending' = Tail(pending) /\ Log' = Log /\ seen' = seen /\ phase' = phase
        /\ phase = "up"
    BY <1>7 DEF DequeueNext, Dequeue, CanDequeue, Log
  <2>2. Backlog' = Backlog
    <3> DEFINE z == <<>>
    <3>1. z \in Seq(Messages) /\ Append(z, Head(pending)) = <<Head(pending)>>
          /\ z \o pending = pending
      BY <1>2, ConcatEmptySeq
    <3> HIDE DEF z
    <3>2. Append(z, Head(pending)) \o Tail(pending) = z \o pending
      BY <1>2, <2>1, <3>1, MoveFirst
    <3>3. Head(pending) # NoMsg
      BY <1>2, <2>1, HeadTailProperties, PersistAssumption
    <3> QED BY <2>1, <3>1, <3>2, <3>3 DEF Backlog
  <2> QED BY <2>1, <2>2 DEF OrderInv
<1>8. CASE AckNext
  <2>1. /\ processing \in Messages /\ processing # NoMsg /\ processing' = NoMsg
        /\ pending' = pending /\ seen' = seen /\ phase' = phase /\ phase = "up"
        /\ tasks' = Append(tasks, Entry("ack", processing)) /\ UNCHANGED <<file, writeQ>>
    BY <1>2, <1>8 DEF AckNext, Ack, Schedule
  <2>2. /\ Entry("ack", processing) \in Entries /\ Entry("ack", processing).op # "enqueue"
        /\ Entry("ack", processing).id = processing
    BY <2>1, EntryType
  <2>3. Log' = Append(Log, Entry("ack", processing))
    BY <2>1, <2>2, LogGrows
  <2>4. /\ Backlog' = pending
        /\ \A x, y : Before(Backlog', x, y) => Before(Backlog, x, y)
    <3>1. Backlog = <<processing>> \o pending /\ Backlog' = pending
      BY <2>1 DEF Backlog
    <3> QED BY <1>2, <2>1, <3>1, BeforeFacts
  <2>5. /\ OnlyFirst(Log') /\ \A x : Mentions(Log', x) => Mentions(Log, x) \/ x = processing
        /\ InOrder(Backlog, Log')
    BY <2>1, <2>2, <2>3, SettleKeeps DEF OrderInv
  <2>6. InOrder(Backlog', Log')
    BY <2>4, <2>5 DEF InOrder
  <2>7. ToSet(Backlog') \subseteq seen' /\ processing \in seen
    BY <1>2, <2>1 DEF OrderInv
  <2> QED BY <2>1, <2>5, <2>6, <2>7 DEF OrderInv
<1>9. ASSUME NEW late \in BOOLEAN, NackNext(late) PROVE OrderInv'
  <2>1. /\ processing \in Messages /\ processing # NoMsg /\ processing' = NoMsg
        /\ seen' = seen /\ phase' = phase /\ phase = "up" /\ UNCHANGED <<file, writeQ>>
    BY <1>2, <1>9 DEF NackNext, Nack
  <2>2. CASE ~late
    <3>1. pending' = <<processing>> \o pending
      BY <1>9, <2>2, Zenon DEF NackNext, Nack
    <3>2. Backlog' = Backlog
      BY <2>1, <3>1 DEF Backlog
    <3>3. Log' = Log
      BY <1>9, <2>2, NackEffect
    <3> QED BY <2>1, <3>2, <3>3 DEF OrderInv
  <2>3. CASE late
    <3>1. pending' = pending
      BY <1>9, <2>3, Zenon DEF NackNext, Nack
    <3>2. Schedule(Entry("nack", processing))
      BY <1>9, <2>3, Zenon DEF NackNext
    <3>3. /\ Entry("nack", processing) \in Entries /\ Entry("nack", processing).op # "enqueue"
          /\ Entry("nack", processing).id = processing
      BY <2>1, EntryType
    <3>4. Log' = Append(Log, Entry("nack", processing))
      BY <2>1, <3>2, <3>3, LogGrows DEF Schedule
    <3>5. /\ Backlog' = pending
          /\ \A x, y : Before(Backlog', x, y) => Before(Backlog, x, y)
      <4>1. Backlog = <<processing>> \o pending /\ Backlog' = pending
        BY <2>1, <3>1 DEF Backlog
      <4> QED BY <1>2, <2>1, <4>1, BeforeFacts
    <3>6. /\ OnlyFirst(Log')
          /\ \A x : Mentions(Log', x) => Mentions(Log, x) \/ x = processing
          /\ InOrder(Backlog, Log')
      BY <2>1, <3>3, <3>4, SettleKeeps DEF OrderInv
    <3>7. InOrder(Backlog', Log')
      BY <3>5, <3>6 DEF InOrder
    <3>8. ToSet(Backlog') \subseteq seen' /\ processing \in seen
      BY <1>2, <2>1, <3>1 DEF OrderInv
    <3> QED BY <2>1, <3>6, <3>7, <3>8 DEF OrderInv
  <2> QED BY <2>2, <2>3
<1>10. ASSUME NEW large \in BOOLEAN, RunWriteTask(large) PROVE OrderInv'
  <2>1. UNCHANGED <<memory, seen>> /\ phase' = phase
    BY <1>10 DEF RunWriteTask
  <2>2. OnlyFirst(file)
    <3> DEFINE z == <<>>
    <3>1. z \in Seq(Lines) /\ writeQ \o tasks \in Seq(Lines) /\ file \o z = file
          /\ Log = file \o (writeQ \o tasks)
      BY <1>1, LogType, EmptySeq, ConcatEmptySeq
    <3>2. Thinner(z, writeQ \o tasks) /\ Thinner(file, file)
      BY <1>1, <3>1, ThinnerBasics
    <3> HIDE DEF z
    <3>3. Thinner(file, Log)
      BY <1>1, <3>1, <3>2, ThinnerConcat
    <3> QED BY <1>1, <3>3, ThinnerKeeps DEF OrderInv
  <2>3. Thinner(Log', Log)
    BY <1>10, <2>2, RunThinner
  <2> QED BY <2>1, <2>3, ThinnerStep
<1>11. CASE WriteLine
  <2>1. /\ writeQ # <<>> /\ writeQ' = Tail(writeQ) /\ tasks' = tasks
        /\ UNCHANGED <<memory, seen>> /\ phase' = phase
        /\ file' \in {file, Append(file, Garbage), Append(file, Head(writeQ))}
    BY <1>11 DEF WriteLine
  <2> QED BY <2>1, WriteThinner, ThinnerStep
<1>12. ASSUME NEW partial \in BOOLEAN, WriteLineFails(partial) PROVE OrderInv'
  <2>1. /\ writeQ # <<>> /\ writeQ' = Tail(writeQ) /\ tasks' = tasks
        /\ UNCHANGED <<memory, seen>> /\ phase' = phase
        /\ file' \in {file, Append(file, Garbage), Append(file, Head(writeQ))}
    BY <1>12 DEF WriteLineFails
  <2> QED BY <2>1, WriteThinner, ThinnerStep
<1>13. CASE Close
  <2>1. /\ file' = file /\ tasks' = <<>> /\ writeQ' \in {writeQ, <<>>}
        /\ UNCHANGED <<memory, seen>> /\ phase' = "closing"
    BY <1>13 DEF Close
  <2> QED BY <2>1, StopThinner, ThinnerStep
<1>14. CASE Crash
  <2>1. /\ file' = file /\ tasks' = <<>> /\ writeQ' \in {writeQ, <<>>}
        /\ UNCHANGED <<memory, seen>> /\ phase' = "down"
    BY <1>14 DEF Crash
  <2> QED BY <2>1, StopThinner, ThinnerStep
<1>15. CASE Closed \/ UNCHANGED vars
  <2>1. /\ UNCHANGED <<memory, seen>> /\ phase' \in {phase, "closing", "down"}
        /\ UNCHANGED <<file, writeQ, tasks>>
    BY <1>15 DEF Closed, vars
  <2>2. Thinner(Log', Log)
    BY <1>1, <2>1, ThinnerBasics DEF Log
  <2> QED BY <2>1, <2>2, ThinnerStep
<1> QED BY <1>4, <1>5, <1>6, <1>7, <1>8, <1>9, <1>10, <1>11, <1>12, <1>13, <1>14, <1>15
        DEF Next

(* A restart brings the messages back in the order of the queue, through   *)
(* retries, compaction, failed writes and crashes, when an id arrives once *)
(* (OrderSurvives; queue_persist.py:140-189).                              *)
THEOREM OrderIsKept == ASSUME Redelivery = FALSE PROVE Spec => []OrderSurvives
<1>1. TypeOK /\ OrderInv => OrderSurvives
  <2> SUFFICES ASSUME TypeOK, OrderInv, phase = "up",
                      NEW m \in ToSet(Restore(Log)), NEW n \in ToSet(Restore(Log)),
                      Before(Backlog, m, n)
               PROVE  Before(Restore(Log), m, n) /\ ~Before(Restore(Log), n, m)
    BY DEF OrderSurvives
  <2>1. Log \in Seq(Lines) /\ OnlyFirst(Log) /\ InOrder(Backlog, Log)
    BY LogType DEF OrderInv
  <2>2. m \in Messages /\ n \in Messages
    BY <2>1, RestoreOrder
  <2>3. \A i, j \in 1 .. Len(Log) :
           Log[i] = Entry("enqueue", m) /\ Log[j] = Entry("enqueue", n) => i < j
    BY <2>1, <2>2 DEF InOrder
  <2> QED BY <2>1, <2>3, RestoreOrder
<1>2. Init => OrderInv
  BY OrderInit
<1>3. PersistInv => TypeOK /\ NothingPending
  BY DEF PersistInv
<1>4. TypeOK /\ TypeOK' /\ NothingPending /\ OrderInv /\ [Next]_vars => OrderInv'
  BY OrderStep
<1> QED BY <1>1, <1>2, <1>3, <1>4, PersistInvariant, PTL DEF Spec

=============================================================================
