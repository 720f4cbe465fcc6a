----------------------------- MODULE SdkProofs ------------------------------
(***************************************************************************)
(* What the SDK promises, for any messages and events, any sizes of its    *)
(* tables, and any number of crashes, failures and redeliveries: the       *)
(* receiving side (Receiving), the status events on their way to AIM Watch *)
(* (Observing) and the calls that send (Sending).  The three share no      *)
(* state.                                                                  *)
(*                                                                         *)
(* Handled relates every mark and every task of Receiving to what the      *)
(* handler was given; Marked says where the mark of a message is to be     *)
(* found for as long as the message must not be handled again.             *)
(* PrintedIsKnown relates what the watcher has printed to what it          *)
(* remembers.  InTime keeps the account of the time that a call and its    *)
(* copies have taken against the time for which the receiving end knows an *)
(* id.                                                                     *)
(***************************************************************************)
EXTENDS Receiving, Sending, Observing, FiniteSetTheorems, TLAPS

(* Messages of no group of copies are not copies. *)
LEMMA CopiesTyped ==
    /\ \A c \in Copies : c[1] \in Messages
    /\ None \notin Copies /\ None \notin Age
BY PinAssumption, ReceivingAssumption DEF Copies, Age

-----------------------------------------------------------------------------
(* The pin. *)

(* What a mark leaves in memory: m's new mark, and every other but one at  *)
(* most; the memory stays within its capacity.                             *)
LEMMA EvictEffect ==
    ASSUME NEW marks \in [Messages -> Mark], NEW m \in Messages,
           Cardinality(Held(marks)) <= MaxMemory,
           NEW after \in Evict([marks EXCEPT ![m] = 0], m)
    PROVE  /\ after \in [Messages -> Mark] /\ after[m] = 0
           /\ \A n \in Messages \ {m} : after[n] \in {marks[n], None}
           /\ Cardinality(Held(after)) <= MaxMemory
<1> USE PinAssumption
<1> DEFINE marked == [marks EXCEPT ![m] = 0]
<1>1. /\ marked \in [Messages -> Mark] /\ marked[m] = 0
      /\ \A n \in Messages \ {m} : marked[n] = marks[n]
  BY DEF Mark, Age
<1>2. 0 # None
  OBVIOUS
<1>3. Held(marked) = Held(marks) \union {m}
  BY <1>1, <1>2 DEF Held
<1>4. IsFiniteSet(Held(marks)) /\ IsFiniteSet(Held(marked))
  <2>1. Held(marks) \subseteq Messages /\ Held(marked) \subseteq Messages
    BY DEF Held
  <2> QED BY <2>1, FS_Subset
<1>5. /\ Cardinality(Held(marks)) \in Nat /\ Cardinality(Held(marked)) \in Nat
      /\ Cardinality(Held(marked)) <= Cardinality(Held(marks)) + 1
  <2>1. Cardinality(Held(marks)) \in Nat /\ Cardinality(Held(marked)) \in Nat
    BY <1>4, FS_CardinalityType
  <2>2. Cardinality(Held(marked)) = IF m \in Held(marks) THEN Cardinality(Held(marks))
                                    ELSE Cardinality(Held(marks)) + 1
    BY <1>3, <1>4, FS_AddElement
  <2> QED BY <2>1, <2>2
<1> HIDE DEF marked
<1>6. CASE Cardinality(Held(marked)) <= MaxMemory
  <2>1. after = marked
    BY <1>6 DEF Evict, marked
  <2> QED BY <1>1, <1>6, <2>1
<1>7. CASE ~ (Cardinality(Held(marked)) <= MaxMemory)
  <2>1. PICK n \in Held(marked) \ {m} : after = [marked EXCEPT ![n] = None]
    BY <1>7 DEF Evict, marked
  <2>2. n \in Messages
    BY <2>1 DEF Held
  <2>3. /\ after \in [Messages -> Mark] /\ after[m] = 0
        /\ \A o \in Messages \ {m} : after[o] \in {marks[o], None}
    BY <1>1, <2>1, <2>2 DEF Mark
  <2>4. Held(after) = Held(marked) \ {n}
    BY <1>1, <2>1, <2>2 DEF Held
  <2>5. Cardinality(Held(after)) = Cardinality(Held(marked)) - 1
    BY <1>4, <2>1, <2>4, FS_RemoveElement
  <2> QED BY <1>5, <2>3, <2>5
<1> QED BY <1>6, <1>7

(* Looking never adds a mark, and takes away an expired one at most. *)
LEMMA LookedEffect ==
    ASSUME PinTypeOK, NEW m \in Messages
    PROVE  /\ Looked(m) \in [Messages -> Mark]
           /\ \A n \in Messages \ {m} : Looked(m)[n] = cache[n]
           /\ Looked(m)[m] = IF InCache(m) THEN cache[m] ELSE None
           /\ Cardinality(Held(Looked(m))) <= MaxMemory
<1> USE PinAssumption DEF PinTypeOK
<1>1. CASE InCache(m)
  BY <1>1 DEF Looked
<1>2. CASE ~ InCache(m)
  <2>1. Looked(m) = [cache EXCEPT ![m] = None]
    BY <1>2 DEF Looked
  <2>2. /\ Looked(m) \in [Messages -> Mark]
        /\ \A n \in Messages \ {m} : Looked(m)[n] = cache[n]
        /\ Looked(m)[m] = None
    BY <2>1 DEF Mark
  <2>3. Held(Looked(m)) = Held(cache) \ {m}
    BY <2>2 DEF Held
  <2>4. Held(Looked(m)) \subseteq Held(cache) /\ IsFiniteSet(Held(cache))
    <3>1. Held(cache) \subseteq Messages
      BY DEF Held
    <3> QED BY <2>3, <3>1, FS_Subset
  <2>5. /\ Cardinality(Held(Looked(m))) <= Cardinality(Held(cache))
        /\ Cardinality(Held(Looked(m))) \in Nat /\ Cardinality(Held(cache)) \in Nat
    BY <2>4, FS_Subset, FS_CardinalityType
  <2> QED BY <1>2, <2>2, <2>5
<1> QED BY <1>1, <1>2

(* Time makes every mark older and takes none away. *)
LEMMA AgedMark ==
    ASSUME NEW mark \in Mark
    PROVE  /\ Older(mark) \in Mark
           /\ Older(mark) = None <=> mark = None
BY PinAssumption DEF Mark, Age, Older

(* What a message that is new does to the pin. *)
LEMMA BeginPin ==
    ASSUME PinTypeOK, NEW m \in Messages, NEW readable \in BOOLEAN,
           IF markFirst THEN CheckAndMark(m, readable) ELSE IsNew(m, readable)
    PROVE  /\ ~Duplicate(m, readable) /\ UNCHANGED <<persisted, db>>
           /\ cache' \in [Messages -> Mark] /\ Cardinality(Held(cache')) <= MaxMemory
           /\ markFirst => cache'[m] = 0
           /\ ~markFirst => cache'[m] = None
           /\ \A n \in Messages \ {m} : cache'[n] \in {cache[n], None}
<1>1. /\ Looked(m) \in [Messages -> Mark] /\ Cardinality(Held(Looked(m))) <= MaxMemory
      /\ Looked(m)[m] = IF InCache(m) THEN cache[m] ELSE None
      /\ \A n \in Messages \ {m} : Looked(m)[n] = cache[n]
  BY LookedEffect
<1>2. CASE markFirst
  <2>1. cache' \in Evict([Looked(m) EXCEPT ![m] = 0], m)
    BY <1>2 DEF CheckAndMark, MarkIn
  <2>2. ~Duplicate(m, readable) /\ UNCHANGED <<persisted, db>>
    BY <1>2 DEF CheckAndMark
  <2>3. /\ cache' \in [Messages -> Mark] /\ cache'[m] = 0
        /\ \A n \in Messages \ {m} : cache'[n] \in {Looked(m)[n], None}
        /\ Cardinality(Held(cache')) <= MaxMemory
    BY <1>1, <2>1, EvictEffect
  <2> QED BY <1>1, <1>2, <2>2, <2>3
<1>3. CASE ~markFirst
  BY <1>1, <1>3 DEF IsNew, Duplicate
<1> QED BY <1>2, <1>3

-----------------------------------------------------------------------------
(* Types. *)

(* A copy that arrives comes last, and the one that is taken was first. *)
LEMMA ArrivedType ==
    ASSUME TypeOK, NEW p \in Paths
    PROVE  /\ arrived[p] # <<>> => Head(arrived[p]) \in Copies
           /\ arrived[p] # <<>> /\ Take(p) => arrived' \in [Paths -> Seq(Copies)]
           /\ \A c \in Copies : Arrive(p, c) => arrived' \in [Paths -> Seq(Copies)]
<1>1. arrived \in [Paths -> Seq(Copies)] /\ arrived[p] \in Seq(Copies)
  BY DEF TypeOK
<1>2. arrived[p] # <<>> => Head(arrived[p]) \in Copies /\ Tail(arrived[p]) \in Seq(Copies)
  BY <1>1
<1>3. \A c \in Copies : Append(arrived[p], c) \in Seq(Copies)
  BY <1>1
<1> QED BY <1>1, <1>2, <1>3 DEF Take, Arrive

(* An acknowledgement concerns a stored copy. *)
LEMMA AcknowledgeType ==
    ASSUME TypeOK, NEW p \in Paths, NEW c, Acknowledge(p, c), p = "js" => c \in stored
    PROVE  /\ acked' \subseteq stored /\ faults' \in 0 .. MaxFaults
           /\ acked' = acked \/ (p = "js" /\ acked' = acked \union {c})
BY ReceivingAssumption DEF TypeOK, Acknowledge, Fault

(* What is on its way by the consumer, or worked on, is stored. *)
FromStream ==
    /\ \A i \in DOMAIN arrived["js"] : arrived["js"][i] \in stored
    /\ task["js"] # None => task["js"] \in stored

LEMMA InitTypeOK == Init => TypeOK /\ FromStream
<1> SUFFICES ASSUME Init PROVE TypeOK /\ FromStream
  OBVIOUS
<1> USE PinAssumption, ReceivingAssumption
<1>1. PinTypeOK
  <2>1. Held(cache) = {}
    BY DEF Init, PinInit, Held
  <2>2. Cardinality(Held(cache)) = 0
    BY <2>1, FS_EmptySet
  <2> QED BY <2>2 DEF Init, PinInit, PinTypeOK, Mark
<1>2. begun \in [Messages -> Mark]
  BY DEF Init, Mark
<1>3. arrived \in [Paths -> Seq(Copies)] /\ arrived["js"] = <<>>
  BY DEF Init, Paths
<1>4. FromStream
  BY <1>3 DEF Init, FromStream, Paths
<1>5. /\ deliveries \in [Copies -> 0 .. MaxDeliver]
      /\ task \in [Paths -> Copies \union {None}]
  BY DEF Init
<1>6. /\ markFirst \in BOOLEAN /\ crashed \in BOOLEAN
      /\ stored \subseteq Copies /\ acked \subseteq stored
      /\ finished \subseteq Messages /\ again \subseteq Messages
      /\ excused \subseteq Messages
  BY ZenonT(30) DEF Init
<1>7. faults \in 0 .. MaxFaults
  BY DEF Init
<1>8. TypeOK
  BY ONLY <1>1, <1>2, <1>3, <1>5, <1>6, <1>7 DEF TypeOK
<1> QED BY <1>4, <1>8

(* The marks in memory after a mark is made, or none is left. *)
LEMMA MarkedType ==
    ASSUME TypeOK, NEW m \in Messages, MarkIn(cache, m)
    PROVE  /\ cache' \in [Messages -> Mark] /\ Cardinality(Held(cache')) <= MaxMemory
           /\ cache'[m] = 0 /\ \A n \in Messages \ {m} : cache'[n] \in {cache[n], None}
BY EvictEffect DEF TypeOK, PinTypeOK, MarkIn

LEMMA EmptyType ==
    /\ [m \in Messages |-> None] \in [Messages -> Mark]
    /\ Cardinality(Held([m \in Messages |-> None])) <= MaxMemory
<1>1. Held([m \in Messages |-> None]) = {}
  BY DEF Held
<1> QED BY <1>1, FS_EmptySet, PinAssumption DEF Mark

LEMMA NextTypeOK == TypeOK /\ FromStream /\ [Next]_vars => TypeOK' /\ FromStream'
<1> SUFFICES ASSUME TypeOK, FromStream, [Next]_vars PROVE TypeOK' /\ FromStream'
  OBVIOUS
<1> USE PinAssumption, ReceivingAssumption
<1>1. CASE UNCHANGED vars
  BY <1>1 DEF TypeOK, PinTypeOK, FromStream, vars, pin, stream, client, history
<1>2. ASSUME NEW m \in Messages, Publish(m) PROVE TypeOK' /\ FromStream'
  <2>1. PICK i \in 1 .. MaxCopies :
          /\ stored' = stored \union {<<m, i>>}
          /\ Arrive(IF m \in Direct THEN "dm" ELSE "grp", <<m, i>>) \/ UNCHANGED arrived
          /\ UNCHANGED <<pin, markFirst, deliveries, acked, task, faults, history>>
    BY <1>2 DEF Publish
  <2>2. <<m, i>> \in Copies
    BY DEF Copies
  <2>3. arrived' \in [Paths -> Seq(Copies)] /\ arrived'["js"] = arrived["js"]
    <3>1. CASE UNCHANGED arrived
      BY <3>1 DEF TypeOK
    <3>2. CASE Arrive(IF m \in Direct THEN "dm" ELSE "grp", <<m, i>>)
      <4> DEFINE p == IF m \in Direct THEN "dm" ELSE "grp"
      <4>1. p \in Paths /\ p # "js"
        BY DEF Paths
      <4>2. arrived' \in [Paths -> Seq(Copies)]
        BY <2>2, <3>2, <4>1, ArrivedType
      <4> QED BY <3>2, <4>1, <4>2 DEF Arrive, TypeOK, Paths
    <3> QED BY <2>1, <3>1, <3>2
  <2>4. FromStream'
    BY <2>1, <2>3 DEF FromStream
  <2> QED BY <2>1, <2>2, <2>3, <2>4 DEF TypeOK, PinTypeOK, pin, history
<1>3. ASSUME NEW c \in Copies, Deliver(c) PROVE TypeOK' /\ FromStream'
  <2>1. "js" \in Paths
    BY DEF Paths
  <2>2. arrived' \in [Paths -> Seq(Copies)] /\ arrived'["js"] = Append(arrived["js"], c)
    <3>1. Arrive("js", c)
      BY <1>3 DEF Deliver
    <3>2. arrived' \in [Paths -> Seq(Copies)]
      BY <2>1, <3>1, ArrivedType
    <3> QED BY <2>1, <3>1, <3>2 DEF Arrive, TypeOK
  <2>3. FromStream'
    <3>1. arrived["js"] \in Seq(Copies) /\ c \in stored /\ UNCHANGED <<stored, task>>
      BY <1>3, <2>1 DEF Deliver, TypeOK
    <3>2. \A i \in DOMAIN arrived'["js"] : arrived'["js"][i] \in stored
      BY <2>2, <3>1 DEF FromStream
    <3> QED BY <3>1, <3>2 DEF FromStream
  <2>4. deliveries' \in [Copies -> 0 .. MaxDeliver]
    BY <1>3 DEF Deliver, TypeOK
  <2> QED BY <1>3, <2>2, <2>3, <2>4 DEF Deliver, TypeOK, PinTypeOK, pin, history
<1>4. ASSUME NEW p \in Paths, NEW readable \in BOOLEAN, Begin(p, readable)
      PROVE  TypeOK' /\ FromStream'
  <2> DEFINE m == Head(arrived[p])[1]
  <2>1. /\ Head(arrived[p]) \in Copies /\ m \in Messages
        /\ arrived' \in [Paths -> Seq(Copies)] /\ arrived' = [arrived EXCEPT ![p] = Tail(@)]
    <3>1. arrived[p] # <<>> /\ Take(p)
      BY <1>4 DEF Begin, Waits
    <3> QED BY <3>1, ArrivedType, CopiesTyped DEF Take
  <2>2. /\ cache' \in [Messages -> Mark] /\ Cardinality(Held(cache')) <= MaxMemory
        /\ UNCHANGED <<persisted, db>>
    BY <1>4, <2>1, BeginPin DEF Begin, TypeOK
  <2>3. faults' \in 0 .. MaxFaults
    BY <1>4 DEF Begin, Reading, Fault, TypeOK
  <2>4. /\ begun' \in [Messages -> Mark] /\ again' \subseteq Messages
        /\ excused' \subseteq Messages
    <3>1. Forgotten(m) \subseteq Messages
      BY DEF Forgotten, Held
    <3> QED BY <1>4, <2>1, <3>1 DEF Begin, TypeOK, Mark, Age
  <2>5. task' \in [Paths -> Copies \union {None}]
    BY <1>4, <2>1 DEF Begin, TypeOK
  <2>6. FromStream'
    <3>1. CASE p = "js"
      <4>1. arrived["js"] \in Seq(Copies) /\ arrived["js"] # <<>>
        BY <1>4, <3>1 DEF Begin, Waits, TypeOK
      <4>2. \A i \in DOMAIN Tail(arrived["js"]) : Tail(arrived["js"])[i] \in stored
        BY <4>1 DEF FromStream
      <4>3. Head(arrived["js"]) \in stored
        BY <4>1 DEF FromStream
      <4> QED BY <1>4, <2>1, <3>1, <4>2, <4>3 DEF Begin, FromStream, TypeOK, stream
    <3>2. CASE p # "js"
      BY <1>4, <2>1, <3>2 DEF Begin, FromStream, TypeOK, Paths, stream
    <3> QED BY <3>1, <3>2
  <2> QED BY <1>4, <2>1, <2>2, <2>3, <2>4, <2>5, <2>6 DEF Begin, TypeOK, PinTypeOK, stream
<1>5. ASSUME NEW p \in Paths, Drop(p) PROVE TypeOK' /\ FromStream'
  <2> DEFINE c == Head(arrived[p])
  <2>1. /\ c \in Copies /\ c[1] \in Messages
        /\ arrived' \in [Paths -> Seq(Copies)] /\ arrived' = [arrived EXCEPT ![p] = Tail(@)]
    <3>1. arrived[p] # <<>> /\ Take(p)
      BY <1>5 DEF Drop, Waits
    <3> QED BY <3>1, ArrivedType, CopiesTyped DEF Take
  <2>2. PinTypeOK'
    <3>1. /\ cache' = Looked(c[1]) /\ persisted' = Found(c[1], TRUE) /\ UNCHANGED db
      BY <1>5 DEF Drop, IsDuplicate
    <3>2. cache' \in [Messages -> Mark] /\ Cardinality(Held(cache')) <= MaxMemory
      BY <2>1, <3>1, LookedEffect DEF TypeOK
    <3> QED BY <2>1, <3>1, <3>2 DEF TypeOK, PinTypeOK, Found
  <2>3. p = "js" => c \in stored
    <3>1. arrived[p] \in Seq(Copies) /\ arrived[p] # <<>>
      BY <1>5 DEF Drop, Waits, TypeOK
    <3> QED BY <3>1 DEF FromStream
  <2>4. acked' \subseteq stored /\ faults' \in 0 .. MaxFaults
    BY <1>5, <2>3, AcknowledgeType DEF Drop
  <2>5. FromStream'
    <3>1. CASE p = "js"
      <4>1. arrived["js"] \in Seq(Copies) /\ arrived["js"] # <<>>
        BY <1>5, <3>1 DEF Drop, Waits, TypeOK
      <4>2. \A i \in DOMAIN Tail(arrived["js"]) : Tail(arrived["js"])[i] \in stored
        BY <4>1 DEF FromStream
      <4> QED BY <1>5, <2>1, <3>1, <4>2 DEF Drop, FromStream, TypeOK
    <3>2. CASE p # "js"
      BY <1>5, <2>1, <3>2 DEF Drop, FromStream, TypeOK, Paths
    <3> QED BY <3>1, <3>2
  <2> QED BY <1>5, <2>1, <2>2, <2>4, <2>5 DEF Drop, TypeOK, history
<1>6. ASSUME NEW p \in Paths, HandlerReturns(p) PROVE TypeOK' /\ FromStream'
  <2>1. task[p] \in Copies /\ task[p][1] \in Messages
    BY <1>6, CopiesTyped DEF HandlerReturns, TypeOK
  <2>2. PinTypeOK'
    <3>1. CASE markFirst
      BY <1>6, <3>1 DEF HandlerReturns, TypeOK, PinTypeOK, pin
    <3>2. CASE ~markFirst
      BY <1>6, <2>1, <3>2, MarkedType DEF HandlerReturns, TypeOK, PinTypeOK
    <3> QED BY <3>1, <3>2
  <2>3. acked' \subseteq stored /\ faults' \in 0 .. MaxFaults
    <3>1. p = "js" => task[p] \in stored
      BY <1>6 DEF HandlerReturns, FromStream
    <3> QED BY <1>6, <3>1, AcknowledgeType DEF HandlerReturns
  <2>4. task' \in [Paths -> Copies \union {None}] /\ FromStream'
    BY <1>6 DEF HandlerReturns, Ends, FromStream, TypeOK
  <2> QED BY <1>6, <2>1, <2>2, <2>3, <2>4 DEF HandlerReturns, TypeOK
<1>7. ASSUME NEW p \in Paths, HandlerRaises(p) PROVE TypeOK' /\ FromStream'
  <2>1. task' \in [Paths -> Copies \union {None}] /\ FromStream' /\ faults' \in 0 .. MaxFaults
    BY <1>7 DEF HandlerRaises, Ends, Fault, FromStream, TypeOK, stream
  <2> QED BY <1>7, <2>1 DEF HandlerRaises, TypeOK, PinTypeOK, pin, stream, history
<1>8. CASE Flush
  <2>1. db' \in [Messages -> Mark]
    BY <1>8 DEF Flush, PersistBatch, Written, TypeOK, PinTypeOK
  <2>2. persisted' \subseteq Messages /\ UNCHANGED cache
    BY <1>8 DEF Flush, PersistBatch, TypeOK, PinTypeOK, Held
  <2> QED BY <1>8, <2>1, <2>2
          DEF Flush, FromStream, TypeOK, PinTypeOK, stream, client, history
<1>9. CASE Clear
  <2>1. PinTypeOK'
    BY <1>9, EmptyType DEF Clear, ClearPin, TypeOK, PinTypeOK
  <2> QED BY <1>9, <2>1 DEF Clear, Fault, FromStream, TypeOK, stream, client
<1>10. CASE Restart
  <2>1. db' \in [Messages -> Mark]
    BY <1>10 DEF Restart, ReopenPin, TypeOK, PinTypeOK, Mark
  <2>2. PinTypeOK'
    BY <1>10, <2>1, EmptyType DEF Restart, ReopenPin, PinTypeOK
  <2>3. arrived' \in [Paths -> Seq(Copies)] /\ arrived'["js"] = <<>>
    BY <1>10 DEF Restart, Paths
  <2>4. task' \in [Paths -> Copies \union {None}] /\ task'["js"] = None
    BY <1>10 DEF Restart, Paths
  <2>5. FromStream'
    BY <2>3, <2>4 DEF FromStream
  <2> QED BY <1>10, <2>2, <2>3, <2>4, <2>5 DEF Restart, Fault, TypeOK, stream
<1>11. CASE Tick
  <2>1. /\ cache' \in [Messages -> Mark] /\ db' \in [Messages -> Mark]
        /\ begun' \in [Messages -> Mark]
    BY <1>11, AgedMark DEF Tick, AgePin, TypeOK, PinTypeOK
  <2>2. Held(cache') = Held(cache)
    BY <1>11, AgedMark DEF Tick, AgePin, TypeOK, PinTypeOK, Held
  <2> QED BY <1>11, <2>1, <2>2
          DEF Tick, AgePin, FromStream, TypeOK, PinTypeOK, stream, client
<1> QED BY <1>1, <1>2, <1>3, <1>4, <1>5, <1>6, <1>7, <1>8, <1>9, <1>10, <1>11 DEF Next, Step

(* The pin's marks stay within its capacity, what is acknowledged is in    *)
(* the stream, and no copy is delivered more often than max_deliver        *)
(* (aim_nats_sdk.py, AIMPin and setup_consumer).                           *)
THEOREM TypeCorrect == Spec => []TypeOK
<1>1. Init => TypeOK /\ FromStream
  BY InitTypeOK
<1>2. TypeOK /\ FromStream /\ [Next]_vars => (TypeOK /\ FromStream)'
  BY NextTypeOK
<1> QED BY <1>1, <1>2, PTL DEF Spec
-----------------------------------------------------------------------------
(* What was handled. *)

(* A message is worked on or marked only when the handler was given it;    *)
(* where marks come last, only when the handler was done.                  *)
Handled ==
    /\ \A p \in Paths : task[p] # None => begun[task[p][1]] # None
    /\ \A m \in Messages :
          cache[m] # None \/ m \in persisted \/ db[m] # None
            => IF markFirst THEN begun[m] # None ELSE m \in finished
    /\ AckedIsHandled

(* What an acknowledgement adds has been handled. *)
LEMMA AcknowledgeHandled ==
    ASSUME Handled, NEW p, NEW c, Acknowledge(p, c),
           IF markFirst THEN begun[c[1]] # None ELSE c[1] \in finished
    PROVE  \A d \in acked' : IF markFirst THEN begun[d[1]] # None ELSE d[1] \in finished
BY DEF Handled, AckedIsHandled, Acknowledge

LEMMA NextHandled == TypeOK /\ Handled /\ [Next]_vars => Handled'
<1> SUFFICES ASSUME TypeOK, Handled, [Next]_vars PROVE Handled'
  OBVIOUS
<1> USE PinAssumption DEF TypeOK, PinTypeOK
<1>1. CASE UNCHANGED vars
  BY <1>1 DEF Handled, AckedIsHandled, vars, pin, stream, client, history
<1>2. ASSUME NEW m \in Messages, Publish(m) PROVE Handled'
  BY <1>2 DEF Publish, Handled, AckedIsHandled, pin, history
<1>3. ASSUME NEW c \in Copies, Deliver(c) PROVE Handled'
  BY <1>3 DEF Deliver, Handled, AckedIsHandled, pin, history
<1>4. ASSUME NEW p \in Paths, NEW readable \in BOOLEAN, Begin(p, readable) PROVE Handled'
  <2> DEFINE m == Head(arrived[p])[1]
  <2>1. Head(arrived[p]) \in Copies /\ m \in Messages
    BY <1>4, ArrivedType, CopiesTyped DEF Begin, Waits
  <2>2. /\ UNCHANGED <<persisted, db, markFirst, acked, finished>>
        /\ ~markFirst => cache'[m] = None
        /\ \A n \in Messages \ {m} : cache'[n] \in {cache[n], None}
    BY <1>4, <2>1, BeginPin DEF Begin, stream
  <2>3. /\ begun'[m] # None
        /\ \A n \in Messages : begun[n] # None => begun'[n] # None
    BY <1>4, <2>1 DEF Begin
  <2>4. task' = [task EXCEPT ![p] = Head(arrived[p])]
    BY <1>4 DEF Begin
  <2>5. \A q \in Paths : task'[q] # None => begun'[task'[q][1]] # None
    BY <2>1, <2>3, <2>4, CopiesTyped DEF Handled
  <2>6. \A n \in Messages :
          cache'[n] # None \/ n \in persisted' \/ db'[n] # None
            => IF markFirst' THEN begun'[n] # None ELSE n \in finished'
    BY <2>2, <2>3 DEF Handled
  <2>7. AckedIsHandled'
    BY <2>2, <2>3, CopiesTyped DEF Handled, AckedIsHandled
  <2> QED BY <2>5, <2>6, <2>7 DEF Handled
<1>5. ASSUME NEW p \in Paths, Drop(p) PROVE Handled'
  <2> DEFINE c == Head(arrived[p])
             m == c[1]
  <2>1. c \in Copies /\ m \in Messages
    BY <1>5, ArrivedType, CopiesTyped DEF Drop, Waits
  <2>2. /\ cache' = Looked(m) /\ persisted' = Found(m, TRUE) /\ UNCHANGED db
        /\ Duplicate(m, TRUE) /\ UNCHANGED <<markFirst, begun, finished, task>>
    BY <1>5 DEF Drop, IsDuplicate, history
  <2>3. /\ \A n \in Messages : cache'[n] \in {cache[n], None}
        /\ \A n \in persisted' : n \in persisted \/ db[n] # None
    BY <2>1, <2>2, LookedEffect DEF Found, InFile
  <2>4. IF markFirst THEN begun[m] # None ELSE m \in finished
    <3> HIDE DEF c, m
    <3>1. cache[m] # None \/ m \in persisted \/ db[m] # None
      BY <2>2 DEF Duplicate, InCache, InFile
    <3> QED BY <2>1, <3>1 DEF Handled
  <2>5. AckedIsHandled'
    BY <1>5, <2>2, <2>4, AcknowledgeHandled DEF Drop, AckedIsHandled
  <2> QED BY <2>2, <2>3, <2>5 DEF Handled
<1>6. ASSUME NEW p \in Paths, HandlerReturns(p) PROVE Handled'
  <2> DEFINE c == task[p]
             m == c[1]
  <2>1. c \in Copies /\ m \in Messages /\ begun[m] # None
    BY <1>6, CopiesTyped DEF HandlerReturns, Handled
  <2>2. /\ UNCHANGED <<persisted, db, markFirst, begun>> /\ finished' = finished \union {m}
        /\ task' = [task EXCEPT ![p] = None]
    BY <1>6 DEF HandlerReturns, pin, Ends
  <2>3. /\ markFirst => cache' = cache
        /\ ~markFirst => \A n \in Messages \ {m} : cache'[n] \in {cache[n], None}
    BY <1>6, <2>1, MarkedType DEF HandlerReturns, pin
  <2>4. AckedIsHandled'
    <3>1. \A d \in acked' : d \in acked \/ d = c
      BY <1>6 DEF HandlerReturns, Acknowledge
    <3> QED BY <2>1, <2>2, <3>1 DEF Handled, AckedIsHandled
  <2>5. \A n \in Messages :
          cache'[n] # None \/ n \in persisted' \/ db'[n] # None
            => IF markFirst' THEN begun'[n] # None ELSE n \in finished'
    BY <2>2, <2>3 DEF Handled
  <2>6. \A q \in Paths : task'[q] # None => begun'[task'[q][1]] # None
    BY <2>2 DEF Handled
  <2> QED BY <2>4, <2>5, <2>6 DEF Handled
<1>7. ASSUME NEW p \in Paths, HandlerRaises(p) PROVE Handled'
  BY <1>7 DEF HandlerRaises, Ends, Handled, AckedIsHandled, pin, stream, history
<1>8. CASE Flush
  BY <1>8 DEF Flush, PersistBatch, Written, Held, Handled, AckedIsHandled,
              stream, client, history
<1>9. CASE Clear
  BY <1>9 DEF Clear, ClearPin, Handled, AckedIsHandled, stream, client
<1>10. CASE Restart
  BY <1>10 DEF Restart, ReopenPin, Handled, AckedIsHandled, stream
<1>11. CASE Tick
  <2>1. /\ \A n \in Messages : cache'[n] = None <=> cache[n] = None
        /\ \A n \in Messages : db'[n] = None <=> db[n] = None
        /\ \A n \in Messages : begun'[n] = None <=> begun[n] = None
    BY <1>11, AgedMark DEF Tick, AgePin
  <2>2. UNCHANGED <<persisted, markFirst, acked, task, finished>>
    BY <1>11 DEF Tick, AgePin, stream, client
  <2>3. AckedIsHandled'
    BY <2>1, <2>2, CopiesTyped DEF Handled, AckedIsHandled
  <2>4. \A q \in Paths : task'[q] # None => begun'[task'[q][1]] # None
    BY <2>1, <2>2, CopiesTyped DEF Handled
  <2> QED BY <2>1, <2>2, <2>3, <2>4 DEF Handled
<1> QED BY <1>1, <1>2, <1>3, <1>4, <1>5, <1>6, <1>7, <1>8, <1>9, <1>10, <1>11 DEF Next, Step

(* Nothing is acknowledged to the consumer that its handler was not given, *)
(* and, where marks come last, that it did not finish (the js callbacks of *)
(* aim_nats_sdk.py and src/aim_nats_sdk.py).                               *)
THEOREM NothingAckedUnseen == Spec => []AckedIsHandled
<1> DEFINE IInv == TypeOK /\ FromStream /\ Handled
<1>1. Init => IInv
  <2> SUFFICES ASSUME Init PROVE Handled
    BY InitTypeOK
  <2> QED BY DEF Init, PinInit, Handled, AckedIsHandled
<1>2. IInv /\ [Next]_vars => IInv'
  BY NextTypeOK, NextHandled
<1>3. IInv => AckedIsHandled
  BY DEF Handled
<1> QED BY <1>1, <1>2, <1>3, PTL DEF Spec

-----------------------------------------------------------------------------
(* Where the mark is. *)

(* A message handled within the time to live is found by the pin, unless   *)
(* its mark is one of those that may be gone.                              *)
Marked ==
    markFirst =>
        /\ again = {}
        /\ \A m \in Messages \ excused :
              begun[m] # None /\ begun[m] <= Ttl
                => m \in persisted \/ cache[m] = begun[m] \/ db[m] = begun[m]

(* Time leaves a mark as old as the handling it stands for. *)
LEMMA AgedTogether ==
    ASSUME NEW mark \in Mark, Older(mark) # None, Older(mark) <= Ttl
    PROVE  mark # None /\ mark <= Ttl
BY PinAssumption DEF Mark, Age, Older

LEMMA NextMarked == TypeOK /\ Marked /\ [Next]_vars => Marked'
<1> SUFFICES ASSUME TypeOK, Marked, [Next]_vars, markFirst' PROVE Marked'
  BY DEF Marked
<1>0. markFirst
  BY DEF Next, Step, Publish, Deliver, Begin, Drop, HandlerReturns, HandlerRaises, Flush,
         Clear, Restart, Tick, vars
<1> USE PinAssumption, <1>0 DEF TypeOK, PinTypeOK
<1>1. CASE UNCHANGED vars
  BY <1>1 DEF Marked, vars, pin, history
<1>2. ASSUME NEW m \in Messages, Publish(m) PROVE Marked'
  BY <1>2 DEF Publish, Marked, pin, history
<1>3. ASSUME NEW c \in Copies, Deliver(c) PROVE Marked'
  BY <1>3 DEF Deliver, Marked, pin, history
<1>4. ASSUME NEW p \in Paths, NEW readable \in BOOLEAN, Begin(p, readable) PROVE Marked'
  <2> DEFINE m == Head(arrived[p])[1]
  <2>1. m \in Messages
    BY <1>4, ArrivedType, CopiesTyped DEF Begin, Waits
  <2>2. /\ ~Duplicate(m, readable) /\ UNCHANGED <<persisted, db>> /\ cache'[m] = 0
        /\ \A n \in Messages \ {m} : cache'[n] \in {cache[n], None}
    BY <1>4, <2>1, BeginPin DEF Begin
  <2>3. /\ begun' = [begun EXCEPT ![m] = 0]
        /\ excused' = (excused \ {m}) \union Forgotten(m)
        /\ again' = IF begun[m] # None /\ begun[m] < Ttl /\ m \notin excused /\ readable
                    THEN again \union {m} ELSE again
    BY <1>4 DEF Begin
  <2>4. again' = {}
    <3>1. ~ (begun[m] # None /\ begun[m] < Ttl /\ m \notin excused /\ readable)
      <4>1. SUFFICES ASSUME begun[m] # None, begun[m] < Ttl, m \notin excused, readable
                     PROVE  FALSE
        OBVIOUS
      <4>2. begun[m] <= Ttl
        BY <2>1, <4>1 DEF Mark, Age
      <4>3. m \in persisted \/ cache[m] = begun[m] \/ db[m] = begun[m]
        BY <2>1, <4>1, <4>2 DEF Marked
      <4> QED BY <2>2, <4>1, <4>2, <4>3 DEF Duplicate, InCache, InFile
    <3> QED BY <2>3, <3>1 DEF Marked
  <2>5. ASSUME NEW n \in Messages \ excused', begun'[n] # None, begun'[n] <= Ttl
        PROVE  n \in persisted' \/ cache'[n] = begun'[n] \/ db'[n] = begun'[n]
    <3>1. CASE n = m
      BY <2>1, <2>2, <2>3, <3>1
    <3>2. CASE n # m
      <4>1. n \notin excused /\ n \notin Forgotten(m) /\ begun'[n] = begun[n]
        BY <2>1, <2>3, <3>2
      <4>2. n \in persisted \/ cache[n] = begun[n] \/ db[n] = begun[n]
        BY <2>5, <4>1 DEF Marked
      <4> QED BY <2>2, <2>5, <3>2, <4>1, <4>2 DEF Forgotten, Held
    <3> QED BY <3>1, <3>2
  <2> QED BY <2>4, <2>5 DEF Marked
<1>5. ASSUME NEW p \in Paths, Drop(p) PROVE Marked'
  <2> DEFINE m == Head(arrived[p])[1]
  <2>1. m \in Messages
    BY <1>5, ArrivedType, CopiesTyped DEF Drop, Waits
  <2>2. /\ cache' = Looked(m) /\ persisted \subseteq persisted' /\ UNCHANGED db
        /\ UNCHANGED <<begun, again, excused>>
    BY <1>5 DEF Drop, IsDuplicate, Found, history
  <2>3. \A n \in Messages :
          begun[n] # None /\ begun[n] <= Ttl /\ cache[n] = begun[n] => cache'[n] = begun[n]
    BY <2>1, <2>2, LookedEffect DEF InCache
  <2> QED BY <2>2, <2>3 DEF Marked
<1>6. ASSUME NEW p \in Paths, HandlerReturns(p) PROVE Marked'
  BY <1>6 DEF HandlerReturns, Marked, pin
<1>7. ASSUME NEW p \in Paths, HandlerRaises(p) PROVE Marked'
  BY <1>7 DEF HandlerRaises, Marked, pin, history
<1>8. CASE Flush
  BY <1>8 DEF Flush, PersistBatch, Written, Held, Marked, history
<1>9. CASE Clear
  BY <1>9 DEF Clear, Marked
<1>10. CASE Restart
  BY <1>10 DEF Restart, Marked
<1>11. CASE Tick
  <2>1. /\ UNCHANGED <<persisted, again, excused>>
        /\ \A n \in Messages : cache'[n] = Older(cache[n])
        /\ \A n \in Messages : db'[n] = Older(db[n])
        /\ \A n \in Messages : begun'[n] = Older(begun[n])
    BY <1>11 DEF Tick, AgePin
  <2>2. \A n \in Messages :
          begun'[n] # None /\ begun'[n] <= Ttl => begun[n] # None /\ begun[n] <= Ttl
    BY <2>1, AgedTogether
  <2> QED BY <2>1, <2>2 DEF Marked
<1> QED BY <1>1, <1>2, <1>3, <1>4, <1>5, <1>6, <1>7, <1>8, <1>9, <1>10, <1>11 DEF Next, Step

(* Where marks come first no message goes to the handler twice within the  *)
(* time to live (check_and_mark of aim_nats_sdk.py), restarts and failing  *)
(* handlers included, as long as the pin keeps its mark.                   *)
THEOREM NothingTwice == Spec => []HandledOnce
<1> DEFINE IInv == TypeOK /\ FromStream /\ Marked
<1>1. Init => IInv
  <2> SUFFICES ASSUME Init PROVE Marked
    BY InitTypeOK
  <2> QED BY DEF Init, Marked
<1>2. IInv /\ [Next]_vars => IInv'
  BY NextTypeOK, NextMarked
<1>3. IInv => HandledOnce
  BY DEF Marked, HandledOnce
<1> QED BY <1>1, <1>2, <1>3, PTL DEF Spec

-----------------------------------------------------------------------------
(* The status events. *)
(* What has been printed is known, until it is forgotten. *)
PrintedIsKnown ==
    /\ printed \in [Events -> Nat]
    /\ \A e \in Events :
          printed[e] = 0 \/ (printed[e] = 1 /\ e \in seen) \/ e \in trimmed

LEMMA DisplayKnown ==
    ASSUME PrintedIsKnown, Display
    PROVE  PrintedIsKnown'
<1> DEFINE e == Head(queue)
<1>1. CASE UNCHANGED display
  BY <1>1 DEF display, PrintedIsKnown, Events
<1>2. CASE e \notin seen /\ Remember(e) /\ Show(e)
  <2>1. trimmed' = trimmed \union ((seen \union {e}) \ seen')
    BY <1>2 DEF Remember, Key
  <2>2. printed' = printed \/ printed' = [printed EXCEPT ![e] = @ + 1]
    BY <1>2 DEF Show, PrintLine, PrintCompact, Output
  <2>3. printed' \in [Events -> Nat]
    BY <2>2 DEF PrintedIsKnown
  <2> SUFFICES ASSUME NEW f \in Events
               PROVE  printed'[f] = 0 \/ (printed'[f] = 1 /\ f \in seen') \/ f \in trimmed'
    BY <2>3 DEF PrintedIsKnown, Events
  <2>4. CASE f = e
    <3>1. printed[f] \in Nat /\ (printed[f] = 0 \/ f \in trimmed)
      BY <1>2, <2>4 DEF PrintedIsKnown
    <3>2. printed'[f] = printed[f] \/ printed'[f] = printed[f] + 1
      BY <2>2, <2>4 DEF PrintedIsKnown
    <3> QED BY <2>1, <2>4, <3>1, <3>2
  <2>5. CASE f # e
    <3>1. printed'[f] = printed[f]
      BY <2>2, <2>5 DEF PrintedIsKnown
    <3> QED BY <2>1, <3>1 DEF PrintedIsKnown
  <2> QED BY <2>4, <2>5
<1> QED BY <1>1, <1>2 DEF Display, Key

(* AIM Watch prints an event once in a run, although the SDK publishes it  *)
(* to the stream and plain, and the replay may have shown it before: what  *)
(* is printed is in _seen_events, and only what was trimmed from there can *)
(* be printed again (aim-watch.py).                                        *)
THEOREM PrintedOnce == ObservingSpec => []ShownOnce
<1>1. ObservingInit => PrintedIsKnown
  BY DEF ObservingInit, PrintedIsKnown
<1>2. PrintedIsKnown /\ [ObservingNext]_observing => PrintedIsKnown'
  <2> SUFFICES ASSUME PrintedIsKnown, [ObservingNext]_observing PROVE PrintedIsKnown'
    OBVIOUS
  <2>1. CASE Replay
    BY <2>1 DEF Replay, PrintedIsKnown, Events
  <2>2. CASE UNCHANGED display
    BY <2>2 DEF display, PrintedIsKnown, Events
  <2>3. CASE \E e \in Events : Emit(e)
    <3>1. UNCHANGED display
      BY <2>3 DEF Emit, Limited, EmitToStream, Published, Unpublished,
                  EmitTransient, EmitPlain
    <3> QED BY <2>2, <3>1
  <2>4. CASE Subscribe \/ Disconnect \/ ObservingTick \/ UNCHANGED observing
    <3>1. UNCHANGED display
      BY <2>4 DEF Subscribe, Disconnect, ObservingTick, observing
    <3> QED BY <2>2, <3>1
  <2> QED BY <2>1, <2>3, <2>4, DisplayKnown DEF ObservingNext
<1>3. PrintedIsKnown => ShownOnce
  BY DEF PrintedIsKnown, ShownOnce, Key
<1> QED BY <1>1, <1>2, <1>3, PTL DEF ObservingSpec

(* The watcher's state; what the display knows is finite and within its    *)
(* capacity.                                                               *)
ObservesTyped == ObservingTypeOK /\ IsFiniteSet(seen)

LEMMA TrimmedBounded ==
    ASSUME NEW keys, IsFiniteSet(keys), NEW S \in Trimmed(keys)
    PROVE  IsFiniteSet(S) /\ S \subseteq keys /\ Cardinality(S) <= MaxSeen
<1>1. CASE Cardinality(keys) <= MaxSeen
  BY <1>1 DEF Trimmed
<1>2. CASE ~(Cardinality(keys) <= MaxSeen)
  <2>1. S \in SUBSET keys /\ Cardinality(S) = Kept
    BY <1>2 DEF Trimmed, kSubset
  <2>2. Kept <= MaxSeen
    BY ObservingAssumption
  <2> QED BY <2>1, <2>2, FS_Subset
<1> QED BY <1>1, <1>2

LEMMA DisplayTyped ==
    ASSUME ObservesTyped, Display
    PROVE  ObservesTyped'
<1> DEFINE e == Head(queue)
<1>1. /\ queue \in Seq(Events) /\ queue # <<>> /\ queue' = Tail(queue)
      /\ UNCHANGED <<emission, passed, observations, phase, mode, losses>>
  BY DEF Display, ObservesTyped, ObservingTypeOK, emitter
<1>2. e \in Events /\ e[1] \in Topics /\ queue' \in Seq(Events)
  BY <1>1 DEF Events
<1> HIDE DEF e
<1>3. /\ emission' \in [Events -> {"new", "dropped", "tried", "done"}]
      /\ passed' \in [Events -> (0 .. Period) \union {Never}]
      /\ observations' \in Seq(Events) /\ phase' \in {"off", "replaying", "live"}
      /\ mode' \in Modes /\ losses' \in 0 .. MaxLosses
  BY <1>1 DEF ObservesTyped, ObservingTypeOK
<1>4. CASE UNCHANGED display
  <2>1. UNCHANGED <<seen, named, chains, printed>>
    BY <1>4 DEF display
  <2> QED BY <1>2, <1>3, <2>1 DEF ObservesTyped, ObservingTypeOK
<1>5. CASE Remember(e) /\ Show(e)
  <2>1. IsFiniteSet(seen') /\ Cardinality(seen') <= MaxSeen
    <3>1. IsFiniteSet(seen \union {Key(e)})
      BY FS_AddElement DEF ObservesTyped
    <3> QED BY <1>5, <3>1, TrimmedBounded DEF Remember
  <2>2. printed' = printed \/ printed' = [printed EXCEPT ![e] = @ + 1]
    BY <1>5 DEF Show, PrintLine, PrintCompact, Output
  <2>3. named' \subseteq named \union {e[1]} /\ chains' \subseteq chains \union {e[1]}
    BY <1>5 DEF Show, PrintLine, PrintCompact, Output
  <2>4. printed' \in [Events -> Nat] /\ named' \subseteq Topics /\ chains' \subseteq Topics
    <3>1. printed \in [Events -> Nat] /\ named \subseteq Topics /\ chains \subseteq Topics
      BY DEF ObservesTyped, ObservingTypeOK
    <3>2. printed' \in [Events -> Nat]
      BY <1>2, <2>2, <3>1
    <3>3. named' \subseteq Topics /\ chains' \subseteq Topics
      BY <1>2, <2>3, <3>1
    <3> QED BY <3>2, <3>3
  <2> QED BY <1>2, <1>3, <2>1, <2>4 DEF ObservesTyped, ObservingTypeOK
<1> QED BY <1>4, <1>5 DEF Display, e

LEMMA EmitTyped ==
    ASSUME ObservesTyped, NEW e \in Events, Emit(e)
    PROVE  ObservesTyped'
<1>1. /\ UNCHANGED <<phase, mode, seen, named, chains, printed>>
      /\ emission' \in [Events -> {"new", "dropped", "tried", "done"}]
  BY DEF Emit, Limited, EmitToStream, Published, Unpublished, EmitTransient, EmitPlain, Reached, Pass,
         display, ObservesTyped, ObservingTypeOK
<1>2. passed' = passed \/ passed' = [passed EXCEPT ![e] = 0]
  BY DEF Emit, Limited, EmitToStream, Published, Unpublished, EmitTransient, EmitPlain, Pass
<1>3. passed' \in [Events -> (0 .. Period) \union {Never}]
  <2>1. 0 \in 0 .. Period
    BY ObservingAssumption
  <2> QED BY <1>2, <2>1 DEF ObservesTyped, ObservingTypeOK
<1>4. observations' = observations \/ observations' = Append(observations, e)
  BY DEF Emit, Limited, EmitToStream, Published, Unpublished, EmitTransient, EmitPlain
<1>5. /\ queue' = queue \/ queue' = Append(queue, e)
      /\ losses' = losses \/ Loss
  BY DEF Emit, Limited, EmitToStream, Published, Unpublished, EmitTransient, EmitPlain, Hear
<1>6. observations' \in Seq(Events) /\ queue' \in Seq(Events)
  <2>1. observations \in Seq(Events) /\ queue \in Seq(Events)
    BY DEF ObservesTyped, ObservingTypeOK
  <2>2. \A s \in Seq(Events) : Append(s, e) \in Seq(Events)
    OBVIOUS
  <2> QED BY <1>4, <1>5, <2>1, <2>2
<1>7. losses' \in 0 .. MaxLosses
  BY <1>5, ObservingAssumption DEF Loss, ObservesTyped, ObservingTypeOK
<1> QED BY <1>1, <1>3, <1>6, <1>7 DEF ObservesTyped, ObservingTypeOK

(* The state of the limiter, the stream, the watcher and its display:      *)
(* _seen_events never outgrows its capacity (aim-watch.py).                *)
THEOREM ObservingTypeCorrect == ObservingSpec => []ObservingTypeOK
<1>1. ObservingInit => ObservesTyped
  <2> SUFFICES ASSUME ObservingInit PROVE ObservesTyped
    OBVIOUS
  <2>1. IsFiniteSet(seen) /\ Cardinality(seen) <= MaxSeen
    BY FS_EmptySet, ObservingAssumption DEF ObservingInit
  <2> QED BY <2>1, ObservingAssumption DEF ObservingInit, ObservesTyped, ObservingTypeOK
<1>2. ObservesTyped /\ [ObservingNext]_observing => ObservesTyped'
  <2> SUFFICES ASSUME ObservesTyped, [ObservingNext]_observing PROVE ObservesTyped'
    OBVIOUS
  <2>1. CASE Replay
    <3>1. /\ UNCHANGED <<emission, passed, observations, mode, losses>>
          /\ phase' = "replaying" /\ seen' = {} /\ named' = {} /\ chains' = {}
          /\ printed' = [e \in Events |-> 0]
          /\ queue' = SubSeq(observations, 1, Min({PageSize, Len(observations)}))
      BY <2>1 DEF Replay, emitter
    <3>2. observations \in Seq(Events)
      BY DEF ObservesTyped, ObservingTypeOK
    <3>3. /\ Min({PageSize, Len(observations)}) \in Int
          /\ Min({PageSize, Len(observations)}) <= Len(observations)
      <4> DEFINE x == PageSize
                 y == Len(observations)
      <4>1. x \in Nat /\ y \in Nat
        BY <3>2, ObservingAssumption
      <4> HIDE DEF x, y
      <4>2. \E z \in {x, y} : \A w \in {x, y} : z =< w
        BY <4>1
      <4>3. Min({x, y}) \in {x, y} /\ \A w \in {x, y} : Min({x, y}) =< w
        BY <4>2 DEF Min
      <4> QED BY <4>1, <4>3 DEF x, y
    <3>4. queue' \in Seq(Events)
      <4> DEFINE k == Min({PageSize, Len(observations)})
      <4>1. k \in Int /\ k <= Len(observations) /\ Len(observations) \in Nat
        BY <3>2, <3>3
      <4> HIDE DEF k
      <4>2. \A i \in 1 .. k : observations[i] \in Events
        BY <3>2, <4>1
      <4>3. SubSeq(observations, 1, k) \in Seq(Events)
        BY <3>2, <4>1, <4>2
      <4> QED BY <3>1, <4>3 DEF k
    <3>5. IsFiniteSet(seen') /\ Cardinality(seen') <= MaxSeen
      BY <3>1, FS_EmptySet, ObservingAssumption
    <3> QED BY <3>1, <3>4, <3>5 DEF ObservesTyped, ObservingTypeOK
  <2>2. CASE Subscribe
    BY <2>2 DEF Subscribe, emitter, display, ObservesTyped, ObservingTypeOK
  <2>3. CASE Disconnect
    BY <2>3, ObservingAssumption
       DEF Disconnect, Loss, emitter, display, ObservesTyped, ObservingTypeOK
  <2>4. CASE ObservingTick
    <3>1. passed' \in [Events -> (0 .. Period) \union {Never}]
      <4>1. \A e \in Events : passed[e] \in (0 .. Period) \union {Never}
        BY DEF ObservesTyped, ObservingTypeOK
      <4> QED BY <2>4, <4>1, ObservingAssumption DEF ObservingTick
    <3>2. UNCHANGED <<emission, observations, phase, mode, queue, seen, named, chains,
                      printed, losses>>
      BY <2>4 DEF ObservingTick, display
    <3> QED BY <3>1, <3>2 DEF ObservesTyped, ObservingTypeOK
  <2>5. CASE UNCHANGED observing
    BY <2>5 DEF observing, emitter, display, ObservesTyped, ObservingTypeOK
  <2> QED BY <2>1, <2>2, <2>3, <2>4, <2>5, DisplayTyped, EmitTyped DEF ObservingNext
<1>3. ObservesTyped => ObservingTypeOK
  BY DEF ObservesTyped
<1> QED BY <1>1, <1>2, <1>3, PTL DEF ObservingSpec

-----------------------------------------------------------------------------
(* The calls that send. *)
Tries == 0 .. MaxRetries

(* Total[a] is how long a call takes at most until its attempt a, and what *)
(* is published then reaches an end that still knows the first copy, if    *)
(* the connection is not down for longer than Outage before.               *)
Timely(Total) ==
    /\ Total \in [Tries -> Nat]
    /\ \A a \in Tries :
          /\ a + 1 \in Tries => Total[a + 1] = Total[a] + Timeout + Delay(a)
          /\ Total[a] + Outage < Window

(* How much of it has gone at most: what is known of a message was not     *)
(* accepted before its call began.                                         *)
Since(m, t) == \A e \in Receivers : known[<<m, e>>] # Unknown => known[<<m, e>>] <= t

NeverSeen(m) == \A e \in Receivers : known[<<m, e>>] = Unknown

Waited(m, Total) ==
    /\ call[m] \in {"idle", "invalid"} => NeverSeen(m)
    /\ call[m] = "waiting" =>
          timer[m] \in 0 .. Timeout /\ Since(m, Total[attempt[m]] + Timeout - timer[m])
    /\ call[m] = "sleeping" =>
          /\ attempt[m] + 1 \in Tries /\ timer[m] <= Delay(attempt[m])
          /\ Since(m, Total[attempt[m] + 1] - timer[m])

Late == IF link = "up" THEN Outage ELSE down

(* A copy on its way comes in time, unless an outage has kept one of the   *)
(* message too long.                                                       *)
OnItsWay(c, Total) ==
    /\ call[c[1]] \notin {"idle", "invalid"}
    /\ c[1] \notin overdue => Since(c[1], Total[c[2]] + Late)

(* The state of the sending side, without what does not matter here. *)
SendsTyped ==
    /\ call \in [Outgoing -> Phases]
    /\ attempt \in [Outgoing -> Tries] /\ timer \in [Outgoing -> Int]
    /\ flying \subseteq Outgoing \X Tries /\ (link = "closed" => flying = {})
    /\ link \in {"up", "down", "closed"} /\ down \in 0 .. Outage
    /\ known \in [Outgoing \X Receivers -> (0 .. Window) \union {Unknown}]
    /\ accepted \in [Outgoing \X Receivers -> Nat]

(* An end that tells copies apart has accepted one, or none. *)
Single ==
    \A m \in Outgoing \ overdue : \A e \in Receivers :
        Dedups(m, e) => accepted[<<m, e>>] = IF known[<<m, e>>] = Unknown THEN 0 ELSE 1

InTime(Total) ==
    /\ SendsTyped /\ Single
    /\ \A m \in Outgoing : Waited(m, Total)
    /\ \A c \in flying : OnItsWay(c, Total)

LEMMA DelayType == \A a \in Tries : Delay(a) \in Int
<1>1. \A a \in Nat : 2^a \in Int
  OBVIOUS
<1> QED BY <1>1, SendingAssumption DEF Tries, Delay, Smaller

(* What has been known for no longer than t, has for no longer than u. *)
LEMMA SinceLater ==
    ASSUME SendsTyped, NEW m \in Outgoing, NEW t \in Int, NEW u \in Int, t <= u,
           Since(m, t)
    PROVE  Since(m, u)
<1>1. \A e \in Receivers : known[<<m, e>>] # Unknown => known[<<m, e>>] \in Int
  BY DEF SendsTyped
<1> QED BY <1>1 DEF Since

LEMMA TotalNumbers ==
    ASSUME NEW Total, Timely(Total), NEW a \in Tries
    PROVE  /\ Total[a] \in Nat /\ Total[a] + Outage < Window /\ Delay(a) \in Int
           /\ a + 1 \in Tries => /\ Total[a + 1] = Total[a] + Timeout + Delay(a)
                                 /\ Total[a + 1] \in Nat
BY DelayType DEF Timely

(* An attempt of m begins, and what is known of m was not accepted before  *)
(* the time until that attempt.                                            *)
LEMMA AttemptInTime ==
    ASSUME NEW Total, Timely(Total), InTime(Total),
           NEW m \in Outgoing, NEW a \in Tries, Since(m, Total[a]), Attempt(m, a)
    PROVE  InTime(Total)'
<1>1. /\ UNCHANGED <<kind, link, down, known, accepted, overdue>>
      /\ \A n, t : Since(n, t)' <=> Since(n, t)
      /\ \A n : NeverSeen(n)' <=> NeverSeen(n)
      /\ Single' /\ Late' = Late
  <2>1. UNCHANGED <<kind, link, down, known, accepted, overdue>>
    BY DEF Attempt, connection, receiver
  <2>2. Single
    BY DEF InTime
  <2> QED BY <2>1, <2>2 DEF Since, NeverSeen, Single, Dedups, Late
<1>2. \A n \in Outgoing \ {m} :
         /\ UNCHANGED <<call[n], attempt[n], timer[n]>>
  BY DEF Attempt, PublishCopy, Refused, Failed, Now, InTime, SendsTyped
<1>3. /\ Total[a] \in Nat /\ Total[a] + Outage < Window /\ Delay(a) \in Int
      /\ a + 1 \in Tries => Total[a + 1] = Total[a] + Timeout + Delay(a)
                            /\ Total[a + 1] \in Nat
  BY TotalNumbers
<1>4. \A n \in Outgoing \ {m} : Waited(n, Total)'
  BY <1>1, <1>2 DEF InTime, Waited
<1>5. ASSUME NEW c \in flying, call'[m] \notin {"idle", "invalid"}
      PROVE  OnItsWay(c, Total)'
  <2>1. OnItsWay(c, Total) /\ c[1] \in Outgoing
    BY DEF InTime, SendsTyped
  <2>2. call'[c[1]] \notin {"idle", "invalid"}
    BY <1>2, <1>5, <2>1 DEF OnItsWay
  <2> QED BY <1>1, <2>1, <2>2 DEF OnItsWay
<1>6. SendsTyped
  BY DEF InTime
<1>7. CASE PublishCopy(m, a)
  <2>1. /\ link # "closed" /\ flying' = flying \union {<<m, a>>}
        /\ call'[m] \in {"sent", "waiting"} /\ attempt'[m] = a
        /\ call'[m] = "waiting" => timer'[m] = Timeout
        /\ call' \in [Outgoing -> Phases]
        /\ attempt' \in [Outgoing -> Tries] /\ timer' \in [Outgoing -> Int]
    BY <1>6, <1>7, SendingAssumption DEF PublishCopy, Now, SendsTyped, Phases
  <2>2. SendsTyped'
    BY <1>1, <1>6, <2>1 DEF SendsTyped
  <2>3. Waited(m, Total)'
    <3>1. Total[a] + Timeout - Timeout = Total[a] /\ Timeout \in 0 .. Timeout
      BY <1>3, SendingAssumption
    <3> QED BY <1>1, <2>1, <3>1 DEF Waited
  <2>4. OnItsWay(<<m, a>>, Total)'
    <3>1. Late \in Nat
      BY <1>6, SendingAssumption DEF Late, SendsTyped
    <3>2. Since(m, Total[a] + Late)
      BY <1>3, <1>6, <3>1, SinceLater
    <3> QED BY <1>1, <2>1, <3>2 DEF OnItsWay
  <2> QED BY <1>1, <1>4, <1>5, <2>1, <2>2, <2>3, <2>4 DEF InTime
<1>8. CASE Refused(m, a)
  <2>1. /\ UNCHANGED flying /\ call'[m] \in {"sleeping", "failed"} /\ attempt'[m] = a
        /\ call'[m] = "sleeping" => a < MaxRetries /\ timer'[m] = Delay(a)
        /\ call' \in [Outgoing -> Phases]
        /\ attempt' \in [Outgoing -> Tries] /\ timer' \in [Outgoing -> Int]
    BY <1>3, <1>6, <1>8 DEF Refused, Failed, Now, SendsTyped, Phases
  <2>2. SendsTyped'
    BY <1>1, <1>6, <2>1 DEF SendsTyped
  <2>3. Waited(m, Total)'
    <3>1. call'[m] = "sleeping" => a + 1 \in Tries
      BY <2>1, SendingAssumption DEF Tries
    <3>2. ASSUME a + 1 \in Tries PROVE Since(m, Total[a + 1] - Delay(a))
      <4>1. Total[a + 1] - Delay(a) \in Int /\ Total[a] <= Total[a + 1] - Delay(a)
        BY <1>3, <3>2, SendingAssumption
      <4> QED BY <1>3, <1>6, <4>1, SinceLater
    <3> QED BY <1>1, <1>3, <2>1, <3>1, <3>2 DEF Waited
  <2> QED BY <1>1, <1>4, <1>5, <2>1, <2>2, <2>3 DEF InTime
<1> QED BY <1>7, <1>8 DEF Attempt

(* An attempt has failed: the next one is in its time. *)
LEMMA FailureInTime ==
    ASSUME NEW Total, Timely(Total), InTime(Total), NEW m \in Outgoing,
           call[m] = "waiting", Failed(m, attempt[m]),
           flying' \subseteq flying, UNCHANGED <<kind, connection, receiver, overdue>>
    PROVE  InTime(Total)'
<1> DEFINE a == attempt[m]
<1>1. /\ UNCHANGED <<link, down, known, accepted, overdue>>
      /\ \A n, t : Since(n, t)' <=> Since(n, t)
      /\ \A n : NeverSeen(n)' <=> NeverSeen(n)
      /\ Single' /\ Late' = Late
  <2>1. UNCHANGED <<kind, link, down, known, accepted, overdue>>
    BY DEF connection, receiver
  <2>2. Single
    BY DEF InTime
  <2> QED BY <2>1, <2>2 DEF Since, NeverSeen, Single, Dedups, Late
<1>2. \A n \in Outgoing \ {m} : UNCHANGED <<call[n], attempt[n], timer[n]>>
  BY DEF Failed, Now, InTime, SendsTyped
<1>3. /\ a \in Tries /\ Total[a] \in Nat /\ Delay(a) \in Int
      /\ a + 1 \in Tries => Total[a + 1] = Total[a] + Timeout + Delay(a)
                            /\ Total[a + 1] \in Nat
  BY TotalNumbers DEF InTime, SendsTyped
<1>4. SendsTyped
  BY DEF InTime
<1>5. Since(m, Total[a] + Timeout)
  <2>1. timer[m] \in 0 .. Timeout /\ Since(m, Total[a] + Timeout - timer[m])
    BY DEF InTime, Waited
  <2>2. /\ Total[a] + Timeout - timer[m] \in Int /\ Total[a] + Timeout \in Int
        /\ Total[a] + Timeout - timer[m] <= Total[a] + Timeout
    BY <1>3, <2>1, SendingAssumption
  <2> HIDE DEF a
  <2> QED BY <1>4, <2>1, <2>2, SinceLater
<1>6. /\ call'[m] \in {"sleeping", "failed"} /\ attempt'[m] = a
      /\ call'[m] = "sleeping" => a < MaxRetries /\ timer'[m] = Delay(a)
      /\ call' \in [Outgoing -> Phases]
      /\ attempt' \in [Outgoing -> Tries] /\ timer' \in [Outgoing -> Int]
  BY <1>3, <1>4 DEF Failed, Now, SendsTyped, Phases
<1> HIDE DEF a
<1>7. SendsTyped'
  BY <1>1, <1>4, <1>6 DEF SendsTyped
<1>8. Waited(m, Total)'
  <2>1. call'[m] = "sleeping" => a + 1 \in Tries
    BY <1>3, <1>6, SendingAssumption DEF Tries
  <2>2. a + 1 \in Tries => Total[a + 1] - Delay(a) = Total[a] + Timeout
    BY <1>3, SendingAssumption
  <2> QED BY <1>1, <1>3, <1>5, <1>6, <2>1, <2>2 DEF Waited
<1>9. \A n \in Outgoing \ {m} : Waited(n, Total)'
  BY <1>1, <1>2 DEF InTime, Waited
<1>10. ASSUME NEW c \in flying' PROVE OnItsWay(c, Total)'
  <2>1. c \in flying /\ OnItsWay(c, Total) /\ c[1] \in Outgoing
    BY <1>10 DEF InTime, SendsTyped
  <2>2. call'[c[1]] \notin {"idle", "invalid"}
    BY <1>2, <1>6, <2>1 DEF OnItsWay
  <2> QED BY <1>1, <2>1, <2>2 DEF OnItsWay
<1> QED BY <1>1, <1>7, <1>8, <1>9, <1>10 DEF InTime

(* A copy arrives: it is the first, or the first one is still known. *)
LEMMA ArrivalInTime ==
    ASSUME NEW Total, Timely(Total), InTime(Total), NEW m, NEW a,
           Arrives(m, a)
    PROVE  InTime(Total)'
<1>1. /\ link = "up" /\ <<m, a>> \in flying /\ m \in Outgoing /\ a \in Tries
      /\ flying' = flying \ {<<m, a>>} /\ UNCHANGED <<kind, link, down, overdue>>
      /\ SendsTyped
  BY DEF Arrives, connection, InTime, SendsTyped
<1>2. PICK R \in SUBSET Receivers :
         /\ Accept(m, R)
         /\ \/ UNCHANGED calls
            \/ /\ call[m] = "waiting" /\ attempt[m] = a /\ Answers(m, R)
               /\ Now(m, "sent", a, 0)
  BY DEF Arrives
<1>3. /\ \A n \in Outgoing : \A e \in Receivers :
            /\ known'[<<n, e>>] = IF <<n, e>> \in Accepts(m, R) THEN 0 ELSE known[<<n, e>>]
            /\ accepted'[<<n, e>>] = IF <<n, e>> \in Accepts(m, R) THEN accepted[<<n, e>>] + 1
                                 ELSE accepted[<<n, e>>]
      /\ known' \in [Outgoing \X Receivers -> (0 .. Window) \union {Unknown}]
      /\ accepted' \in [Outgoing \X Receivers -> Nat]
      /\ \A n, e : <<n, e>> \in Accepts(m, R) => n = m /\ e \in Receivers /\ ~Knows(m, e)
  BY <1>1, <1>2, SendingAssumption DEF Accept, Accepts, SendsTyped
<1>4. \A n \in Outgoing, t \in Nat : Since(n, t) => Since(n, t)'
  BY <1>3 DEF Since
<1>5. Single'
  <2> SUFFICES ASSUME NEW n \in Outgoing, n \notin overdue, NEW e \in Receivers, Dedups(n, e)
               PROVE  accepted'[<<n, e>>] = IF known'[<<n, e>>] = Unknown THEN 0 ELSE 1
    BY <1>1 DEF Single, Dedups
  <2>1. accepted[<<n, e>>] = IF known[<<n, e>>] = Unknown THEN 0 ELSE 1
    BY DEF InTime, Single
  <2>2. CASE <<n, e>> \notin Accepts(m, R)
    BY <1>3, <2>1, <2>2
  <2>3. CASE <<n, e>> \in Accepts(m, R)
    <3>1. n = m /\ ~Knows(m, e)
      BY <1>3, <2>3
    <3>2. Since(m, Total[a] + Outage)
      BY <1>1, <3>1 DEF InTime, OnItsWay, Late
    <3>3. Total[a] \in Nat /\ Total[a] + Outage < Window
      BY <1>1, TotalNumbers
    <3>4. known[<<m, e>>] \in (0 .. Window) \union {Unknown}
      BY <1>1 DEF SendsTyped
    <3>5. known[<<m, e>>] = Unknown
      BY <3>1, <3>2, <3>3, <3>4, SendingAssumption DEF Knows, Since
    <3>6. known'[<<n, e>>] = 0 /\ accepted'[<<n, e>>] = accepted[<<n, e>>] + 1
      BY <1>3, <2>3
    <3> QED BY <2>1, <3>1, <3>5, <3>6, SendingAssumption
  <2> QED BY <2>2, <2>3
<1>6. /\ call[m] \notin {"idle", "invalid"}
      /\ \/ call' = call /\ attempt' = attempt /\ timer' = timer
         \/ /\ call' = [call EXCEPT ![m] = "sent"] /\ attempt' = [attempt EXCEPT ![m] = a]
            /\ timer' = [timer EXCEPT ![m] = 0]
  <2>1. call[m] \notin {"idle", "invalid"}
    BY <1>1 DEF InTime, OnItsWay
  <2> QED BY <1>2, <2>1 DEF calls, Now
<1>7. SendsTyped'
  <2>1. /\ call' \in [Outgoing -> Phases] /\ attempt' \in [Outgoing -> Tries]
        /\ timer' \in [Outgoing -> Int]
    BY <1>1, <1>6 DEF SendsTyped, Phases
  <2> QED BY <1>1, <1>3, <2>1 DEF SendsTyped
<1>8. ASSUME NEW n \in Outgoing PROVE Waited(n, Total)'
  <2>1. CASE n # m
    <3>1. UNCHANGED <<call[n], attempt[n], timer[n]>>
      BY <1>1, <1>6, <2>1 DEF SendsTyped
    <3>2. \A e \in Receivers : known'[<<n, e>>] = known[<<n, e>>]
      BY <1>3, <2>1
    <3> QED BY <3>1, <3>2 DEF InTime, Waited, Since, NeverSeen
  <2>2. CASE n = m /\ call' = call /\ attempt' = attempt /\ timer' = timer
    <3>1. Waited(m, Total) /\ call[m] \notin {"idle", "invalid"}
      BY <1>1, <1>6 DEF InTime
    <3>2. timer[m] \in Int /\ attempt[m] \in Tries
      BY <1>1 DEF SendsTyped
    <3>3. /\ Total[attempt[m]] \in Nat /\ Delay(attempt[m]) \in Int
          /\ attempt[m] + 1 \in Tries =>
                /\ Total[attempt[m] + 1] \in Nat
                /\ Total[attempt[m] + 1] = Total[attempt[m]] + Timeout + Delay(attempt[m])
      BY <3>2, TotalNumbers
    <3>4. call[m] = "waiting" => Since(m, Total[attempt[m]] + Timeout - timer[m])'
      <4>1. call[m] = "waiting" => Total[attempt[m]] + Timeout - timer[m] \in Nat
        BY <3>1, <3>2, <3>3, SendingAssumption DEF Waited
      <4> QED BY <1>1, <1>4, <2>2, <3>1, <4>1 DEF Waited
    <3>5. call[m] = "sleeping" => Since(m, Total[attempt[m] + 1] - timer[m])'
      <4>1. call[m] = "sleeping" => Total[attempt[m] + 1] - timer[m] \in Nat
        BY <3>1, <3>2, <3>3, SendingAssumption DEF Waited
      <4> QED BY <1>1, <1>4, <2>2, <3>1, <4>1 DEF Waited
    <3> QED BY <2>2, <3>1, <3>4, <3>5 DEF Waited
  <2>3. CASE n = m /\ call' = [call EXCEPT ![m] = "sent"]
    <3>1. call'[m] = "sent"
      BY <1>1, <2>3 DEF SendsTyped
    <3> QED BY <2>3, <3>1 DEF Waited
  <2> QED BY <1>6, <2>1, <2>2, <2>3
<1>9. ASSUME NEW c \in flying' PROVE OnItsWay(c, Total)'
  <2>1. c \in flying /\ c[1] \in Outgoing /\ c[2] \in Tries /\ OnItsWay(c, Total)
    BY <1>1, <1>9 DEF InTime, SendsTyped
  <2>2. Late' = Late /\ Total[c[2]] + Late \in Nat
    BY <1>1, <2>1, TotalNumbers, SendingAssumption DEF Late
  <2>3. call'[c[1]] \notin {"idle", "invalid"}
    BY <1>1, <1>6, <2>1 DEF SendsTyped, OnItsWay
  <2> QED BY <1>1, <1>4, <2>1, <2>2, <2>3 DEF OnItsWay
<1> QED BY <1>5, <1>7, <1>8, <1>9 DEF InTime

(* Time passes: what is known gets older, and so do the timers.            *)
LEMMA TickInTime ==
    ASSUME NEW Total, Timely(Total), InTime(Total), SendingTick
    PROVE  InTime(Total)'
<1>1. /\ UNCHANGED <<kind, call, attempt, flying, link, accepted>> /\ SendsTyped
      /\ timer' = [m \in Outgoing |-> IF timer[m] > 0 THEN timer[m] - 1 ELSE 0]
      /\ known' = [k \in Outgoing \X Receivers |-> Aged(known[k])]
      /\ \A m \in Outgoing : call[m] \in {"waiting", "sleeping"} => timer[m] > 0
      /\ link = "up" => flying = {}
      /\ IF link = "down" /\ down >= Outage
         THEN overdue' = overdue \union {c[1] : c \in flying} /\ UNCHANGED down
         ELSE down' = (IF link = "down" THEN down + 1 ELSE down) /\ UNCHANGED overdue
  BY DEF SendingTick, TimersRun, InTime
<1>2. \A k \in Outgoing \X Receivers :
         /\ known'[k] = Aged(known[k])
         /\ known[k] \in (0 .. Window) \union {Unknown}
         /\ known'[k] \in (0 .. Window) \union {Unknown}
         /\ known[k] = Unknown <=> known'[k] = Unknown
         /\ known[k] # Unknown => known'[k] <= known[k] + 1
  <2> SUFFICES ASSUME NEW k \in Outgoing \X Receivers
               PROVE  /\ known'[k] = Aged(known[k])
                      /\ known[k] \in (0 .. Window) \union {Unknown}
                      /\ known'[k] \in (0 .. Window) \union {Unknown}
                      /\ known[k] = Unknown <=> known'[k] = Unknown
                      /\ known[k] # Unknown => known'[k] <= known[k] + 1
    OBVIOUS
  <2>1. known[k] \in (0 .. Window) \union {Unknown} /\ known'[k] = Aged(known[k])
    BY <1>1 DEF SendsTyped
  <2>2. CASE known[k] = Unknown
    BY <2>1, <2>2 DEF Aged
  <2>3. CASE known[k] # Unknown
    <3>1. known[k] \in 0 .. Window
      BY <2>1, <2>3
    <3>2. known'[k] = IF known[k] < Window THEN known[k] + 1 ELSE known[k]
      BY <2>1, <2>3 DEF Aged
    <3>3. known'[k] \in 0 .. Window /\ known'[k] <= known[k] + 1
      BY <3>1, <3>2, SendingAssumption
    <3> QED BY <2>1, <2>3, <3>3, SendingAssumption
  <2> QED BY <2>2, <2>3
<1> DEFINE After(m, t) ==
             \A e \in Receivers : known'[<<m, e>>] # Unknown => known'[<<m, e>>] <= t
<1>3. \A m \in Outgoing, t \in Int : Since(m, t) => After(m, t + 1)
  <2> SUFFICES ASSUME NEW m \in Outgoing, NEW t \in Int, Since(m, t),
                      NEW e \in Receivers, known'[<<m, e>>] # Unknown
               PROVE  known'[<<m, e>>] <= t + 1
    OBVIOUS
  <2>1. <<m, e>> \in Outgoing \X Receivers
    OBVIOUS
  <2>2. /\ known[<<m, e>>] \in 0 .. Window /\ known'[<<m, e>>] \in 0 .. Window
        /\ known'[<<m, e>>] <= known[<<m, e>>] + 1
    BY <1>2, <2>1
  <2>3. known[<<m, e>>] <= t
    BY <1>2, <2>1 DEF Since
  <2> QED BY <2>2, <2>3
<1>4. SendsTyped'
  <2>1. timer' \in [Outgoing -> Int]
    BY <1>1 DEF SendsTyped
  <2>2. down' \in 0 .. Outage
    BY <1>1, SendingAssumption DEF SendsTyped
  <2>3. known' \in [Outgoing \X Receivers -> (0 .. Window) \union {Unknown}]
    BY <1>1, <1>2
  <2> QED BY <1>1, <2>1, <2>2, <2>3 DEF SendsTyped
<1>5. Single'
  <2> SUFFICES ASSUME NEW m \in Outgoing, m \notin overdue', NEW e \in Receivers, Dedups(m, e)
               PROVE  accepted'[<<m, e>>] = IF known'[<<m, e>>] = Unknown THEN 0 ELSE 1
    BY <1>1 DEF Single, Dedups
  <2>1. m \notin overdue /\ <<m, e>> \in Outgoing \X Receivers
    BY <1>1
  <2>2. accepted[<<m, e>>] = IF known[<<m, e>>] = Unknown THEN 0 ELSE 1
    BY <2>1 DEF InTime, Single
  <2> QED BY <1>1, <1>2, <2>1, <2>2
<1>6. ASSUME NEW m \in Outgoing PROVE Waited(m, Total)'
  <2>1. /\ timer[m] \in Int /\ attempt[m] \in Tries /\ Delay(attempt[m]) \in Int
        /\ Total[attempt[m]] \in Nat
        /\ attempt[m] + 1 \in Tries => Total[attempt[m] + 1] \in Nat
    BY <1>1, TotalNumbers DEF SendsTyped
  <2>2. Waited(m, Total)
    BY DEF InTime
  <2>3. call[m] \in {"waiting", "sleeping"} => timer'[m] = timer[m] - 1
    BY <1>1
  <2>4. call[m] \in {"idle", "invalid"} => NeverSeen(m)'
    <3> SUFFICES ASSUME call[m] \in {"idle", "invalid"}, NEW e \in Receivers
                 PROVE  known'[<<m, e>>] = Unknown
      BY DEF NeverSeen
    <3>1. <<m, e>> \in Outgoing \X Receivers /\ known[<<m, e>>] = Unknown
      BY <2>2 DEF Waited, NeverSeen
    <3> QED BY <1>2, <3>1
  <2>5. ASSUME call[m] = "waiting"
        PROVE  timer'[m] \in 0 .. Timeout /\ Since(m, Total[attempt[m]] + Timeout - timer[m])'
    <3>1. timer[m] \in 0 .. Timeout /\ Since(m, Total[attempt[m]] + Timeout - timer[m])
      BY <2>2, <2>5 DEF Waited
    <3>2. timer[m] > 0 /\ timer'[m] = timer[m] - 1
      BY <1>1, <2>3, <2>5
    <3>3. /\ Total[attempt[m]] + Timeout - timer[m] \in Int
          /\ Total[attempt[m]] + Timeout - timer'[m]
                = (Total[attempt[m]] + Timeout - timer[m]) + 1
      BY <2>1, <3>1, <3>2, SendingAssumption
    <3>4. After(m, (Total[attempt[m]] + Timeout - timer[m]) + 1)
      BY <1>3, <3>1, <3>3
    <3>5. Since(m, Total[attempt[m]] + Timeout - timer[m])'
      BY <1>1, <3>3, <3>4 DEF Since
    <3> QED BY <3>1, <3>2, <3>5, SendingAssumption
  <2>6. ASSUME call[m] = "sleeping"
        PROVE  /\ attempt[m] + 1 \in Tries /\ timer'[m] <= Delay(attempt[m])
               /\ Since(m, Total[attempt[m] + 1] - timer[m])'
    <3>1. /\ attempt[m] + 1 \in Tries /\ timer[m] <= Delay(attempt[m])
          /\ Since(m, Total[attempt[m] + 1] - timer[m])
      BY <2>2, <2>6 DEF Waited
    <3>2. timer[m] > 0 /\ timer'[m] = timer[m] - 1
      BY <1>1, <2>3, <2>6
    <3>3. /\ Total[attempt[m] + 1] - timer[m] \in Int
          /\ Total[attempt[m] + 1] - timer'[m] = (Total[attempt[m] + 1] - timer[m]) + 1
      BY <2>1, <3>1, <3>2
    <3>4. After(m, (Total[attempt[m] + 1] - timer[m]) + 1)
      BY <1>3, <3>1, <3>3
    <3>5. Since(m, Total[attempt[m] + 1] - timer[m])'
      BY <1>1, <3>3, <3>4 DEF Since
    <3> QED BY <2>1, <3>1, <3>2, <3>5
  <2> QED BY <1>1, <2>4, <2>5, <2>6 DEF Waited
<1>7. ASSUME NEW c \in flying' PROVE OnItsWay(c, Total)'
  <2>1. c \in flying /\ c[1] \in Outgoing /\ c[2] \in Tries /\ OnItsWay(c, Total)
    BY <1>1, <1>7 DEF InTime, SendsTyped
  <2>2. link = "down" /\ down \in Nat /\ Total[c[2]] \in Nat
    BY <1>1, <2>1, TotalNumbers, SendingAssumption DEF SendsTyped
  <2>3. CASE down >= Outage
    BY <1>1, <2>1, <2>2, <2>3 DEF OnItsWay
  <2>4. CASE ~(down >= Outage)
    <3>1. Late = down /\ Late' = down + 1 /\ UNCHANGED overdue
      BY <1>1, <2>2, <2>4 DEF Late
    <3>2. /\ Total[c[2]] + Late \in Int
          /\ Total[c[2]] + (down + 1) = (Total[c[2]] + Late) + 1
      BY <2>2, <3>1
    <3>3. ASSUME c[1] \notin overdue PROVE After(c[1], Total[c[2]] + (down + 1))
      BY <1>3, <2>1, <3>2, <3>3 DEF OnItsWay
    <3>4. ASSUME c[1] \notin overdue PROVE Since(c[1], Total[c[2]] + Late)'
      BY <3>1, <3>3, <3>4 DEF Since
    <3> QED BY <1>1, <2>1, <3>1, <3>4 DEF OnItsWay
  <2> QED BY <2>3, <2>4
<1> QED BY <1>4, <1>5, <1>6, <1>7 DEF InTime

(* The connection breaks, comes back or is closed. *)
LEMMA LinkInTime ==
    ASSUME NEW Total, Timely(Total), InTime(Total),
           Breaks \/ Reconnects \/ Closes
    PROVE  InTime(Total)'
<1>1. /\ UNCHANGED <<kind, call, attempt, timer, known, accepted, overdue>>
      /\ link' \in {"up", "down", "closed"} /\ down' = 0
      /\ \/ flying' = {}
         \/ flying' = flying /\ link = "down" /\ link' = "up"
  BY DEF Breaks, Reconnects, Closes, calls, receiver
<1>2. SendsTyped'
  BY <1>1, SendingAssumption DEF InTime, SendsTyped
<1>3. /\ \A m \in Outgoing : Waited(m, Total)'
      /\ Single'
  BY <1>1 DEF InTime, Waited, Since, NeverSeen, Single, Dedups
<1>4. ASSUME NEW c \in flying' PROVE OnItsWay(c, Total)'
  <2>1. /\ c \in flying /\ link = "down" /\ link' = "up" /\ c[1] \in Outgoing /\ c[2] \in Tries
        /\ OnItsWay(c, Total) /\ SendsTyped
    BY <1>1, <1>4 DEF InTime, SendsTyped
  <2>2. down \in 0 .. Outage /\ Total[c[2]] \in Nat /\ Late' = Outage /\ Late = down
    BY <2>1, TotalNumbers DEF SendsTyped, Late
  <2>3. Since(c[1], Total[c[2]] + down) => Since(c[1], Total[c[2]] + Outage)
    BY <2>1, <2>2, SinceLater, SendingAssumption
  <2> QED BY <1>1, <2>1, <2>2, <2>3 DEF OnItsWay, Since
<1> QED BY <1>2, <1>3, <1>4 DEF InTime

LEMMA NextInTime ==
    ASSUME NEW Total, Timely(Total), Total[0] = 0
    PROVE  InTime(Total) /\ [SendingNext]_sending => InTime(Total)'
<1> SUFFICES ASSUME InTime(Total), [SendingNext]_sending PROVE InTime(Total)'
  OBVIOUS
<1>1. ASSUME NEW m \in Outgoing, BeginCall(m) PROVE InTime(Total)'
  <2>1. Since(m, Total[0]) /\ 0 \in Tries
    BY <1>1, SendingAssumption DEF BeginCall, InTime, Waited, Since, NeverSeen, Tries
  <2> QED BY <1>1, <2>1, AttemptInTime DEF BeginCall
<1>2. ASSUME NEW m \in Outgoing, Invalid(m) PROVE InTime(Total)'
  <2>1. /\ call[m] = "idle" /\ call' = [call EXCEPT ![m] = "invalid"]
        /\ attempt' = [attempt EXCEPT ![m] = 0] /\ timer' = [timer EXCEPT ![m] = 0]
        /\ UNCHANGED <<kind, flying, link, down, known, accepted, overdue>>
    BY <1>2 DEF Invalid, Now, connection, receiver
  <2>2. SendsTyped' /\ Single'
    BY <2>1, SendingAssumption DEF InTime, SendsTyped, Phases, Tries, Single, Dedups
  <2>3. \A n \in Outgoing : Waited(n, Total)'
    <3> SUFFICES ASSUME NEW n \in Outgoing PROVE Waited(n, Total)'
      OBVIOUS
    <3>1. CASE n = m
      <4>1. call'[m] = "invalid" /\ NeverSeen(m)'
        BY <2>1 DEF InTime, SendsTyped, Waited, NeverSeen
      <4> QED BY <3>1, <4>1 DEF Waited
    <3>2. CASE n # m
      <4>1. UNCHANGED <<call[n], attempt[n], timer[n], known>>
        BY <2>1, <3>2 DEF InTime, SendsTyped
      <4> QED BY <4>1 DEF InTime, Waited, Since, NeverSeen
    <3> QED BY <3>1, <3>2
  <2>4. ASSUME NEW c \in flying' PROVE OnItsWay(c, Total)'
    <3>1. c \in flying /\ c[1] \in Outgoing /\ Late' = Late /\ OnItsWay(c, Total)
      BY <2>1, <2>4 DEF InTime, SendsTyped, Late
    <3>2. call'[c[1]] = call[c[1]]
      BY <2>1, <3>1 DEF InTime, SendsTyped, OnItsWay
    <3> QED BY <2>1, <3>1, <3>2 DEF OnItsWay, Since
  <2> QED BY <2>2, <2>3, <2>4 DEF InTime
<1>3. ASSUME NEW m \in Outgoing, WakesUp(m) PROVE InTime(Total)'
  <2>1. /\ call[m] = "sleeping" /\ timer[m] = 0 /\ Attempt(m, attempt[m] + 1)
        /\ attempt[m] + 1 \in Tries /\ Since(m, Total[attempt[m] + 1] - timer[m])
    BY <1>3 DEF WakesUp, InTime, Waited
  <2>2. Since(m, Total[attempt[m] + 1])
    <3>1. Total[attempt[m] + 1] \in Nat
      BY <2>1 DEF Timely
    <3> QED BY <2>1, <3>1 DEF Since
  <2> QED BY <2>1, <2>2, AttemptInTime
<1>4. ASSUME NEW m \in Outgoing, TimesOut(m) PROVE InTime(Total)'
  BY <1>4, FailureInTime DEF TimesOut
<1>5. ASSUME NEW c \in flying, Unheard(c[1], c[2]) PROVE InTime(Total)'
  <2>1. c[1] \in Outgoing
    BY <1>5 DEF InTime, SendsTyped
  <2>2. /\ call[c[1]] = "waiting" /\ Failed(c[1], attempt[c[1]])
        /\ flying' \subseteq flying /\ UNCHANGED <<kind, connection, receiver, overdue>>
    BY <1>5 DEF Unheard
  <2> QED BY <2>1, <2>2, FailureInTime
<1>6. ASSUME NEW c \in flying, Arrives(c[1], c[2]) PROVE InTime(Total)'
  BY <1>6, ArrivalInTime
<1>7. CASE UNCHANGED sending
  <2>1. UNCHANGED <<kind, call, attempt, timer, flying, link, down, known, accepted, overdue>>
    BY <1>7 DEF sending, calls, connection, receiver
  <2> QED BY <2>1 DEF InTime, SendsTyped, Single, Dedups, Waited, NeverSeen, Since, Late, OnItsWay
<1> QED BY <1>1, <1>2, <1>3, <1>4, <1>5, <1>6, <1>7, TickInTime, LinkInTime
         DEF SendingNext, CallStep

(* The stream stores what js.publish sends once, and a peer handles a      *)
(* message or request once, whatever the connection does to the copies,    *)
(* when the last attempt of a call is published in the window that begins  *)
(* with the first, with an outage of Outage to spare: the retries of       *)
(* RetryManager and the duplicate_window of the stream (the time to live   *)
(* of a peer's pin) stand in that relation.  A message that a longer       *)
(* outage has kept is excepted: of the three copies of the SDK only that   *)
(* of aim-client ends an outage.  Total stands for the sum of the timeouts *)
(* and delays until an attempt, which the hypotheses define step by step.  *)
THEOREM AcceptedJustOnce ==
    ASSUME NEW Total, Timely(Total), Total[0] = 0
    PROVE  SendingSpec => []AcceptedOnce
<1>1. SendingInit => InTime(Total)
  <2> SUFFICES ASSUME SendingInit PROVE InTime(Total)
    OBVIOUS
  <2>1. SendsTyped
    BY SendingAssumption DEF SendingInit, SendsTyped, Phases, Tries
  <2>2. /\ \A m \in Outgoing : call[m] = "idle"
        /\ \A m \in Outgoing, e \in Receivers : known[<<m, e>>] = Unknown /\ accepted[<<m, e>>] = 0
    BY DEF SendingInit
  <2>3. Single /\ \A m \in Outgoing : Waited(m, Total)
    BY <2>2 DEF Waited, NeverSeen, Single
  <2>4. flying = {}
    BY DEF SendingInit
  <2> QED BY <2>1, <2>3, <2>4 DEF InTime
<1>2. InTime(Total) /\ [SendingNext]_sending => InTime(Total)'
  BY NextInTime
<1>3. InTime(Total) => AcceptedOnce
  <2> SUFFICES ASSUME InTime(Total), NEW m \in Outgoing \ overdue, NEW e \in Receivers,
                      Dedups(m, e)
               PROVE  accepted[<<m, e>>] <= 1
    BY DEF AcceptedOnce
  <2>1. accepted[<<m, e>>] = IF known[<<m, e>>] = Unknown THEN 0 ELSE 1
    BY DEF InTime, Single
  <2> QED BY <2>1
<1> QED BY <1>1, <1>2, <1>3, PTL DEF SendingSpec

-----------------------------------------------------------------------------
(* The state of the sending side. *)
LEMMA FailedTyped ==
    ASSUME SendingTypeOK, \A a \in Nat : 2^a \in Nat,
           NEW m \in Outgoing, NEW a \in Tries, Failed(m, a)
    PROVE  /\ call' \in [Outgoing -> Phases] /\ attempt' \in [Outgoing -> Tries]
           /\ timer' \in [Outgoing -> Nat]
<1>1. a \in Nat /\ Delay(a) \in Nat
  <2>1. a \in Nat /\ 2^a \in Nat
    BY SendingAssumption DEF Tries
  <2> QED BY <2>1, SendingAssumption DEF Delay, Smaller
<1> HIDE DEF Tries
<1> QED BY <1>1 DEF Failed, Now, SendingTypeOK, Phases, Tries

LEMMA AttemptTyped ==
    ASSUME SendingTypeOK, \A a \in Nat : 2^a \in Nat,
           NEW m \in Outgoing, NEW a \in Tries, Attempt(m, a)
    PROVE  SendingTypeOK'
<1>1. UNCHANGED <<kind, link, down, breaks, known, accepted, overdue>>
  BY DEF Attempt, connection, receiver
<1>2. CASE PublishCopy(m, a)
  <2>1. flying' \subseteq Outgoing \X Tries
    BY <1>2 DEF PublishCopy, SendingTypeOK, Tries
  <2>2. /\ call' \in [Outgoing -> Phases] /\ attempt' \in [Outgoing -> Tries]
        /\ timer' \in [Outgoing -> Nat]
    BY <1>2, SendingAssumption DEF PublishCopy, Now, SendingTypeOK, Phases, Tries
  <2> QED BY <1>1, <2>1, <2>2 DEF SendingTypeOK, Tries
<1>3. CASE Refused(m, a)
  BY <1>1, <1>3, FailedTyped DEF Refused, SendingTypeOK, Tries
<1> QED BY <1>2, <1>3 DEF Attempt

(* A call sleeps only before a retry that the strategy still allows. *)
RetryLeft == \A m \in Outgoing : call[m] = "sleeping" => attempt[m] < MaxRetries

LEMMA NowLeaves ==
    ASSUME SendingTypeOK, RetryLeft, NEW m \in Outgoing, NEW p, NEW a, NEW t,
           Now(m, p, a, t), p = "sleeping" => a < MaxRetries
    PROVE  RetryLeft'
<1> SUFFICES ASSUME NEW n \in Outgoing, call'[n] = "sleeping" PROVE attempt'[n] < MaxRetries
  BY DEF RetryLeft
<1>1. CASE n = m
  BY <1>1 DEF Now, SendingTypeOK
<1>2. CASE n # m
  <2>1. call'[n] = call[n] /\ attempt'[n] = attempt[n]
    BY <1>2 DEF Now, SendingTypeOK
  <2> QED BY <2>1 DEF RetryLeft
<1> QED BY <1>1, <1>2

LEMMA FailedLeaves ==
    ASSUME SendingTypeOK, RetryLeft, NEW m \in Outgoing, NEW a, Failed(m, a)
    PROVE  RetryLeft'
BY NowLeaves DEF Failed

LEMMA AttemptLeaves ==
    ASSUME SendingTypeOK, RetryLeft, NEW m \in Outgoing, NEW a, Attempt(m, a)
    PROVE  RetryLeft'
BY NowLeaves, FailedLeaves DEF Attempt, PublishCopy, Refused

LEMMA RetryLeftKept ==
    ASSUME SendingTypeOK, RetryLeft, [SendingNext]_sending PROVE RetryLeft'
<1>1. ASSUME NEW m \in Outgoing, BeginCall(m) \/ Invalid(m) \/ CallStep(m)
      PROVE  RetryLeft'
  BY <1>1, AttemptLeaves, FailedLeaves, NowLeaves
     DEF BeginCall, Invalid, CallStep, WakesUp, TimesOut
<1>2. ASSUME NEW c \in flying, Arrives(c[1], c[2]) \/ Unheard(c[1], c[2])
      PROVE  RetryLeft'
  <2>1. c[1] \in Outgoing
    BY DEF SendingTypeOK
  <2>2. CASE UNCHANGED calls
    BY <2>2 DEF calls, RetryLeft
  <2>3. CASE Now(c[1], "sent", c[2], 0)
    BY <2>1, <2>3, NowLeaves
  <2>4. CASE Failed(c[1], c[2])
    BY <2>1, <2>4, FailedLeaves
  <2> QED BY <1>2, <2>2, <2>3, <2>4 DEF Arrives, Unheard
<1>3. CASE Breaks \/ Reconnects \/ Closes \/ SendingTick \/ UNCHANGED sending
  <2>1. UNCHANGED <<call, attempt>>
    BY <1>3 DEF Breaks, Reconnects, Closes, SendingTick, calls, sending
  <2> QED BY <2>1 DEF RetryLeft
<1> QED BY <1>1, <1>2, <1>3 DEF SendingNext

(* The state of the calls, the connection and the receiving ends, for any  *)
(* number of retries.  That a power of two is a natural number is said     *)
(* because the provers do not know it.                                     *)
THEOREM SendingTypeCorrect ==
    ASSUME \A a \in Nat : 2^a \in Nat
    PROVE  SendingSpec => []SendingTypeOK
<1>1. SendingInit => SendingTypeOK /\ RetryLeft
  BY SendingAssumption DEF SendingInit, SendingTypeOK, Phases, RetryLeft
<1>2. SendingTypeOK /\ RetryLeft /\ [SendingNext]_sending => (SendingTypeOK /\ RetryLeft)'
  <2> SUFFICES ASSUME SendingTypeOK, RetryLeft, [SendingNext]_sending PROVE SendingTypeOK'
    BY RetryLeftKept
  <2>1. ASSUME NEW m \in Outgoing, BeginCall(m) PROVE SendingTypeOK'
    <3>1. 0 \in Tries
      BY SendingAssumption DEF Tries
    <3> QED BY <2>1, <3>1, AttemptTyped DEF BeginCall
  <2>2. ASSUME NEW m \in Outgoing, Invalid(m) PROVE SendingTypeOK'
    BY <2>2, SendingAssumption
       DEF Invalid, Now, SendingTypeOK, Phases, connection, receiver
  <2>3. ASSUME NEW m \in Outgoing, WakesUp(m) PROVE SendingTypeOK'
    <3>1. attempt[m] \in Tries /\ Attempt(m, attempt[m] + 1)
      BY <2>3 DEF WakesUp, SendingTypeOK, Tries
    <3>2. attempt[m] < MaxRetries
      BY <2>3 DEF WakesUp, RetryLeft
    <3>3. attempt[m] + 1 \in Tries
      BY <3>1, <3>2, SendingAssumption DEF Tries
    <3> QED BY <3>1, <3>3, AttemptTyped
  <2>4. ASSUME NEW m \in Outgoing, TimesOut(m) PROVE SendingTypeOK'
    <3>1. /\ Failed(m, attempt[m]) /\ attempt[m] \in Tries
          /\ UNCHANGED <<kind, flying, link, down, breaks, known, accepted, overdue>>
      BY <2>4 DEF TimesOut, connection, receiver, SendingTypeOK, Tries
    <3> QED BY <3>1, FailedTyped DEF SendingTypeOK, Tries
  <2>5. ASSUME NEW c \in flying, Arrives(c[1], c[2]) PROVE SendingTypeOK'
    <3>1. c[1] \in Outgoing /\ c[2] \in Tries
      BY DEF SendingTypeOK, Tries
    <3>2. /\ flying' \subseteq flying /\ UNCHANGED <<kind, link, down, breaks, overdue>>
      BY <2>5 DEF Arrives, connection
    <3>3. /\ known' \in [Outgoing \X Receivers -> (0 .. Window) \union {Unknown}]
          /\ accepted' \in [Outgoing \X Receivers -> Nat]
      BY <2>5, <3>1, SendingAssumption DEF Arrives, Accept, SendingTypeOK
    <3>4. /\ call' \in [Outgoing -> Phases] /\ attempt' \in [Outgoing -> Tries]
          /\ timer' \in [Outgoing -> Nat]
      BY <2>5, <3>1 DEF Arrives, Now, calls, SendingTypeOK, Phases, Tries
    <3> QED BY <3>2, <3>3, <3>4 DEF SendingTypeOK, Tries
  <2>6. ASSUME NEW c \in flying, Unheard(c[1], c[2]) PROVE SendingTypeOK'
    <3>1. c[1] \in Outgoing /\ c[2] \in Tries
      BY DEF SendingTypeOK, Tries
    <3>2. /\ Failed(c[1], c[2]) /\ flying' \subseteq flying
          /\ UNCHANGED <<kind, link, down, breaks, known, accepted, overdue>>
      BY <2>6 DEF Unheard, connection, receiver
    <3> QED BY <3>1, <3>2, FailedTyped DEF SendingTypeOK, Tries
  <2>7. CASE Breaks \/ Reconnects \/ Closes
    <3>1. /\ flying' \subseteq flying /\ link' \in {"up", "down", "closed"} /\ down' = 0
          /\ breaks' = breaks \/ (breaks < MaxBreaks /\ breaks' = breaks + 1)
          /\ UNCHANGED <<kind, call, attempt, timer, known, accepted, overdue>>
      BY <2>7 DEF Breaks, Reconnects, Closes, calls, receiver
    <3> QED BY <3>1, SendingAssumption DEF SendingTypeOK
  <2>8. CASE SendingTick
    <3>1. UNCHANGED <<kind, call, attempt, flying, link, breaks, accepted>>
      BY <2>8 DEF SendingTick
    <3>2. timer' \in [Outgoing -> Nat]
      BY <2>8 DEF SendingTick, SendingTypeOK
    <3>3. known' \in [Outgoing \X Receivers -> (0 .. Window) \union {Unknown}]
      BY <2>8, SendingAssumption DEF SendingTick, Aged, SendingTypeOK
    <3>4. down' \in 0 .. Outage
      BY <2>8, SendingAssumption DEF SendingTick, SendingTypeOK
    <3>5. overdue' \subseteq Outgoing
      BY <2>8 DEF SendingTick, SendingTypeOK
    <3> QED BY <3>1, <3>2, <3>3, <3>4, <3>5 DEF SendingTypeOK
  <2>9. CASE UNCHANGED sending
    BY <2>9 DEF sending, calls, connection, receiver, SendingTypeOK
  <2> QED BY <2>1, <2>2, <2>3, <2>4, <2>5, <2>6, <2>7, <2>8, <2>9 DEF SendingNext, CallStep
<1> QED BY <1>1, <1>2, PTL DEF SendingSpec

=============================================================================
