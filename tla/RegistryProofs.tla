--------------------------- MODULE RegistryProofs ---------------------------
(***************************************************************************)
(* The types and the safety properties of Registry, for any agents, any    *)
(* numbers, time-outs and numbers of restarts.  Four strengthenings carry  *)
(* the proofs: OneEach says that a callback awaits one put at a time,      *)
(* Found and Numbered relate what was confirmed to what is saved, Aged the *)
(* clocks to what the registry remembers, and Told the alerts on their way *)
(* to the state they announce.                                             *)
(***************************************************************************)
EXTENDS Registry, WellFoundedInduction, TLAPS

-----------------------------------------------------------------------------
(* Sequences of puts. *)

(* A put that is issued comes last. *)
LEMMA AppendedPut ==
    ASSUME NEW S, NEW s \in Seq(S), NEW p \in S
    PROVE  /\ Append(s, p) \in Seq(S)
           /\ DOMAIN s = 1 .. Len(s) /\ Len(s) \in Nat
           /\ DOMAIN Append(s, p) = 1 .. Len(s) + 1
           /\ \A i \in DOMAIN s : Append(s, p)[i] = s[i]
           /\ Append(s, p)[Len(s) + 1] = p
OBVIOUS

(* A put that is answered was the first. *)
LEMMA AnsweredPut ==
    ASSUME NEW S, NEW s \in Seq(S), s # <<>>
    PROVE  /\ Tail(s) \in Seq(S) /\ Head(s) \in S /\ Head(s) = s[1]
           /\ DOMAIN s = 1 .. Len(s) /\ 1 \in DOMAIN s /\ Len(s) \in Nat
           /\ DOMAIN Tail(s) = 1 .. Len(s) - 1
           /\ \A i \in DOMAIN Tail(s) : i + 1 \in DOMAIN s /\ Tail(s)[i] = s[i + 1]
OBVIOUS

(* Every set of naturals that is not empty has a least element. *)
LEMMA LeastExists ==
    ASSUME NEW T \in SUBSET Nat, T # {}
    PROVE  \E d \in T : \A y \in T : d <= y
<1>1. \E d \in T : \A y \in T : ~ (<<y, d>> \in OpToRel(<, Nat))
  <2>1. T \subseteq Nat /\ T # {}
    OBVIOUS
  <2> QED BY <2>1, WFMin, NatLessThanWellFounded, Zenon
<1>2. \A x, y \in Nat : ~ (<<x, y>> \in OpToRel(<, Nat)) => y <= x
  BY DEF OpToRel
<1> QED BY <1>1, <1>2

(* A set of numbers up to a bound has a largest one: the least distance to *)
(* the bound belongs to it.                                                *)
LEMMA LargestExists ==
    ASSUME NEW S \in SUBSET Ids
    PROVE  /\ Largest(S) \in 0 .. MaxId
           /\ \A a \in S : a <= Largest(S)
<1>0. MaxId \in Nat /\ S \subseteq 1 .. MaxId
  BY RegistryAssumption DEF Ids
<1>1. CASE S = {}
  BY <1>0, <1>1 DEF Largest
<1>2. CASE S # {}
  <2> DEFINE T == {MaxId - a : a \in S}
  <2>1. T \subseteq Nat /\ T # {}
    <3>1. \A a \in S : MaxId - a \in Nat
      BY <1>0
    <3> QED BY <1>2, <3>1
  <2>2. PICK d \in T : \A y \in T : d <= y
    <3> HIDE DEF T
    <3> QED BY <2>1, LeastExists
  <2>3. PICK m \in S : d = MaxId - m
    OBVIOUS
  <2>4. \A b \in S : b <= m
    <3> SUFFICES ASSUME NEW b \in S PROVE b <= m
      OBVIOUS
    <3>1. MaxId - b \in T
      OBVIOUS
    <3>2. MaxId - m <= MaxId - b
      BY <2>2, <2>3, <3>1
    <3> QED BY <1>0, <3>2
  <2>5. Largest(S) \in S /\ \A b \in S : b <= Largest(S)
    BY <1>2, <2>4 DEF Largest
  <2> HIDE DEF T
  <2>6. Largest(S) \in 1 .. MaxId
    BY <1>0, <2>5
  <2> QED BY <1>0, <2>5, <2>6
<1> QED BY <1>1, <1>2

-----------------------------------------------------------------------------
(* Types. *)

Ages == (0 .. StalledTime + 1) \union {None}

Alerts == {"none", "online", "offline", "stalled"}

(* The clocks stay below the value at which they stop. *)
LEMMA ClocksStop ==
    /\ \A max \in Nat : \A n \in 0 .. max : Upto(n, max) \in 0 .. max
    /\ \A n \in Ages : Older(n) \in Ages
<1>1. \A max \in Nat : \A n \in 0 .. max : Upto(n, max) \in 0 .. max
  BY DEF Upto
<1>2. \A n \in Ages : Older(n) \in Ages
  BY <1>1, RegistryAssumption DEF Ages, Older
<1> QED BY <1>1, <1>2

(* A record that is saved is a record. *)
LEMMA SnapshotType ==
    ASSUME TypeOK, NEW a \in Ids
    PROVE  /\ Snapshot(a) \in Record /\ Blank \in Record /\ Entry(a) \in Record
           /\ \A n \in 0 .. MaxCount : [Snapshot(a) EXCEPT !.count = n] \in Record
           /\ [Snapshot(a) EXCEPT !.gap = 0] \in Record
           /\ [Snapshot(a) EXCEPT !.backlog = None] \in Record
<1> USE RegistryAssumption
<1>1. Snapshot(a) = [count |-> count[a], gap |-> gap[a], backlog |-> backlog[a]]
  BY DEF Snapshot
<1>2. /\ count[a] \in 0 .. MaxCount /\ gap[a] \in 0 .. Timeout + 1
      /\ backlog[a] \in (0 .. StalledTime + 1) \union {None}
  BY DEF TypeOK
<1>3. Blank \in Record
  BY DEF Blank, Record
<1>4. Entry(a) \in Record
  BY <1>3 DEF Entry, TypeOK
<1> QED BY <1>1, <1>2, <1>3, <1>4 DEF Record

(* What is saved stays a record while its clocks run on. *)
LEMMA SavedAges ==
    ASSUME TypeOK, NEW a \in Ids, saved[a] # None
    PROVE  [saved[a] EXCEPT !.gap = Upto(@, Timeout + 1), !.backlog = Older(@)] \in Record
<1>1. saved[a] \in Record
  BY DEF TypeOK
<1>2. saved[a].gap \in 0 .. Timeout + 1 /\ saved[a].backlog \in Ages
  BY <1>1 DEF Record, Ages
<1>3. Timeout + 1 \in Nat
  BY RegistryAssumption
<1>4. Upto(saved[a].gap, Timeout + 1) \in 0 .. Timeout + 1
  BY <1>2, <1>3, ClocksStop
<1>5. Older(saved[a].backlog) \in Ages
  BY <1>2, ClocksStop
<1> QED BY <1>1, <1>4, <1>5 DEF Record, Ages

(* What a callback does to the puts when it issues one. *)
LEMMA PutType ==
    ASSUME TypeOK, NEW by \in {"register", "report", "monitor"}, NEW a \in Ids,
           NEW r \in Record, NEW told \in Anons \union {None},
           NEW alert \in {"none", "online", "offline", "stalled"},
           Put(by, a, r, told, alert)
    PROVE  puts' \in Seq(PutOnTheWay) /\ hung' \subseteq PutOnTheWay
<1> DEFINE p == [by |-> by, id |-> a, rec |-> r, told |-> told, alert |-> alert]
<1>1. p \in PutOnTheWay
  BY DEF PutOnTheWay
<1>2. puts' = Append(puts, p) /\ puts \in Seq(PutOnTheWay) /\ hung' \subseteq PutOnTheWay
  BY DEF Put, TypeOK
<1> HIDE DEF p
<1> QED BY <1>1, <1>2

(* Each part of the state stays in its set. *)
LEMMA NextTypeOK == TypeOK /\ [Next]_vars => TypeOK'
<1> SUFFICES ASSUME TypeOK, [Next]_vars PROVE TypeOK'
  OBVIOUS
<1> USE RegistryAssumption
<1>0. Ids \subseteq 1 .. MaxId /\ MaxId \in Nat /\ 0 \in 0 .. Timeout + 1 /\ 0 \in 0 .. MaxCount
  BY DEF Ids
<1>1. ASSUME NEW a \in Ids, RegisterKnown(a) PROVE TypeOK'
  <2>1. puts' \in Seq(PutOnTheWay) /\ hung' \subseteq PutOnTheWay
    BY <1>1, PutType, SnapshotType DEF RegisterKnown
  <2> QED BY <1>0, <1>1, <2>1 DEF TypeOK, RegisterKnown, Heard, monitor, alerts
<1>2. ASSUME NEW a \in Ids, NEW told \in Anons \union {None}, Create(a, told),
             nextSerial' \in 0 .. MaxId
      PROVE  TypeOK'
  <2>1. puts' \in Seq(PutOnTheWay) /\ hung' \subseteq PutOnTheWay
    BY <1>2, PutType, SnapshotType DEF Create
  <2> QED BY <1>0, <1>2, <2>1 DEF TypeOK, Create, Heard, monitor, alerts
<1>3. ASSUME NEW a \in Ids, RegisterByNumber(a) PROVE TypeOK'
  BY <1>2, <1>3 DEF RegisterByNumber, TypeOK
<1>4. ASSUME NEW w \in Anons, RegisterAnonymous(w) PROVE TypeOK'
  <2>1. nextSerial + 1 \in Ids /\ nextSerial' \in 0 .. MaxId
    BY <1>4 DEF RegisterAnonymous, TypeOK, Ids
  <2> QED BY <1>2, <1>4, <2>1 DEF RegisterAnonymous
<1>5. ASSUME NEW a \in Ids, Heartbeat(a) PROVE TypeOK'
  BY <1>0, <1>5 DEF TypeOK, Heartbeat, Heard, Alert, monitor, alerts
<1>6. ASSUME NEW a \in Ids, NEW size \in {"empty", "some", "full"}, HealthReport(a, size)
      PROVE  TypeOK'
  <2>1. puts' \in Seq(PutOnTheWay) /\ hung' \subseteq PutOnTheWay
    <3>1. CASE size = "empty" /\ status[a] = "stalled"
      BY <1>6, <3>1, PutType, SnapshotType DEF HealthReport
    <3>2. CASE ~ (size = "empty" /\ status[a] = "stalled")
      BY <1>6, <3>2 DEF HealthReport, TypeOK
    <3> QED BY <3>1, <3>2
  <2>2. status' \in [Ids -> {"online", "offline", "stalled"}]
    BY <1>6 DEF TypeOK, HealthReport
  <2>3. backlog' \in [Ids -> (0 .. StalledTime + 1) \union {None}]
    BY <1>6 DEF TypeOK, HealthReport
  <2> QED BY <1>6, <2>1, <2>2, <2>3 DEF TypeOK, HealthReport, monitor, history, alerts
<1>7. ASSUME NEW p \in PutOnTheWay, Resume(p) PROVE
      /\ used' \subseteq Ids /\ given' \in [Anons -> Ids \union {None}]
      /\ pass' \in {"idle", "due", "runs", "saves"}
      /\ \A alert \in Alerts : [announced EXCEPT ![p.id] = alert] \in [Ids -> Alerts]
      /\ p.id \in Ids /\ p.alert \in Alerts
  BY <1>7 DEF Resume, TypeOK, PutOnTheWay, Alerts
<1>8. CASE PutLands
  <2>1. Head(puts) \in PutOnTheWay /\ puts' \in Seq(PutOnTheWay)
    BY <1>8, AnsweredPut DEF PutLands, TypeOK
  <2>2. saved' \in [Ids -> Record \union {None}]
    BY <1>8, <2>1 DEF PutLands, Save, TypeOK, PutOnTheWay
  <2>3. announced' \in [Ids -> Alerts] /\ belated' \subseteq Ids
    BY <1>7, <1>8, <2>1 DEF PutLands, Alert, alerts, TypeOK, Alerts
  <2> QED BY <1>7, <1>8, <2>1, <2>2, <2>3 DEF PutLands, Resume, TypeOK, records, Alerts
<1>9. CASE PutHangs
  <2>1. Head(puts) \in PutOnTheWay /\ puts' \in Seq(PutOnTheWay)
    BY <1>9, AnsweredPut DEF PutHangs, TypeOK
  <2>2. saved' \in [Ids -> Record \union {None}]
    BY <1>9, <2>1 DEF PutHangs, Save, TypeOK, PutOnTheWay
  <2>3. Head(puts).id \in Ids
    BY <2>1 DEF PutOnTheWay
  <2>4. lost' \subseteq Ids /\ faults' \in 0 .. MaxFaults /\ hung' \subseteq PutOnTheWay
    BY <1>9, <2>1, <2>3 DEF PutHangs, TypeOK
  <2> QED BY <1>9, <2>1, <2>2, <2>4 DEF PutHangs, TypeOK, records, monitor, alerts
<1>17. ASSUME NEW p \in hung, PutTimesOut(p) PROVE TypeOK'
  <2>1. p \in PutOnTheWay /\ hung' \subseteq PutOnTheWay
    BY <1>17 DEF PutTimesOut, TypeOK
  <2>2. announced' \in [Ids -> Alerts] /\ belated' \subseteq Ids
    <3>1. p.id \in Ids /\ [announced EXCEPT ![p.id] = p.alert] \in [Ids -> Alerts]
      BY <1>7, <1>17, <2>1 DEF PutTimesOut
    <3>2. CASE UNCHANGED alerts
      BY <3>2 DEF alerts, TypeOK, Alerts
    <3>3. CASE announced' = [announced EXCEPT ![p.id] = p.alert]
      <4>1. belated' \subseteq belated \union {p.id}
        BY <1>17 DEF PutTimesOut, alerts
      <4> QED BY <3>1, <3>3, <4>1 DEF TypeOK
    <3> QED BY <1>17, <3>2, <3>3 DEF PutTimesOut
  <2> QED BY <1>7, <1>17, <2>1, <2>2 DEF PutTimesOut, Resume, TypeOK, records, Alerts
<1>10. CASE StartPass
  BY <1>10 DEF StartPass, TypeOK, records, history, alerts
<1>11. CASE EndPass
  BY <1>11 DEF EndPass, TypeOK, records, history, alerts
<1>12. ASSUME NEW a \in Ids, MarkOffline(a) PROVE TypeOK'
  <2>1. Counted(a) \in 0 .. MaxCount
    BY <1>12 DEF MarkOffline, Counted, TypeOK
  <2>2. puts' \in Seq(PutOnTheWay) /\ hung' \subseteq PutOnTheWay
    BY <1>12, <2>1, PutType, SnapshotType DEF MarkOffline, OfflineRecord
  <2> QED BY <1>12, <2>1, <2>2 DEF MarkOffline, TypeOK, history, alerts
<1>13. ASSUME NEW a \in Ids, MarkStalled(a) PROVE TypeOK'
  <2>1. puts' \in Seq(PutOnTheWay) /\ hung' \subseteq PutOnTheWay
    BY <1>13, PutType, SnapshotType DEF MarkStalled
  <2> QED BY <1>13, <2>1 DEF MarkStalled, TypeOK, history, alerts
<1>14. CASE Tick
  <2>1. /\ gap' \in [Ids -> 0 .. Timeout + 1] /\ silent' \in [Ids -> 0 .. Timeout + 1]
        /\ uptime' \in 0 .. Grace
    <3>1. /\ \A n \in 0 .. Timeout + 1 : Upto(n, Timeout + 1) \in 0 .. Timeout + 1
          /\ \A n \in 0 .. Grace : Upto(n, Grace) \in 0 .. Grace
      BY ClocksStop
    <3> QED BY <1>14, <3>1 DEF Tick, TypeOK
  <2>2. backlog' \in [Ids -> Ages]
    BY <1>14, ClocksStop DEF Tick, TypeOK, Ages
  <2>3. saved' \in [Ids -> Record \union {None}]
    <3>1. \A a \in Ids : saved[a] # None =>
             [saved[a] EXCEPT !.gap = Upto(@, Timeout + 1), !.backlog = Older(@)] \in Record
      BY SavedAges
    <3> QED BY <1>14, <3>1 DEF Tick
  <2> QED BY <1>14, <2>1, <2>2, <2>3 DEF Tick, TypeOK, Ages, alerts
<1>15. CASE Restart
  <2>1. nextSerial' \in 0 .. MaxId /\ known' \subseteq Ids
    BY <1>15, LargestExists DEF Restart, Loaded
  <2>2. \A a \in Ids : Entry(a) \in Record
    BY SnapshotType
  <2>3. /\ gap' \in [Ids -> 0 .. Timeout + 1] /\ count' \in [Ids -> 0 .. MaxCount]
        /\ backlog' \in [Ids -> (0 .. StalledTime + 1) \union {None}]
    BY <1>15, <2>2 DEF Restart, Record
  <2>4. /\ puts' \in Seq(PutOnTheWay) /\ hung' \subseteq PutOnTheWay
        /\ uptime' \in 0 .. Grace /\ faults' \in 0 .. MaxFaults
    BY <1>15 DEF Restart, TypeOK
  <2> QED BY <1>15, <2>1, <2>3, <2>4 DEF Restart, TypeOK, alerts
<1>16. CASE UNCHANGED vars
  BY <1>16 DEF vars, records, monitor, history, alerts, TypeOK
<1> QED BY <1>1, <1>3, <1>4, <1>5, <1>6, <1>8, <1>9, <1>10, <1>11, <1>12, <1>13,
           <1>14, <1>15, <1>16, <1>17 DEF Next, Serve, Work, Answered, TimesOut, Watch

(* The initial state is in its sets. *)
LEMMA InitTypeOK == Init => TypeOK
BY RegistryAssumption DEF Init, TypeOK

(* The types of the registry, for every number of agents and every value   *)
(* of the time-outs (registry.py, Registry.__init__ and its callbacks).    *)
THEOREM TypeCorrect == Spec => []TypeOK
BY InitTypeOK, NextTypeOK, PTL DEF Spec

-----------------------------------------------------------------------------
(* Puts on their way. *)

(* The puts after one more was issued. *)
LEMMA IssuedPut ==
    ASSUME TypeOK, NEW by \in {"register", "report", "monitor"}, NEW a \in Ids,
           NEW r \in Record, NEW told \in Anons \union {None}, NEW alert \in Alerts,
           Put(by, a, r, told, alert)
    PROVE  /\ Len(puts) \in Nat /\ DOMAIN puts = 1 .. Len(puts)
           /\ DOMAIN puts' = 1 .. Len(puts) + 1
           /\ \A i \in DOMAIN puts : puts'[i] = puts[i]
           /\ puts'[Len(puts) + 1] = [by |-> by, id |-> a, rec |-> r, told |-> told,
                                      alert |-> alert]
           /\ hung' = hung
           /\ Awaited' = Awaited \union {puts'[Len(puts) + 1]}
<1> DEFINE p == [by |-> by, id |-> a, rec |-> r, told |-> told, alert |-> alert]
<1>1. p \in PutOnTheWay
  BY DEF PutOnTheWay, Alerts
<1>2. puts' = Append(puts, p) /\ puts \in Seq(PutOnTheWay)
  BY DEF Put, TypeOK
<1>3. puts'[Len(puts) + 1] = p
  <2> HIDE DEF p
  <2> QED BY <1>1, <1>2, AppendedPut
<1>4. /\ Len(puts) \in Nat /\ DOMAIN puts = 1 .. Len(puts)
      /\ DOMAIN puts' = 1 .. Len(puts) + 1
      /\ \A i \in DOMAIN puts : puts'[i] = puts[i]
  <2> HIDE DEF p
  <2> QED BY <1>1, <1>2, AppendedPut
<1>5. hung' = hung
  BY DEF Put
<1>6. Awaited' = Awaited \union {puts'[Len(puts) + 1]}
  BY <1>4, <1>5 DEF Awaited
<1> QED BY <1>3, <1>4, <1>5, <1>6

(* Every put is one. *)
LEMMA PutsTyped ==
    TypeOK => /\ \A i \in DOMAIN puts : puts[i] \in PutOnTheWay /\ puts[i] \in Awaited
              /\ Awaited \subseteq PutOnTheWay
<1> SUFFICES ASSUME TypeOK, puts \in Seq(PutOnTheWay), NEW i \in DOMAIN puts
             PROVE  puts[i] \in PutOnTheWay
  BY DEF TypeOK, Awaited
<1> QED OBVIOUS

(* The puts after the first was answered, or hangs. *)
LEMMA FirstPutTaken ==
    ASSUME TypeOK, puts # <<>>, puts' = Tail(puts)
    PROVE  /\ Len(puts) \in Nat /\ DOMAIN puts = 1 .. Len(puts) /\ 1 \in DOMAIN puts
           /\ Head(puts) = puts[1] /\ puts[1] \in PutOnTheWay
           /\ DOMAIN puts' = 1 .. Len(puts) - 1
           /\ \A i \in DOMAIN puts' : i + 1 \in DOMAIN puts /\ puts'[i] = puts[i + 1]
           /\ \A i \in DOMAIN puts :
                 i # 1 => i - 1 \in DOMAIN puts' /\ puts'[i - 1] = puts[i]
<1>1. puts \in Seq(PutOnTheWay)
  BY DEF TypeOK
<1> QED BY <1>1, AnsweredPut

(* A callback awaits one put at a time, the monitor while its pass saves;  *)
(* one that hangs counts as lost.                                          *)
OneEach ==
    /\ \A i, j \in DOMAIN puts : puts[i].by = puts[j].by => i = j
    /\ \A p, q \in hung : p.by = q.by => p = q
    /\ \A i \in DOMAIN puts : \A q \in hung : puts[i].by # q.by
    /\ \A i \in DOMAIN puts : puts[i].by = "monitor" => pass = "saves"
    /\ \A p \in hung : p.id \in lost /\ (p.by = "monitor" => pass = "saves")

(* A put issued by a callback that awaits none. *)
LEMMA OneMore ==
    ASSUME TypeOK, OneEach, NEW by \in {"register", "report", "monitor"}, NEW a \in Ids,
           NEW r \in Record, NEW told \in Anons \union {None}, NEW alert \in Alerts,
           Put(by, a, r, told, alert), Ready(by),
           pass = "saves" \/ by = "monitor" => pass' = "saves", lost' = lost
    PROVE  OneEach'
<1>1. /\ Len(puts) \in Nat /\ DOMAIN puts = 1 .. Len(puts)
      /\ DOMAIN puts' = 1 .. Len(puts) + 1
      /\ \A i \in DOMAIN puts : puts'[i] = puts[i]
      /\ puts'[Len(puts) + 1] = [by |-> by, id |-> a, rec |-> r, told |-> told,
                                 alert |-> alert]
      /\ hung' = hung
  BY IssuedPut
<1>2. /\ \A i \in DOMAIN puts : puts[i].by # by
      /\ \A p \in hung : p.by # by
  BY DEF Ready, Awaited
<1> QED BY <1>1, <1>2 DEF OneEach

LEMMA NextOneEach == TypeOK /\ OneEach /\ [Next]_vars => OneEach'
<1> SUFFICES ASSUME TypeOK, OneEach, [Next]_vars PROVE OneEach'
  OBVIOUS
<1> USE RegistryAssumption
<1>1. ASSUME NEW a \in Ids, RegisterKnown(a) PROVE OneEach'
  BY <1>1, OneMore, SnapshotType DEF RegisterKnown, monitor, Alerts
<1>2. ASSUME NEW a \in Ids, RegisterByNumber(a) PROVE OneEach'
  BY <1>2, OneMore, SnapshotType DEF RegisterByNumber, Create, monitor, Alerts
<1>3. ASSUME NEW w \in Anons, RegisterAnonymous(w) PROVE OneEach'
  <2>1. nextSerial + 1 \in Ids
    BY <1>3 DEF RegisterAnonymous, TypeOK, Ids
  <2> QED BY <1>3, <2>1, OneMore, SnapshotType
             DEF RegisterAnonymous, Create, monitor, Alerts
<1>4. ASSUME NEW a \in Ids, NEW size \in {"empty", "some", "full"}, HealthReport(a, size)
      PROVE  OneEach'
  <2>1. CASE UNCHANGED <<puts, hung>>
    BY <1>4, <2>1 DEF HealthReport, monitor, history, OneEach
  <2>2. CASE Put("report", a, [Snapshot(a) EXCEPT !.backlog = None], None, "online")
    BY <1>4, <2>2, OneMore, SnapshotType DEF HealthReport, monitor, history, Alerts
  <2> QED BY <1>4, <2>1, <2>2 DEF HealthReport
<1>5. ASSUME puts # <<>>, puts' = Tail(puts)
      PROVE  /\ \A i, j \in DOMAIN puts' : puts'[i].by = puts'[j].by => i = j
             /\ \A i \in DOMAIN puts' : \A q \in hung \union {Head(puts)} : puts'[i].by # q.by
             /\ \A i \in DOMAIN puts' : puts'[i].by = "monitor" => pass = "saves"
             /\ \A q \in hung : q.by # Head(puts).by
             /\ Head(puts).by = "monitor" => pass = "saves"
  <2>1. /\ DOMAIN puts' = 1 .. Len(puts) - 1 /\ Len(puts) \in Nat
        /\ \A i \in DOMAIN puts' : i + 1 \in DOMAIN puts /\ puts'[i] = puts[i + 1]
        /\ 1 \in DOMAIN puts /\ Head(puts) = puts[1]
    BY <1>5, FirstPutTaken
  <2>2. \A i \in DOMAIN puts' : puts'[i].by # puts[1].by
    BY <2>1 DEF OneEach
  <2> QED BY <2>1, <2>2 DEF OneEach
<1>6. CASE PutLands
  <2>1. \A i \in DOMAIN puts' : puts'[i].by # Head(puts).by
    BY <1>5, <1>6 DEF PutLands
  <2>2. pass' = IF Head(puts).by = "monitor" THEN "runs" ELSE pass
    BY <1>6 DEF PutLands, Resume
  <2> QED BY <1>5, <1>6, <2>1, <2>2 DEF PutLands, OneEach
<1>12. CASE PutHangs
  <2>1. /\ hung' = hung \union {Head(puts)} /\ pass' = pass
        /\ lost' = lost \union {Head(puts).id}
    BY <1>12 DEF PutHangs, monitor
  <2> QED BY <1>5, <1>12, <2>1 DEF PutHangs, OneEach
<1>13. ASSUME NEW p \in hung, PutTimesOut(p) PROVE OneEach'
  <2>1. /\ hung' = hung \ {p} /\ puts' = puts /\ lost' = lost
        /\ pass' = IF p.by = "monitor" THEN "runs" ELSE pass
    BY <1>13 DEF PutTimesOut, Resume
  <2>2. \A q \in hung' : q.by # p.by
    BY <2>1 DEF OneEach
  <2> QED BY <2>1, <2>2 DEF OneEach
<1>7. CASE StartPass \/ EndPass
  BY <1>7 DEF StartPass, EndPass, history, OneEach
<1>8. ASSUME NEW a \in Ids, MarkOffline(a) PROVE OneEach'
  <2>1. Counted(a) \in 0 .. MaxCount
    BY <1>8 DEF MarkOffline, Counted, TypeOK
  <2>2. Ready("monitor")
    BY <1>8 DEF MarkOffline, OneEach, Ready, Awaited
  <2> QED BY <1>8, <2>1, <2>2, OneMore, SnapshotType 
             DEF MarkOffline, OfflineRecord, history, Alerts
<1>9. ASSUME NEW a \in Ids, MarkStalled(a) PROVE OneEach'
  <2>1. Ready("monitor")
    BY <1>9 DEF MarkStalled, OneEach, Ready, Awaited
  <2> QED BY <1>9, <2>1, OneMore, SnapshotType DEF MarkStalled, history, Alerts
<1>10. CASE Tick \/ Restart
  <2>1. puts' = <<>> /\ hung' = {}
    BY <1>10 DEF Tick, Restart
  <2>2. DOMAIN puts' = {}
    BY <2>1
  <2> QED BY <2>1, <2>2 DEF OneEach
<1>11. CASE UNCHANGED vars \/ \E a \in Ids : Heartbeat(a)
  BY <1>11 DEF vars, Heartbeat, monitor, history, OneEach
<1> QED BY <1>1, <1>2, <1>3, <1>4, <1>6, <1>7, <1>8, <1>9, <1>10, <1>11, <1>12, <1>13
        DEF Next, Serve, Work, Answered, TimesOut, Watch

-----------------------------------------------------------------------------
(* Registration. *)

(* What was confirmed is saved, or a put for it got no answer; what is     *)
(* being saved, and what the monitor looks at, is known.                   *)
Found ==
    /\ used \ lost \subseteq known \cap Loaded
    /\ \A i \in DOMAIN puts : puts[i].id \in known
    /\ todo \subseteq known

(* A put for an agent that is known. *)
LEMMA KnownMore ==
    ASSUME TypeOK, Found, NEW by \in {"register", "report", "monitor"}, NEW a \in Ids,
           NEW r \in Record, NEW told \in Anons \union {None}, NEW alert \in Alerts,
           Put(by, a, r, told, alert), known \subseteq known', a \in known',
           UNCHANGED <<saved, used, lost>>, todo' \subseteq todo
    PROVE  Found'
<1>1. /\ Len(puts) \in Nat /\ DOMAIN puts = 1 .. Len(puts)
      /\ DOMAIN puts' = 1 .. Len(puts) + 1
      /\ \A i \in DOMAIN puts : puts'[i] = puts[i]
      /\ puts'[Len(puts) + 1] = [by |-> by, id |-> a, rec |-> r, told |-> told,
                                 alert |-> alert]
  BY IssuedPut
<1> QED BY <1>1 DEF Found, Loaded

LEMMA NextFound == TypeOK /\ OneEach /\ Found /\ [Next]_vars => Found'
<1> SUFFICES ASSUME TypeOK, OneEach, Found, [Next]_vars PROVE Found'
  OBVIOUS
<1> USE RegistryAssumption
<1>1. ASSUME NEW a \in Ids, RegisterKnown(a) PROVE Found'
  BY <1>1, KnownMore, SnapshotType DEF RegisterKnown, monitor, Alerts
<1>2. ASSUME NEW a \in Ids, RegisterByNumber(a) PROVE Found'
  BY <1>2, KnownMore, SnapshotType DEF RegisterByNumber, Create, monitor, Alerts
<1>3. ASSUME NEW w \in Anons, RegisterAnonymous(w) PROVE Found'
  <2>1. nextSerial + 1 \in Ids
    BY <1>3 DEF RegisterAnonymous, TypeOK, Ids
  <2> QED BY <1>3, <2>1, KnownMore, SnapshotType DEF RegisterAnonymous, Create, monitor, Alerts
<1>4. ASSUME NEW a \in Ids, NEW size \in {"empty", "some", "full"}, HealthReport(a, size)
      PROVE  Found'
  <2>1. CASE UNCHANGED <<puts, hung>>
    BY <1>4, <2>1 DEF HealthReport, monitor, history, Found, Loaded
  <2>2. CASE Put("report", a, [Snapshot(a) EXCEPT !.backlog = None], None, "online")
    BY <1>4, <2>2, KnownMore, SnapshotType DEF HealthReport, monitor, history, Alerts
  <2> QED BY <1>4, <2>1, <2>2 DEF HealthReport
<1>5. ASSUME puts # <<>>, puts' = Tail(puts), UNCHANGED <<known, todo>>, lost \subseteq lost',
             \/ Save(Head(puts)) /\ used' \subseteq used \union {Head(puts).id}
             \/ UNCHANGED <<saved, used>>
      PROVE  Found'
  <2>1. /\ DOMAIN puts' = 1 .. Len(puts) - 1 /\ Len(puts) \in Nat
        /\ \A i \in DOMAIN puts' : i + 1 \in DOMAIN puts /\ puts'[i] = puts[i + 1]
        /\ 1 \in DOMAIN puts /\ Head(puts) = puts[1] /\ puts[1] \in PutOnTheWay
    BY <1>5, FirstPutTaken
  <2>2. puts[1].id \in known \cap Ids /\ puts[1].rec \in Record /\ None \notin Record
    BY <2>1 DEF Found, PutOnTheWay, TypeOK, Record
  <2>3. \A a \in Ids : saved[a] # None => saved'[a] # None
    BY <1>5, <2>1, <2>2 DEF Save, TypeOK
  <2>4. \A a \in used' : a \in used \/ (a = puts[1].id /\ saved'[a] # None)
    BY <1>5, <2>1, <2>2 DEF Save, TypeOK
  <2> QED BY <1>5, <2>1, <2>2, <2>3, <2>4 DEF Found, Loaded
<1>6. CASE Work
  <2>1. CASE PutLands
    BY <1>5, <2>1 DEF PutLands, Resume, records
  <2>2. CASE PutHangs
    <3>1. lost \subseteq lost' /\ UNCHANGED <<known, todo, used>>
      BY <2>2 DEF PutHangs, records, monitor
    <3> QED BY <1>5, <2>2, <3>1 DEF PutHangs
  <2>3. ASSUME NEW p \in hung, PutTimesOut(p) PROVE Found'
    <3>1. /\ used' \subseteq used \union {p.id} /\ p.id \in lost
          /\ UNCHANGED <<known, todo, puts, saved, lost>>
      BY <2>3 DEF PutTimesOut, Resume, records, OneEach
    <3> QED BY <3>1 DEF Found, Loaded
  <2> QED BY <1>6, <2>1, <2>2, <2>3 DEF Work, Answered, TimesOut
<1>7. CASE StartPass \/ EndPass
  BY <1>7 DEF StartPass, EndPass, records, history, Found, Loaded
<1>8. ASSUME NEW a \in Ids, MarkOffline(a) PROVE Found'
  <2>1. Counted(a) \in 0 .. MaxCount
    BY <1>8 DEF MarkOffline, Counted, TypeOK
  <2> QED BY <1>8, <2>1, KnownMore, SnapshotType
             DEF MarkOffline, OfflineRecord, Found, history, Alerts
<1>9. ASSUME NEW a \in Ids, MarkStalled(a) PROVE Found'
  BY <1>9, KnownMore, SnapshotType DEF MarkStalled, Found, history, Alerts
<1>10. CASE Tick
  <2>1. \A a \in Ids : saved[a] # None => saved'[a] # None
    BY <1>10, SavedAges DEF Tick
  <2>2. UNCHANGED <<puts, known, used, lost, todo>>
    BY <1>10 DEF Tick
  <2> QED BY <2>1, <2>2 DEF Found, Loaded
<1>11. CASE Restart
  <2>1. DOMAIN puts' = {} /\ known' = Loaded /\ todo' = {} /\ UNCHANGED <<saved, used, lost>>
    BY <1>11 DEF Restart
  <2> QED BY <2>1 DEF Found, Loaded
<1>12. CASE UNCHANGED vars \/ \E a \in Ids : Heartbeat(a)
  BY <1>12 DEF vars, records, monitor, history, Heartbeat, Found, Loaded
<1> QED BY <1>1, <1>2, <1>3, <1>4, <1>6, <1>7, <1>8, <1>9, <1>10, <1>11, <1>12
        DEF Next, Serve, Watch

(* Whoever was told that it is registered is found, whenever the service   *)
(* restarts, unless a put of its record got no answer (registry.py, the    *)
(* answer in _handle_register follows _save_to_kv).                        *)
THEOREM ConfirmedIsFound == Spec => []AnsweredIsFound
<1> DEFINE IInv == TypeOK /\ OneEach /\ Found
<1>1. Init => IInv
  <2> SUFFICES ASSUME Init PROVE OneEach /\ Found
    BY InitTypeOK
  <2>1. DOMAIN puts = {} /\ hung = {} /\ used = {} /\ todo = {}
    BY DEF Init
  <2> QED BY <2>1 DEF OneEach, Found
<1>2. IInv /\ [Next]_vars => IInv'
  BY NextTypeOK, NextOneEach, NextFound
<1>3. IInv => AnsweredIsFound
  <2> SUFFICES ASSUME IInv, NEW a \in used \ lost
               PROVE  Lookup(a) # "not_found" /\ a \in DOMAIN List
    BY DEF AnsweredIsFound
  <2>1. a \in known /\ a \in Ids
    BY DEF Found, TypeOK
  <2>2. status[a] # "not_found"
    BY <2>1 DEF TypeOK
  <2> QED BY <2>1, <2>2 DEF Lookup, List
<1> QED BY <1>1, <1>2, <1>3, PTL DEF Spec

-----------------------------------------------------------------------------
(* Serial numbers. *)

(* A number that was told is saved and not ahead of the counter, unless a  *)
(* put for it got no answer, and a number about to be told has not been    *)
(* told.                                                                   *)
Numbered ==
    /\ \A w \in Anons : given[w] \in Ids \ lost =>
          given[w] <= nextSerial /\ saved[given[w]] # None
    /\ \A i \in DOMAIN puts : puts[i].told # None =>
          /\ puts[i].by = "register" /\ puts[i].id <= nextSerial
          /\ \A w \in Anons : given[w] = puts[i].id => given[w] \in lost
    /\ NumberGivenOnce

(* A put that tells nobody a number. *)
LEMMA SilentMore ==
    ASSUME TypeOK, Numbered, NEW by \in {"register", "report", "monitor"}, NEW a \in Ids,
           NEW r \in Record, NEW alert \in Alerts,
           Put(by, a, r, None, alert), UNCHANGED <<saved, nextSerial, given, lost>>
    PROVE  Numbered'
<1>1. /\ Len(puts) \in Nat /\ DOMAIN puts = 1 .. Len(puts)
      /\ DOMAIN puts' = 1 .. Len(puts) + 1
      /\ \A i \in DOMAIN puts : puts'[i] = puts[i]
      /\ puts'[Len(puts) + 1] = [by |-> by, id |-> a, rec |-> r, told |-> None,
                                 alert |-> alert]
  BY IssuedPut
<1> QED BY <1>1 DEF Numbered, NumberGivenOnce

LEMMA NextNumbered == TypeOK /\ OneEach /\ Numbered /\ [Next]_vars => Numbered'
<1> SUFFICES ASSUME TypeOK, OneEach, Numbered, [Next]_vars PROVE Numbered'
  OBVIOUS
<1> USE RegistryAssumption
<1>1. ASSUME NEW a \in Ids, RegisterKnown(a) PROVE Numbered'
  BY <1>1, SilentMore, SnapshotType DEF RegisterKnown, Alerts
<1>2. ASSUME NEW a \in Ids, RegisterByNumber(a) PROVE Numbered'
  BY <1>2, SilentMore, SnapshotType DEF RegisterByNumber, Create, Alerts
<1>3. ASSUME NEW v \in Anons, RegisterAnonymous(v) PROVE Numbered'
  <2> DEFINE n == nextSerial + 1
  <2>1. n \in Ids /\ nextSerial' = n /\ UNCHANGED <<saved, given, lost>>
    BY <1>3 DEF RegisterAnonymous, Create, TypeOK, Ids
  <2>2. Put("register", n, Blank, v, "none") /\ Ready("register")
    BY <1>3 DEF RegisterAnonymous, Create
  <2>3. /\ Len(puts) \in Nat /\ DOMAIN puts = 1 .. Len(puts)
        /\ DOMAIN puts' = 1 .. Len(puts) + 1
        /\ \A i \in DOMAIN puts : puts'[i] = puts[i]
        /\ puts'[Len(puts) + 1] = [by |-> "register", id |-> n, rec |-> Blank,
                                   told |-> v, alert |-> "none"]
    <3> HIDE DEF n
    <3> QED BY <2>1, <2>2, IssuedPut, SnapshotType DEF Alerts
  <2>4. \A i \in DOMAIN puts : puts[i].told = None
    BY <2>2 DEF Numbered, Ready, Awaited
  <2>5. \A w \in Anons : given[w] = n => given[w] \in lost
    BY <2>1 DEF Numbered, TypeOK
  <2>6. \A w \in Anons : given[w] \in Ids \ lost => given[w] <= n
    <3> SUFFICES ASSUME NEW w \in Anons, given[w] \in Ids \ lost PROVE given[w] <= n
      OBVIOUS
    <3>1. given[w] <= nextSerial
      BY DEF Numbered
    <3> QED BY <3>1 DEF TypeOK, Ids
  <2>7. n <= n
    BY <2>1 DEF Ids
  <2> HIDE DEF n
  <2> QED BY <2>1, <2>3, <2>4, <2>5, <2>6, <2>7 DEF Numbered, NumberGivenOnce
<1>4. ASSUME NEW a \in Ids, NEW size \in {"empty", "some", "full"}, HealthReport(a, size)
      PROVE  Numbered'
  <2>1. CASE UNCHANGED <<puts, hung>>
    BY <1>4, <2>1 DEF HealthReport, history, Numbered, NumberGivenOnce
  <2>2. CASE Put("report", a, [Snapshot(a) EXCEPT !.backlog = None], None, "online")
    BY <1>4, <2>2, SilentMore, SnapshotType DEF HealthReport, history, Alerts
  <2> QED BY <1>4, <2>1, <2>2 DEF HealthReport
<1>5. ASSUME puts # <<>>, puts' = Tail(puts), UNCHANGED nextSerial, lost \subseteq lost',
             Save(Head(puts)) \/ UNCHANGED saved
      PROVE  /\ \A a \in Ids : saved[a] # None => saved'[a] # None
             /\ given' = given => Numbered'
  <2>1. /\ \A i \in DOMAIN puts' : i + 1 \in DOMAIN puts /\ puts'[i] = puts[i + 1]
        /\ 1 \in DOMAIN puts /\ Head(puts) = puts[1] /\ puts[1] \in PutOnTheWay
    BY <1>5, FirstPutTaken
  <2>2. puts[1].id \in Ids /\ puts[1].rec \in Record /\ None \notin Record
    BY <2>1 DEF PutOnTheWay
  <2>3. \A a \in Ids : saved[a] # None => saved'[a] # None
    BY <1>5, <2>1, <2>2 DEF Save, TypeOK
  <2> QED BY <1>5, <2>1, <2>3 DEF Numbered, NumberGivenOnce
<1>6. CASE PutLands
  <2> DEFINE n == puts[1].id
  <2>1. /\ DOMAIN puts' = 1 .. Len(puts) - 1 /\ Len(puts) \in Nat
        /\ \A i \in DOMAIN puts' : i + 1 \in DOMAIN puts /\ puts'[i] = puts[i + 1]
        /\ 1 \in DOMAIN puts /\ Head(puts) = puts[1] /\ puts[1] \in PutOnTheWay
    BY <1>6, FirstPutTaken DEF PutLands
  <2>2. /\ puts # <<>> /\ puts' = Tail(puts) /\ nextSerial' = nextSerial /\ lost' = lost
        /\ Save(Head(puts))
    BY <1>6 DEF PutLands, Resume, records
  <2>3. n \in Ids /\ puts[1].rec \in Record /\ None \notin Record
    BY <2>1 DEF PutOnTheWay
  <2>4. \A a \in Ids : saved[a] # None => saved'[a] # None
    BY <1>5, <2>2
  <2>5. saved'[n] # None
    BY <2>1, <2>2, <2>3 DEF Save, TypeOK
  <2>6. CASE puts[1].told = None
    <3>1. given' = given
      BY <1>6, <2>1, <2>6 DEF PutLands, Resume
    <3> QED BY <1>5, <2>2, <3>1
  <2>7. CASE puts[1].told # None
    <3>1. given' = [given EXCEPT ![puts[1].told] = n] /\ puts[1].told \in Anons
      BY <1>6, <2>1, <2>7 DEF PutLands, Resume, PutOnTheWay
    <3>2. \A i \in DOMAIN puts' : puts'[i].told = None
      BY <2>1, <2>7 DEF Numbered, OneEach
    <3>3. n <= nextSerial /\ \A w \in Anons : given[w] = n => n \in lost
      BY <2>1, <2>7 DEF Numbered
    <3>4. \A w \in Anons : given'[w] = n \/ given'[w] = given[w]
      BY <3>1 DEF TypeOK
    <3>5. \A v, w \in Anons : v # w /\ given'[v] = n /\ given'[w] = n => n \in lost'
      BY <2>2, <3>1, <3>3 DEF TypeOK
    <3> HIDE DEF n
    <3>6. NumberGivenOnce'
      BY <2>2, <3>4, <3>5 DEF Numbered, NumberGivenOnce
    <3> QED BY <2>2, <2>4, <2>5, <3>2, <3>3, <3>4, <3>6 DEF Numbered
  <2> QED BY <2>6, <2>7
<1>7. CASE PutHangs
  <2>1. lost \subseteq lost' /\ UNCHANGED <<nextSerial, given>>
    BY <1>7 DEF PutHangs, records
  <2> QED BY <1>5, <1>7, <2>1 DEF PutHangs
<1>14. ASSUME NEW p \in hung, PutTimesOut(p) PROVE Numbered'
  <2>1. /\ p \in PutOnTheWay /\ p.id \in lost
        /\ given' = IF p.told = None THEN given ELSE [given EXCEPT ![p.told] = p.id]
        /\ UNCHANGED <<nextSerial, saved, puts, lost>>
    BY <1>14 DEF PutTimesOut, Resume, records, OneEach, TypeOK
  <2>2. \A w \in Anons : given'[w] = given[w] \/ given'[w] \in lost
    BY <2>1 DEF PutOnTheWay, TypeOK
  <2> QED BY <2>1, <2>2 DEF Numbered, NumberGivenOnce
<1>8. CASE StartPass \/ EndPass
  BY <1>8 DEF StartPass, EndPass, records, history, Numbered, NumberGivenOnce
<1>9. ASSUME NEW a \in Ids, MarkOffline(a) PROVE Numbered'
  <2>1. Counted(a) \in 0 .. MaxCount
    BY <1>9 DEF MarkOffline, Counted, TypeOK
  <2> QED BY <1>9, <2>1, SilentMore, SnapshotType DEF MarkOffline, OfflineRecord, history, Alerts
<1>10. ASSUME NEW a \in Ids, MarkStalled(a) PROVE Numbered'
  BY <1>10, SilentMore, SnapshotType DEF MarkStalled, history, Alerts
<1>11. CASE Tick
  <2>1. \A a \in Ids : saved[a] # None => saved'[a] # None
    BY <1>11, SavedAges DEF Tick
  <2>2. UNCHANGED <<puts, nextSerial, given, lost>>
    BY <1>11 DEF Tick
  <2> QED BY <2>1, <2>2 DEF Numbered, NumberGivenOnce
<1>12. CASE Restart
  <2>1. /\ DOMAIN puts' = {} /\ nextSerial' = Largest(Loaded)
        /\ UNCHANGED <<saved, given, lost>>
    BY <1>12 DEF Restart
  <2>2. \A a \in Loaded : a <= Largest(Loaded)
    BY LargestExists DEF Loaded
  <2>3. \A w \in Anons : given[w] \in Ids \ lost => given[w] \in Loaded
    BY DEF Numbered, Loaded
  <2> QED BY <2>1, <2>2, <2>3 DEF Numbered, NumberGivenOnce
<1>13. CASE UNCHANGED vars \/ \E a \in Ids : Heartbeat(a)
  BY <1>13 DEF vars, records, history, Heartbeat, Numbered, NumberGivenOnce
<1> QED BY <1>1, <1>2, <1>3, <1>4, <1>6, <1>7, <1>8, <1>9, <1>10, <1>11, <1>12, <1>13, <1>14
        DEF Next, Serve, Work, Answered, TimesOut, Watch

(* No two agents that registered without a number were told the same one,  *)
(* however often the service restarts from its bucket, unless a put for    *)
(* that number got no answer (registry.py, _alloc_serial, _load_from_kv).  *)
THEOREM NumbersDiffer == Spec => []NumberGivenOnce
<1> DEFINE IInv == TypeOK /\ OneEach /\ Numbered
<1>1. Init => IInv
  <2> SUFFICES ASSUME Init PROVE OneEach /\ Numbered
    BY InitTypeOK
  <2>1. DOMAIN puts = {} /\ hung = {} /\ \A w \in Anons : given[w] = None
    BY DEF Init
  <2>2. None \notin Ids
    BY RegistryAssumption DEF Ids
  <2> QED BY <2>1, <2>2 DEF OneEach, Numbered, NumberGivenOnce
<1>2. IInv /\ [Next]_vars => IInv'
  BY NextTypeOK, NextOneEach, NextNumbered
<1>3. IInv => NumberGivenOnce
  BY DEF Numbered
<1> QED BY <1>1, <1>2, <1>3, PTL DEF Spec

-----------------------------------------------------------------------------
(* Presence. *)

(* While the registry remembers when it heard an agent, the age of the     *)
(* record is the truth; after a restart it is at least no older than the   *)
(* service.                                                                *)
Aged ==
    /\ \A a \in Ids : /\ ~forgot[a] => gap[a] = silent[a]
                      /\ forgot[a] => silent[a] > Timeout \/ silent[a] >= uptime
    /\ OfflineMeansSilent

(* Whoever is heard is neither offline nor silent. *)
LEMMA HeardAged ==
    ASSUME TypeOK, Aged, NEW a \in Ids, Heard(a), UNCHANGED uptime
    PROVE  Aged'
BY DEF Heard, Aged, OfflineMeansSilent, TypeOK

LEMMA NextAged == TypeOK /\ Aged /\ [Next]_vars => Aged'
<1> SUFFICES ASSUME TypeOK, Aged, [Next]_vars PROVE Aged'
  OBVIOUS
<1> USE RegistryAssumption
<1>1. ASSUME NEW a \in Ids, RegisterKnown(a) \/ RegisterByNumber(a) \/ Heartbeat(a)
      PROVE  Aged'
  BY <1>1, HeardAged DEF RegisterKnown, RegisterByNumber, Create, Heartbeat, monitor
<1>2. ASSUME NEW w \in Anons, RegisterAnonymous(w) PROVE Aged'
  <2>1. nextSerial + 1 \in Ids
    BY <1>2 DEF RegisterAnonymous, TypeOK, Ids
  <2> QED BY <1>2, <2>1, HeardAged DEF RegisterAnonymous, Create, monitor
<1>3. ASSUME UNCHANGED <<gap, silent, forgot, uptime>>,
             \A a \in Ids : status'[a] = "offline" => status[a] = "offline"
      PROVE  Aged'
  BY <1>3 DEF Aged, OfflineMeansSilent
<1>4. ASSUME NEW a \in Ids, NEW size \in {"empty", "some", "full"}, HealthReport(a, size)
      PROVE  Aged'
  <2>1. \A b \in Ids : status'[b] = "offline" => status[b] = "offline"
    BY <1>4 DEF HealthReport, TypeOK
  <2> QED BY <1>3, <1>4, <2>1 DEF HealthReport, monitor, history
<1>5. CASE Work
  BY <1>3, <1>5 DEF Work, Answered, TimesOut, PutLands, PutHangs, PutTimesOut, Resume,
                      records, monitor
<1>6. CASE StartPass \/ EndPass \/ UNCHANGED vars
  BY <1>3, <1>6 DEF StartPass, EndPass, vars, records, monitor, history
<1>7. ASSUME NEW a \in Ids, MarkOffline(a) PROVE Aged'
  <2>1. /\ gap[a] > Timeout /\ uptime = Grace
        /\ status' = [status EXCEPT ![a] = "offline"]
        /\ UNCHANGED <<gap, silent, forgot, uptime>>
    BY <1>7 DEF MarkOffline, Overdue, InGrace, history, TypeOK
  <2>2. silent[a] > Timeout \/ (forgot[a] /\ silent[a] >= Grace)
    BY <2>1 DEF Aged, TypeOK
  <2> QED BY <2>1, <2>2 DEF Aged, OfflineMeansSilent, TypeOK
<1>8. ASSUME NEW a \in Ids, MarkStalled(a) PROVE Aged'
  <2>1. \A b \in Ids : status'[b] = "offline" => status[b] = "offline"
    BY <1>8 DEF MarkStalled, TypeOK
  <2> QED BY <1>3, <1>8, <2>1 DEF MarkStalled, history
<1>9. CASE Tick
  <2> SUFFICES ASSUME NEW a \in Ids
               PROVE  /\ ~forgot'[a] => gap'[a] = silent'[a]
                      /\ forgot'[a] => silent'[a] > Timeout \/ silent'[a] >= uptime'
                      /\ status'[a] = "offline" =>
                            silent'[a] > Timeout \/ (forgot'[a] /\ silent'[a] >= Grace)
    BY DEF Aged, OfflineMeansSilent
  <2>1. /\ gap'[a] = Upto(gap[a], Timeout + 1) /\ silent'[a] = Upto(silent[a], Timeout + 1)
        /\ uptime' = Upto(uptime, Grace) /\ UNCHANGED <<forgot, status>>
    BY <1>9 DEF Tick
  <2>2. /\ silent[a] \in 0 .. Timeout + 1 /\ uptime \in 0 .. Grace
        /\ Timeout \in Nat /\ Grace \in Nat
    BY DEF TypeOK
  <2>3. ~forgot[a] => gap[a] = silent[a]
    BY DEF Aged
  <2>4. forgot[a] => silent[a] > Timeout \/ silent[a] >= uptime
    BY DEF Aged
  <2>5. status[a] = "offline" => silent[a] > Timeout \/ (forgot[a] /\ silent[a] >= Grace)
    BY DEF Aged, OfflineMeansSilent
  <2> QED BY <2>1, <2>2, <2>3, <2>4, <2>5 DEF Upto
<1>10. CASE Restart
  BY <1>10 DEF Restart, Aged, OfflineMeansSilent, TypeOK
<1> QED BY <1>1, <1>2, <1>4, <1>5, <1>6, <1>7, <1>8, <1>9, <1>10
        DEF Next, Serve, Watch

(* The monitor calls an agent offline only after a time-out without a sign *)
(* of life, or after the whole grace period of a registry that restarted   *)
(* and cannot know (registry.py, _health_monitor).                         *)
THEOREM OfflineIsSilent == Spec => []OfflineMeansSilent
<1> DEFINE IInv == TypeOK /\ Aged
<1>1. Init => IInv
  BY InitTypeOK, RegistryAssumption DEF Init, Aged, OfflineMeansSilent
<1>2. IInv /\ [Next]_vars => IInv'
  BY NextTypeOK, NextAged
<1>3. IInv => OfflineMeansSilent
  BY DEF Aged
<1> QED BY <1>1, <1>2, <1>3, PTL DEF Spec

-----------------------------------------------------------------------------
(* Alerts. *)

(* The alert that the monitor is about to send is still true, or the agent *)
(* has come back; an alert that the agent is back is not overtaken by the  *)
(* one that says the contrary.                                             *)
Told ==
    /\ \A p \in Awaited : p.by = "monitor" => status[p.id] \in {p.alert, "online"}
    /\ \A i \in DOMAIN puts :
          puts[i].by # "monitor" /\ puts[i].alert # "none"
             /\ status[puts[i].id] # puts[i].alert =>
                \E j \in DOMAIN puts :
                   j > i /\ puts[j].by = "monitor" /\ puts[j].id = puts[i].id
    /\ \A i \in DOMAIN puts : puts[i].by # "monitor" => puts[i].alert \in {"none", "online"}
    /\ DownIsAnnounced

(* A callback that heard an agent issues a put. *)
LEMMA OnlineMore ==
    ASSUME TypeOK, Told, NEW by \in {"register", "report"}, NEW a \in Ids,
           NEW r \in Record, NEW told \in Anons \union {None}, NEW alert \in {"none", "online"},
           Put(by, a, r, told, alert), status' = [status EXCEPT ![a] = "online"],
           known' \subseteq known \union {a}, UNCHANGED <<announced, belated>>
    PROVE  Told'
<1> DEFINE p == [by |-> by, id |-> a, rec |-> r, told |-> told, alert |-> alert]
<1>1. /\ Len(puts) \in Nat /\ DOMAIN puts = 1 .. Len(puts)
      /\ DOMAIN puts' = 1 .. Len(puts) + 1
      /\ \A i \in DOMAIN puts : puts'[i] = puts[i]
      /\ puts'[Len(puts) + 1] = p
      /\ Awaited' = Awaited \union {puts'[Len(puts) + 1]}
  <2>1. alert \in Alerts
    BY DEF Alerts
  <2> QED BY <2>1, IssuedPut
<1>2. /\ \A i \in DOMAIN puts : puts[i].id \in Ids
      /\ \A q \in Awaited : q.id \in Ids
  BY PutsTyped DEF PutOnTheWay
<1>3. status'[a] = "online" /\ \A b \in Ids : b # a => status'[b] = status[b]
  BY DEF TypeOK
<1>4. \A q \in Awaited' : q.by = "monitor" => status'[q.id] \in {q.alert, "online"}
  BY <1>1, <1>2, <1>3 DEF Told
<1>5. \A i \in DOMAIN puts' : puts'[i].by # "monitor" => puts'[i].alert \in {"none", "online"}
  BY <1>1 DEF Told
<1>6. ASSUME NEW i \in DOMAIN puts', puts'[i].by # "monitor", puts'[i].alert # "none",
             status'[puts'[i].id] # puts'[i].alert
      PROVE  \E j \in DOMAIN puts' :
                j > i /\ puts'[j].by = "monitor" /\ puts'[j].id = puts'[i].id
  <2>1. i \in DOMAIN puts /\ puts[i].id # a
    BY <1>1, <1>3, <1>5, <1>6
  <2>2. PICK j \in DOMAIN puts : j > i /\ puts[j].by = "monitor" /\ puts[j].id = puts[i].id
    BY <1>1, <1>2, <1>3, <1>6, <2>1 DEF Told
  <2> QED BY <1>1, <2>1, <2>2
<1>7. DownIsAnnounced'
  <2> SUFFICES ASSUME NEW b \in known' \ belated', status'[b] # "online"
               PROVE  \/ announced'[b] = status'[b]
                      \/ \E q \in Awaited' : q.by = "monitor" /\ q.id = b
    BY DEF DownIsAnnounced
  <2>1. b # a /\ b \in known \ belated /\ status'[b] = status[b]
    BY <1>3 DEF TypeOK
  <2> HIDE DEF p
  <2> QED BY <1>1, <2>1 DEF Told, DownIsAnnounced
<1> QED BY <1>4, <1>5, <1>6, <1>7 DEF Told

(* The monitor issues a put about an agent that it found down. *)
LEMMA DownMore ==
    ASSUME TypeOK, Told, OneEach, NEW a \in Ids, NEW r \in Record,
           NEW alert \in {"offline", "stalled"}, pass = "runs",
           Put("monitor", a, r, None, alert), status' = [status EXCEPT ![a] = alert],
           UNCHANGED <<known, announced, belated>>
    PROVE  Told'
<1> DEFINE p == [by |-> "monitor", id |-> a, rec |-> r, told |-> None, alert |-> alert]
<1>1. /\ Len(puts) \in Nat /\ DOMAIN puts = 1 .. Len(puts)
      /\ DOMAIN puts' = 1 .. Len(puts) + 1
      /\ \A i \in DOMAIN puts : puts'[i] = puts[i]
      /\ puts'[Len(puts) + 1] = p
      /\ Awaited' = Awaited \union {puts'[Len(puts) + 1]}
  <2>1. alert \in Alerts
    BY DEF Alerts
  <2> QED BY <2>1, IssuedPut
<1>2. /\ \A i \in DOMAIN puts : puts[i].id \in Ids /\ puts[i].by # "monitor"
      /\ \A q \in Awaited : q.by # "monitor"
  BY PutsTyped DEF PutOnTheWay, OneEach, Awaited
<1>3. status'[a] = alert /\ \A b \in Ids : b # a => status'[b] = status[b]
  BY DEF TypeOK
<1>4. \A q \in Awaited' : q.by = "monitor" => status'[q.id] \in {q.alert, "online"}
  BY <1>1, <1>2, <1>3
<1>5. \A i \in DOMAIN puts' : puts'[i].by # "monitor" => puts'[i].alert \in {"none", "online"}
  BY <1>1 DEF Told
<1>6. ASSUME NEW i \in DOMAIN puts', puts'[i].by # "monitor", puts'[i].alert # "none",
             status'[puts'[i].id] # puts'[i].alert
      PROVE  \E j \in DOMAIN puts' :
                j > i /\ puts'[j].by = "monitor" /\ puts'[j].id = puts'[i].id
  <2>1. i \in DOMAIN puts /\ puts'[i] = puts[i]
    BY <1>1, <1>6
  <2>2. CASE puts[i].id = a
    BY <1>1, <2>1, <2>2
  <2>3. CASE puts[i].id # a
    <3>1. PICK j \in DOMAIN puts : j > i /\ puts[j].by = "monitor" /\ puts[j].id = puts[i].id
      BY <1>2, <1>3, <1>6, <2>1, <2>3 DEF Told
    <3> QED BY <1>1, <2>1, <3>1
  <2> QED BY <2>2, <2>3
<1>7. DownIsAnnounced'
  <2> SUFFICES ASSUME NEW b \in known' \ belated', status'[b] # "online", b # a
               PROVE  \/ announced'[b] = status'[b]
                      \/ \E q \in Awaited' : q.by = "monitor" /\ q.id = b
    BY <1>1 DEF DownIsAnnounced
  <2>1. b \in known \ belated /\ status'[b] = status[b]
    BY <1>3 DEF TypeOK
  <2> HIDE DEF p
  <2> QED BY <1>1, <2>1 DEF Told, DownIsAnnounced
<1> QED BY <1>4, <1>5, <1>6, <1>7 DEF Told

(* The first put leaves the others in their order. *)
LEMMA TakenTold ==
    ASSUME TypeOK, Told, puts # <<>>, puts' = Tail(puts), UNCHANGED status,
           hung' \subseteq hung \union {Head(puts)}
    PROVE  /\ \A p \in Awaited' : p.by = "monitor" => status'[p.id] \in {p.alert, "online"}
           /\ \A i \in DOMAIN puts' :
                 puts'[i].by # "monitor" /\ puts'[i].alert # "none"
                    /\ status'[puts'[i].id] # puts'[i].alert =>
                       \E j \in DOMAIN puts' :
                          j > i /\ puts'[j].by = "monitor" /\ puts'[j].id = puts'[i].id
           /\ \A i \in DOMAIN puts' : puts'[i].by # "monitor" => puts'[i].alert \in {"none", "online"}
<1>1. /\ DOMAIN puts' = 1 .. Len(puts) - 1 /\ Len(puts) \in Nat
      /\ \A i \in DOMAIN puts' : i + 1 \in DOMAIN puts /\ puts'[i] = puts[i + 1]
      /\ 1 \in DOMAIN puts /\ DOMAIN puts = 1 .. Len(puts)
      /\ Head(puts) = puts[1]
      /\ \A i \in DOMAIN puts : i # 1 => i - 1 \in DOMAIN puts' /\ puts'[i - 1] = puts[i]
  BY FirstPutTaken
<1>2. Awaited' \subseteq Awaited
  BY <1>1 DEF Awaited
<1>3. ASSUME NEW i \in DOMAIN puts', puts'[i].by # "monitor", puts'[i].alert # "none",
             status'[puts'[i].id] # puts'[i].alert
      PROVE  \E j \in DOMAIN puts' :
                j > i /\ puts'[j].by = "monitor" /\ puts'[j].id = puts'[i].id
  <2>1. PICK j \in DOMAIN puts :
           j > i + 1 /\ puts[j].by = "monitor" /\ puts[j].id = puts[i + 1].id
    BY <1>1, <1>3 DEF Told
  <2>2. j - 1 \in DOMAIN puts' /\ puts'[j - 1] = puts[j] /\ j - 1 > i
    BY <1>1, <2>1
  <2> QED BY <1>1, <2>1, <2>2
<1> QED BY <1>1, <1>2, <1>3 DEF Told

(* The first put is answered, and its callback sends its alert. *)
LEMMA LandsTold ==
    ASSUME TypeOK, Told, PutLands
    PROVE  Told'
<1> DEFINE p == puts[1]
<1>1. /\ puts # <<>> /\ puts' = Tail(puts) /\ hung' = hung
      /\ status' = status /\ known' = known
  BY DEF PutLands, Resume, records
<1>2. /\ 1 \in DOMAIN puts /\ Head(puts) = p /\ p \in PutOnTheWay
      /\ DOMAIN puts = 1 .. Len(puts) /\ Len(puts) \in Nat
      /\ \A i \in DOMAIN puts : i # 1 => i - 1 \in DOMAIN puts' /\ puts'[i - 1] = puts[i]
  BY <1>1, FirstPutTaken
<1>3. /\ p.alert = "none" => UNCHANGED <<announced, belated>>
      /\ p.alert # "none" => /\ announced' = [announced EXCEPT ![p.id] = p.alert]
                             /\ belated' = belated \ {p.id}
  BY <1>2 DEF PutLands, Alert, alerts
<1>4. p \in Awaited /\ p.id \in Ids
  BY <1>2, PutsTyped DEF PutOnTheWay
<1>5. \A q \in Awaited : q = p \/ q \in Awaited'
  BY <1>1, <1>2 DEF Awaited
<1>6. DownIsAnnounced'
  <2> SUFFICES ASSUME NEW b \in known \ belated', status[b] # "online",
                      \A q \in Awaited' : ~ (q.by = "monitor" /\ q.id = b)
               PROVE  announced'[b] = status[b]
    BY <1>1 DEF DownIsAnnounced
  <2>1. b \in Ids
    BY DEF TypeOK
  <2>2. CASE p.by = "monitor" /\ p.id = b
    <3>1. status[b] = p.alert
      BY <1>4, <2>2 DEF Told
    <3>2. p.alert # "none"
      BY <2>1, <3>1 DEF TypeOK
    <3> HIDE DEF p
    <3> QED BY <1>3, <2>1, <2>2, <3>1, <3>2 DEF TypeOK
  <2>3. CASE ~ (p.by = "monitor" /\ p.id = b)
    <3>1. p.id = b => p.alert = "none"
      <4> SUFFICES ASSUME p.id = b, p.alert # "none" PROVE FALSE
        OBVIOUS
      <4>1. p.by # "monitor" /\ p.alert = "online"
        BY <1>2, <2>3 DEF Told
      <4>2. PICK j \in DOMAIN puts : j > 1 /\ puts[j].by = "monitor" /\ puts[j].id = p.id
        BY <1>2, <4>1 DEF Told
      <4>3. puts[j] \in Awaited'
        BY <1>2, <4>2 DEF Awaited
      <4> QED BY <4>2, <4>3
    <3>2. b \notin belated /\ announced'[b] = announced[b]
      <4> HIDE DEF p
      <4> QED BY <1>3, <1>4, <2>1, <3>1 DEF TypeOK
    <3>3. \A q \in Awaited : ~ (q.by = "monitor" /\ q.id = b)
      BY <1>5, <2>3
    <3> QED BY <3>2, <3>3 DEF Told, DownIsAnnounced
  <2> QED BY <2>2, <2>3
<1>7. hung' \subseteq hung \union {Head(puts)}
  BY <1>1
<1> QED BY <1>1, <1>6, <1>7, TakenTold DEF Told

(* The first put gets no answer: its callback still awaits it. *)
LEMMA HangsTold ==
    ASSUME TypeOK, Told, PutHangs
    PROVE  Told'
<1>1. /\ puts # <<>> /\ puts' = Tail(puts) /\ hung' = hung \union {Head(puts)}
      /\ UNCHANGED <<known, status, announced, belated>>
  BY DEF PutHangs, records, alerts
<1>2. /\ Head(puts) = puts[1]
      /\ \A i \in DOMAIN puts : i # 1 => i - 1 \in DOMAIN puts' /\ puts'[i - 1] = puts[i]
  BY <1>1, FirstPutTaken
<1>3. Awaited \subseteq Awaited'
  BY <1>1, <1>2 DEF Awaited
<1>4. DownIsAnnounced'
  BY <1>1, <1>3 DEF Told, DownIsAnnounced
<1> QED BY <1>1, <1>4, TakenTold DEF Told

(* A put times out: if its callback was not the monitor, its alert comes   *)
(* late.                                                                   *)
LEMMA TimesOutTold ==
    ASSUME TypeOK, Told, NEW p \in hung, PutTimesOut(p)
    PROVE  Told'
<1>1. /\ puts' = puts /\ hung' = hung \ {p}
      /\ status' = status /\ known' = known
  BY DEF PutTimesOut, Resume, records
<1>2. /\ p.alert = "none" => UNCHANGED <<announced, belated>>
      /\ p.alert # "none" =>
            /\ announced' = [announced EXCEPT ![p.id] = p.alert]
            /\ belated' = IF p.by = "monitor" THEN belated \ {p.id}
                          ELSE belated \union {p.id}
  BY DEF PutTimesOut, alerts
<1>3. p \in Awaited /\ p.id \in Ids
  BY PutsTyped DEF Awaited, PutOnTheWay
<1>4. Awaited' \subseteq Awaited /\ \A q \in Awaited : q = p \/ q \in Awaited'
  BY <1>1 DEF Awaited
<1>5. DownIsAnnounced'
  <2> SUFFICES ASSUME NEW b \in known \ belated', status[b] # "online",
                      \A q \in Awaited' : ~ (q.by = "monitor" /\ q.id = b)
               PROVE  announced'[b] = status[b]
    BY <1>1 DEF DownIsAnnounced
  <2>1. b \in Ids
    BY DEF TypeOK
  <2>2. CASE p.by = "monitor" /\ p.id = b
    <3>1. status[b] = p.alert
      BY <1>3, <2>2 DEF Told
    <3>2. p.alert # "none"
      BY <2>1, <3>1 DEF TypeOK
    <3> QED BY <1>2, <2>1, <2>2, <3>1, <3>2 DEF TypeOK
  <2>3. CASE ~ (p.by = "monitor" /\ p.id = b)
    <3>1. p.id = b => p.alert = "none"
      BY <1>2, <2>3
    <3>2. b \notin belated /\ announced'[b] = announced[b]
      BY <1>2, <1>3, <2>1, <3>1 DEF TypeOK
    <3>3. \A q \in Awaited : ~ (q.by = "monitor" /\ q.id = b)
      BY <1>4, <2>3
    <3> QED BY <3>2, <3>3 DEF Told, DownIsAnnounced
  <2> QED BY <2>2, <2>3
<1> QED BY <1>1, <1>4, <1>5 DEF Told

LEMMA NextTold == TypeOK /\ OneEach /\ Told /\ [Next]_vars => Told'
<1> SUFFICES ASSUME TypeOK, OneEach, Told, [Next]_vars PROVE Told'
  OBVIOUS
<1> USE RegistryAssumption
<1>1. ASSUME NEW a \in Ids, RegisterKnown(a) PROVE Told'
  BY <1>1, OnlineMore, SnapshotType DEF RegisterKnown, Heard, alerts
<1>2. ASSUME NEW a \in Ids, RegisterByNumber(a) PROVE Told'
  BY <1>2, OnlineMore, SnapshotType DEF RegisterByNumber, Create, Heard, alerts
<1>3. ASSUME NEW w \in Anons, RegisterAnonymous(w) PROVE Told'
  <2>1. nextSerial + 1 \in Ids
    BY <1>3 DEF RegisterAnonymous, TypeOK, Ids
  <2> QED BY <1>3, <2>1, OnlineMore, SnapshotType
             DEF RegisterAnonymous, Create, Heard, alerts
<1>4. ASSUME NEW a \in Ids, Heartbeat(a) PROVE Told'
  <2>1. /\ status' = [status EXCEPT ![a] = "online"]
        /\ \/ UNCHANGED <<announced, belated>>
           \/ /\ announced' = [announced EXCEPT ![a] = "online"]
              /\ belated' = belated \ {a}
        /\ UNCHANGED <<puts, hung, known>>
    BY <1>4 DEF Heartbeat, Heard, Alert, alerts
  <2>2. /\ \A i \in DOMAIN puts : puts[i].id \in Ids
        /\ \A q \in Awaited : q.id \in Ids
        /\ Awaited' = Awaited
    BY <2>1, PutsTyped DEF PutOnTheWay, Awaited
  <2>3. status'[a] = "online" /\ \A b \in Ids : b # a => status'[b] = status[b]
    BY <2>1 DEF TypeOK
  <2>4. \A b \in Ids : b # a => /\ announced'[b] = announced[b]
                                 /\ b \notin belated' => b \notin belated
    BY <2>1 DEF TypeOK
  <2>5. DownIsAnnounced'
    BY <2>1, <2>2, <2>3, <2>4 DEF Told, DownIsAnnounced, TypeOK
  <2> QED BY <2>1, <2>2, <2>3, <2>5 DEF Told
<1>5. ASSUME NEW a \in Ids, NEW size \in {"empty", "some", "full"}, HealthReport(a, size)
      PROVE  Told'
  <2>1. CASE UNCHANGED <<status, puts, hung>>
    BY <1>5, <2>1 DEF HealthReport, history, alerts, Told, DownIsAnnounced, Awaited
  <2>2. CASE /\ status' = [status EXCEPT ![a] = "online"]
             /\ Put("report", a, [Snapshot(a) EXCEPT !.backlog = None], None, "online")
    BY <1>5, <2>2, OnlineMore, SnapshotType DEF HealthReport, history, alerts
  <2> QED BY <1>5, <2>1, <2>2 DEF HealthReport
<1>6. CASE Work
  BY <1>6, LandsTold, HangsTold, TimesOutTold DEF Work, Answered, TimesOut
<1>7. CASE StartPass \/ EndPass
  BY <1>7 DEF StartPass, EndPass, records, history, alerts, Told, DownIsAnnounced, Awaited
<1>8. ASSUME NEW a \in Ids, MarkOffline(a) PROVE Told'
  <2>1. Counted(a) \in 0 .. MaxCount
    BY <1>8 DEF MarkOffline, Counted, TypeOK
  <2> QED BY <1>8, <2>1, DownMore, SnapshotType
             DEF MarkOffline, OfflineRecord, history, alerts
<1>9. ASSUME NEW a \in Ids, MarkStalled(a) PROVE Told'
  BY <1>9, DownMore, SnapshotType DEF MarkStalled, history, alerts
<1>10. CASE Tick \/ UNCHANGED vars
  <2>1. UNCHANGED <<known, status, puts, hung, announced, belated>>
    BY <1>10 DEF Tick, vars, records, history, alerts
  <2> QED BY <2>1 DEF Told, DownIsAnnounced, Awaited
<1>11. CASE Restart
  <2>1. DOMAIN puts' = {} /\ hung' = {} /\ \A a \in Ids : status'[a] = "online"
    BY <1>11 DEF Restart
  <2>2. known' \subseteq Ids
    BY <1>11 DEF Restart, Loaded
  <2> QED BY <2>1, <2>2 DEF Told, DownIsAnnounced, Awaited
<1> QED BY <1>1, <1>2, <1>3, <1>4, <1>5, <1>6, <1>7, <1>8, <1>9, <1>10, <1>11
        DEF Next, Serve, Watch

(* The last alert about an agent that is down says so, or the monitor is   *)
(* about to send it: no answer to a registration or a report overtakes it, *)
(* except one whose put had timed out (registry.py, the alerts after each  *)
(* _save_to_kv).                                                           *)
THEOREM DownAnnounced == Spec => []DownIsAnnounced
<1> DEFINE IInv == TypeOK /\ OneEach /\ Told
<1>1. Init => IInv
  <2> SUFFICES ASSUME Init PROVE OneEach /\ Told
    BY InitTypeOK
  <2>1. DOMAIN puts = {} /\ hung = {} /\ known = {}
    BY DEF Init
  <2> QED BY <2>1 DEF OneEach, Told, DownIsAnnounced, Awaited
<1>2. IInv /\ [Next]_vars => IInv'
  BY NextTypeOK, NextOneEach, NextTold
<1>3. IInv => DownIsAnnounced
  BY DEF Told
<1> QED BY <1>1, <1>2, <1>3, PTL DEF Spec

=============================================================================
