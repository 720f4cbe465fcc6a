---------------------------- MODULE GroupsProofs ----------------------------
(***************************************************************************)
(* What Groups promises, for any agents, any commands, and any number of   *)
(* crashes, timeouts and failing puts.  Chain says what the order of puts  *)
(* and answers on the connection of the service keeps true of an agent     *)
(* that was told it is in; Latest, that the last record on its way is the  *)
(* one in memory; Reaches, that a member has been sent the announcement or *)
(* will be; Hears, that the notices on their way, in the client's inbox    *)
(* and behind its subscription, and the stored record it would start from, *)
(* let every member hear the group.                                        *)
(***************************************************************************)
EXTENDS Groups, SequenceTheorems, WellFoundedInduction, TLAPS

(* Any set of numbers that is not empty has a smallest one. *)
LEMMA SmallestExists ==
    ASSUME NEW S \in SUBSET Nat, S # {}
    PROVE  Min(S) \in S
<1>1. \E m \in S : \A n \in S : ~(<<n, m>> \in OpToRel(<, Nat))
  <2>1. S \subseteq Nat /\ S # {}
    OBVIOUS
  <2> QED BY <2>1, WFMin, NatLessThanWellFounded, Zenon
<1>2. \A m, n \in Nat : ~(<<n, m>> \in OpToRel(<, Nat)) => m <= n
  BY DEF OpToRel
<1>3. \E m \in S : \A n \in S : m <= n
  BY <1>1, <1>2
<1> QED BY <1>3 DEF Min

(* Removing one agent keeps every other in the list. *)
LEMMA RemoveFirstKeeps ==
    ASSUME NEW list \in Seq(Agents), NEW a
    PROVE  /\ RemoveFirst(list, a) \in Seq(Agents)
           /\ \A b \in ToSet(list) \ {a} : b \in ToSet(RemoveFirst(list, a))
<1>1. CASE ~ \E i \in 1 .. Len(list) : list[i] = a
  BY <1>1 DEF RemoveFirst
<1>2. CASE \E i \in 1 .. Len(list) : list[i] = a
  <2> DEFINE k == SelectInSeq(list, LAMBDA v : v = a)
  <2>1. k \in 1 .. Len(list) /\ list[k] = a
    <3> DEFINE I == {i \in 1 .. Len(list) : list[i] = a}
    <3>1. I # {} /\ I \subseteq Nat
      BY <1>2
    <3>2. k = Min(I)
      BY <3>1 DEF SelectInSeq
    <3>3. Min(I) \in I
      <4> HIDE DEF I
      <4> QED BY <3>1, SmallestExists
    <3> QED BY <3>2, <3>3
  <2>2. RemoveFirst(list, a) = RemoveAt(list, k)
    BY <1>2 DEF RemoveFirst
  <2> HIDE DEF k
  <2> DEFINE front == SubSeq(list, 1, k - 1)
             back == SubSeq(list, k + 1, Len(list))
  <2>3. /\ front \in Seq(Agents) /\ Len(front) = k - 1
        /\ \A i \in 1 .. k - 1 : front[i] = list[i]
    BY <2>1
  <2>4. /\ back \in Seq(Agents) /\ Len(back) = Len(list) - k
        /\ \A i \in 1 .. Len(list) - k : back[i] = list[i + k]
    BY <2>1
  <2>5. RemoveAt(list, k) = front \o back
    BY DEF RemoveAt
  <2> HIDE DEF front, back
  <2>6. front \o back \in Seq(Agents)
    BY <2>3, <2>4
  <2>7. ASSUME NEW b \in ToSet(list), b # a
        PROVE  b \in ToSet(front \o back)
    <3>1. PICK i \in 1 .. Len(list) : list[i] = b
      BY DEF ToSet
    <3>2. CASE i < k
      <4>1. (front \o back)[i] = b /\ i \in 1 .. Len(front \o back)
        BY <2>1, <2>3, <2>4, <3>1, <3>2
      <4> QED BY <2>6, <4>1 DEF ToSet
    <3>3. CASE i > k
      <4>1. i - 1 \in 1 .. Len(front) + Len(back) /\ i - 1 > Len(front)
        BY <2>1, <2>3, <2>4, <3>1, <3>3
      <4>2. (front \o back)[i - 1] = back[i - 1 - Len(front)]
        BY <2>3, <2>4, <4>1, ConcatProperties
      <4>3. i - 1 - Len(front) = i - k /\ i - k \in 1 .. Len(list) - k
        BY <2>1, <2>3, <3>1, <3>3
      <4>4. (front \o back)[i - 1] = b
        BY <2>1, <2>4, <3>1, <4>2, <4>3
      <4>5. i - 1 \in DOMAIN (front \o back)
        BY <2>3, <2>4, <4>1, ConcatProperties
      <4> QED BY <4>4, <4>5 DEF ToSet
    <3> QED BY <2>1, <2>7, <3>1, <3>2, <3>3
  <2> QED BY <2>2, <2>5, <2>6, <2>7
<1> QED BY <1>1, <1>2

-----------------------------------------------------------------------------
(* What is on its way out of the service. *)

Awaited(x) == x.do \in {"put", "get", "announce"}

(* A handler awaits what is on its way for its subject: it is at the stage *)
(* that goes with it.                                                      *)
Fits(x, w) ==
    LET s == x.subject IN
    /\ w[s] # None
    /\ x.do = "announce" <=> s = "announce"
    /\ x.do = "get" => /\ s \in {"join", "approve"}
                       /\ w[s].stage = IF s = "join" THEN "get" ELSE "admit"
    /\ x.do = "put" /\ s = "join" => w[s].stage \in {"save", "admit"}
    /\ x.do = "put" /\ s = "approve" => w[s].stage = "save"

Free(s, q) == \A i \in DOMAIN q : Awaited(q[i]) => q[i].subject # s

(* One thing is on its way for each handler at most. *)
AwaitsIn(q, w) ==
    /\ \A i \in DOMAIN q : Awaited(q[i]) => Fits(q[i], w)
    /\ \A i, k \in DOMAIN q :
          Awaited(q[i]) /\ Awaited(q[k]) /\ i # k => q[i].subject # q[k].subject

Awaits == AwaitsIn(out, work)

Pushes(q) == \A i \in DOMAIN q : q[i].do = "push"

LEMMA AwaitsAppend ==
    ASSUME NEW q \in Seq(Item), NEW x \in Item, NEW w, AwaitsIn(q, w),
           Awaited(x) => Fits(x, w) /\ Free(x.subject, q)
    PROVE  Append(q, x) \in Seq(Item) /\ AwaitsIn(Append(q, x), w)
<1>1. /\ Append(q, x) \in Seq(Item) /\ DOMAIN Append(q, x) = 1 .. Len(q) + 1
      /\ Append(q, x)[Len(q) + 1] = x
      /\ \A i \in 1 .. Len(q) : Append(q, x)[i] = q[i]
  OBVIOUS
<1>2. DOMAIN q = 1 .. Len(q) /\ Len(q) \in Nat
  OBVIOUS
<1>3. \A i \in DOMAIN Append(q, x) : i \in DOMAIN q \/ i = Len(q) + 1
  BY <1>1, <1>2
<1> QED BY <1>1, <1>2, <1>3 DEF AwaitsIn, Free

LEMMA FreeAppend ==
    ASSUME NEW q \in Seq(Item), NEW x \in Item, NEW s, Free(s, q),
           Awaited(x) => x.subject # s
    PROVE  Free(s, Append(q, x))
BY DEF Free

LEMMA AwaitsPushes ==
    ASSUME NEW q \in Seq(Item), NEW p \in Seq(Item), Pushes(p), NEW w, AwaitsIn(q, w)
    PROVE  q \o p \in Seq(Item) /\ AwaitsIn(q \o p, w)
<1>1. /\ q \o p \in Seq(Item) /\ DOMAIN (q \o p) = 1 .. Len(q) + Len(p)
      /\ \A i \in 1 .. Len(q) + Len(p) : (q \o p)[i] =
                     IF i <= Len(q) THEN q[i] ELSE p[i - Len(q)]
  BY ConcatProperties
<1>2. \A i \in 1 .. Len(q) + Len(p) : i > Len(q) => i - Len(q) \in DOMAIN p
  OBVIOUS
<1>3. \A i \in DOMAIN (q \o p) :
         Awaited((q \o p)[i]) => i \in DOMAIN q /\ (q \o p)[i] = q[i]
  BY <1>1, <1>2 DEF Pushes, Awaited
<1> QED BY <1>1, <1>3 DEF AwaitsIn

LEMMA FreePushes ==
    ASSUME NEW q \in Seq(Item), NEW p \in Seq(Item), Pushes(p), NEW s, Free(s, q)
    PROVE  Free(s, q \o p)
<1>1. /\ DOMAIN (q \o p) = 1 .. Len(q) + Len(p)
      /\ \A i \in 1 .. Len(q) + Len(p) : (q \o p)[i] =
                     IF i <= Len(q) THEN q[i] ELSE p[i - Len(q)]
  BY ConcatProperties
<1>2. \A i \in 1 .. Len(q) + Len(p) : i > Len(q) => i - Len(q) \in DOMAIN p
  OBVIOUS
<1> QED BY <1>1, <1>2 DEF Pushes, Awaited, Free

LEMMA AwaitsTail ==
    ASSUME NEW q \in Seq(Item), q # <<>>, NEW w, AwaitsIn(q, w)
    PROVE  /\ Head(q) \in Item /\ Tail(q) \in Seq(Item) /\ AwaitsIn(Tail(q), w)
           /\ Awaited(Head(q)) => Fits(Head(q), w) /\ Free(Head(q).subject, Tail(q))
<1>1. /\ Head(q) \in Item /\ Head(q) = q[1] /\ Tail(q) \in Seq(Item) /\ 1 \in DOMAIN q
      /\ \A i \in DOMAIN Tail(q) : i + 1 \in DOMAIN q /\ i + 1 # 1 /\ Tail(q)[i] = q[i + 1]
      /\ \A i, k \in DOMAIN Tail(q) : i # k => i + 1 # k + 1
  OBVIOUS
<1> QED BY <1>1 DEF AwaitsIn, Free

(* The stage of a handler matters to what it awaits only. *)
LEMMA AwaitsOther ==
    ASSUME NEW q \in Seq(Item), NEW s, NEW w, NEW v, AwaitsIn(q, w), Free(s, q),
           \A t \in Subjects \ {s} : v[t] = w[t]
    PROVE  AwaitsIn(q, v)
<1>1. \A i \in DOMAIN q : Awaited(q[i]) => q[i].subject \in Subjects \ {s}
  BY DEF Free, Awaited, Item, Subjects
<1> QED BY <1>1 DEF AwaitsIn, Fits

LEMMA FreeOfIdle ==
    ASSUME NEW q, NEW s, NEW w, AwaitsIn(q, w), w[s] = None
    PROVE  Free(s, q)
BY DEF AwaitsIn, Fits, Free

(* Two things issued at once are issued one after the other. *)
LEMMA Issued ==
    ASSUME NEW q \in Seq(Item), NEW x \in Item, NEW y \in Item
    PROVE  q \o <<x>> = Append(q, x) /\ q \o <<x, y>> = Append(Append(q, x), y)
<1>1. <<x>> \in Seq(Item) /\ <<y>> \in Seq(Item)
  OBVIOUS
<1>2. q \o <<x>> = Append(q, x) /\ Append(q, x) \o <<y>> = Append(Append(q, x), y)
  BY AppendIsConcat
<1>3. q \o <<x, y>> = (q \o <<x>>) \o <<y>>
  <2>1. <<x, y>> = <<x>> \o <<y>>
    <3>1. /\ <<x>> \o <<y>> \in Seq(Item) /\ Len(<<x>> \o <<y>>) = 2
          /\ (<<x>> \o <<y>>)[1] = x /\ (<<x>> \o <<y>>)[2] = y
      <4>1. Len(<<x>>) = 1 /\ Len(<<y>>) = 1 /\ <<x>>[1] = x /\ <<y>>[1] = y
        OBVIOUS
      <4> QED BY <1>1, <4>1, ConcatProperties
    <3>2. <<x, y>> \in Seq(Item) /\ Len(<<x, y>>) = 2 /\ <<x, y>>[1] = x /\ <<x, y>>[2] = y
      OBVIOUS
    <3>3. \A i \in 1 .. 2 : i = 1 \/ i = 2
      OBVIOUS
    <3> QED BY <3>1, <3>2, <3>3, SeqEqual
  <2> QED BY <1>1, <2>1, ConcatAssociative
<1> QED BY <1>2, <1>3

(* A record as it is written: the statuses become text. *)
LEMMA WrittenType ==
    ASSUME NEW m \in Seq(Agents), NEW p \in [Agents -> Statuses]
    PROVE  /\ Written(m, p) \in GroupRecord /\ Written(m, p) # None
           /\ Written(m, p).members = m
<1>1. \A status \in Statuses : Text(status) \in Texts
  BY DEF Text, Statuses, Texts
<1>2. [a \in Agents |-> Text(p[a])] \in [Agents -> Texts]
  <2> DEFINE g == [a \in Agents |-> Text(p[a])]
  <2>1. \A a \in Agents : g[a] \in Texts
    BY <1>1
  <2> QED BY <2>1
<1>3. Written(m, p) \in GroupRecord
  BY <1>2 DEF Written, GroupRecord
<1> QED BY <1>3, ManagerAssumption DEF Written

LEMMA RecordType ==
    ASSUME TypeOK
    PROVE  Record \in GroupRecord /\ Record # None /\ Record.members = members
BY WrittenType DEF TypeOK, Record

(* What was read is written as it is. *)
LEMMA WrittenText ==
    ASSUME NEW rec \in GroupRecord
    PROVE  Written(rec.members, rec.pending) = rec
<1>1. /\ rec = [members |-> rec.members, pending |-> rec.pending]
      /\ rec.pending \in [Agents -> Texts]
  BY DEF GroupRecord
<1>2. \A status \in Texts : Text(status) = status
  BY DEF Text, Texts
<1>3. [a \in Agents |-> Text(rec.pending[a])] = rec.pending
  BY <1>1, <1>2
<1> QED BY <1>1, <1>3 DEF Written

(* What the service issues. *)
LEMMA ItemType ==
    /\ \A s \in Subjects : Get(s) \in Item /\ Get(s).do = "get" /\ Get(s).subject = s
    /\ \A s \in Subjects, m \in Seq(Agents), p \in [Agents -> Statuses] :
          /\ PutGroup(s, m, p) \in Item /\ PutGroup(s, m, p).do = "put"
          /\ PutGroup(s, m, p).subject = s /\ PutGroup(s, m, p).rec.members = m
    /\ /\ PutAnnouncement \in Item /\ PutAnnouncement.do = "announce"
       /\ PutAnnouncement.subject = "announce"
    /\ \A a \in Agents, action \in {"added", "removed"} :
          Notice(a, action) \in Item /\ Notice(a, action).do = "notify"
    /\ \A a \in Agents, v \in Nat : Push(a, v) \in Item /\ Push(a, v).do = "push"
    /\ \A r \in Request, result \in Results :
          /\ Answer(r, result) \in Item /\ Answer(r, result).do = "answer"
          /\ Answer(r, result).request = r /\ Answer(r, result).result = result
BY WrittenType DEF Item, Get, PutGroup, PutAnnouncement, Notice, Push, Answer, Subjects

LEMMA HeadType ==
    ASSUME NEW x \in Item
    PROVE  /\ x.do \in {"put", "get"} => x.subject \in Subjects
           /\ x.do = "announce" => x.subject = "announce"
           /\ x.do = "put" => x.rec \in GroupRecord
           /\ x.do = "push" => x.to \in Agents /\ x.version \in Nat
           /\ x.do = "notify" => x.to \in Agents /\ x.action \in {"added", "removed"}
           /\ x.do = "answer" => x.request \in Request /\ x.result \in Results
BY DEF Item

-----------------------------------------------------------------------------
(* Types. *)

(* Who has its subscription on record has one; a group that is not there   *)
(* has no record and nothing under way.                                    *)
Tracked == \A a \in Agents : tracked[a] => subs[a] > 0
NotYet == ~exists => saved = None /\ members = <<>> /\ Idle

Typed == TypeOK /\ Tracked /\ Awaits /\ NotYet

LEMMA ConsumeType ==
    ASSUME TypeOK, NEW s \in Subjects, inbox[s] # <<>>
    PROVE  /\ Head(inbox[s]) \in Request
           /\ Consume(s) => inbox' \in [Subjects -> Seq(Request)]
<1>1. inbox[s] \in Seq(Request)
  BY DEF TypeOK
<1>2. Head(inbox[s]) \in Request /\ Tail(inbox[s]) \in Seq(Request)
  BY <1>1
<1> QED BY <1>2 DEF TypeOK, Consume

LEMMA AwaitType ==
    ASSUME TypeOK, NEW s \in Subjects, NEW r \in Request,
           NEW stage \in {"save", "admit", "get", "unread"}, Await(s, r, stage)
    PROVE  /\ work' \in [Subjects -> Work \union {None}]
           /\ work'[s] # None /\ work'[s].request = r /\ work'[s].stage = stage
           /\ \A t \in Subjects \ {s} : work'[t] = work[t]
<1>1. [request |-> r, stage |-> stage] \in Work
  BY DEF Work
<1>2. [request |-> r, stage |-> stage] # None
  BY <1>1, ManagerAssumption
<1> QED BY <1>1, <1>2 DEF TypeOK, Await

LEMMA EndsType ==
    ASSUME TypeOK, NEW s \in Subjects, Ends(s)
    PROVE  /\ work' \in [Subjects -> Work \union {None}] /\ work'[s] = None
           /\ \A t \in Subjects \ {s} : work'[t] = work[t]
BY DEF TypeOK, Ends

LEMMA WorkType ==
    ASSUME TypeOK, NEW s \in Subjects, work[s] # None
    PROVE  /\ work[s].request \in Request /\ work[s].stage \in {"save", "admit", "get", "unread"}
           /\ work[s].request.agent \in Agents /\ work[s].request.from \in Agents
BY DEF TypeOK, Work, Request

(* A handler that begins issues what it awaits, and a notice or an answer. *)
LEMMA BeginsOut ==
    ASSUME NEW q \in Seq(Item), NEW s \in Subjects, NEW w, NEW v, AwaitsIn(q, w), Free(s, q),
           \A t \in Subjects \ {s} : v[t] = w[t],
           NEW x \in Item, NEW y \in Item, ~Awaited(y),
           Awaited(x) => x.subject = s /\ Fits(x, v)
    PROVE  /\ q \o <<x>> \in Seq(Item) /\ AwaitsIn(q \o <<x>>, v)
           /\ q \o <<x, y>> \in Seq(Item) /\ AwaitsIn(q \o <<x, y>>, v)
<1>1. AwaitsIn(q, v)
  BY AwaitsOther
<1>2. Append(q, x) \in Seq(Item) /\ AwaitsIn(Append(q, x), v)
  BY <1>1, AwaitsAppend
<1>3. Append(Append(q, x), y) \in Seq(Item) /\ AwaitsIn(Append(Append(q, x), y), v)
  BY <1>2, AwaitsAppend
<1> QED BY <1>2, <1>3, Issued

(* An answer that refuses, or any answer, leaves the handlers alone. *)
LEMMA RefuseTyped ==
    ASSUME Typed, NEW s \in Subjects, NEW r, NEW result \in Results,
           Begins(s, r), Refuse(s, r, result), UNCHANGED <<client, budget>>
    PROVE  Typed'
<1>1. r \in Request /\ inbox' \in [Subjects -> Seq(Request)]
  BY ConsumeType DEF Begins, Refuse, Typed
<1>2. Answer(r, result) \in Item /\ ~Awaited(Answer(r, result))
  BY <1>1, ItemType DEF Awaited
<1>3. out' \in Seq(Item) /\ Awaits'
  <2>1. out' = Append(out, Answer(r, result)) /\ out \in Seq(Item) /\ UNCHANGED work
    BY <1>2, Issued DEF Refuse, Issue, Typed, TypeOK
  <2> QED BY <1>2, <2>1, AwaitsAppend DEF Awaits, Typed
<1>4. TypeOK'
  BY <1>1, <1>3 DEF Refuse, Typed, TypeOK, group, store, agents, client
<1> QED BY <1>3, <1>4 DEF Refuse, Typed, Tracked, NotYet, Idle, group, store, client

(* A handler begins: what must hold of what it changes. *)
LEMMA BeginTyped ==
    ASSUME Typed, NEW s \in Subjects, NEW r, Begins(s, r), Consume(s),
           NEW stage \in {"save", "admit"}, Await(s, r, stage),
           NEW x \in Item, NEW y \in Item, ~Awaited(y), Awaited(x), x.subject = s,
           Fits(x, work'), Issue(<<x>>) \/ Issue(<<x, y>>),
           members' \in Seq(Agents), pending' \in [Agents -> Statuses], exists' = TRUE,
           UNCHANGED <<isDefault, store, agents, client, budget>>
    PROVE  Typed'
<1>1. r \in Request /\ inbox' \in [Subjects -> Seq(Request)]
  BY ConsumeType DEF Begins, Typed
<1>2. /\ work' \in [Subjects -> Work \union {None}]
      /\ \A t \in Subjects \ {s} : work'[t] = work[t]
  BY <1>1, AwaitType DEF Typed
<1>3. Free(s, out) /\ out \in Seq(Item)
  BY FreeOfIdle DEF Begins, Typed, Awaits, TypeOK
<1>4. out' \in Seq(Item) /\ Awaits'
  <2>1. out' = out \o <<x>> \/ out' = out \o <<x, y>>
    BY DEF Issue
  <2>2. AwaitsIn(out, work)
    BY DEF Typed, Awaits
  <2>3. Awaited(x) => x.subject = s /\ Fits(x, work')
    OBVIOUS
  <2>4. /\ out \o <<x>> \in Seq(Item) /\ AwaitsIn(out \o <<x>>, work')
        /\ out \o <<x, y>> \in Seq(Item) /\ AwaitsIn(out \o <<x, y>>, work')
    BY <1>2, <1>3, <2>2, <2>3, BeginsOut
  <2> QED BY <2>1, <2>4 DEF Awaits
<1>6. TypeOK'
  BY <1>1, <1>2, <1>4
     DEF Typed, TypeOK, store, agents, client
<1> QED BY <1>4, <1>6 DEF Typed, Tracked, NotYet, client

LEMMA HandleTyped == Typed /\ Handle /\ UNCHANGED <<client, budget>> => Typed'
<1> SUFFICES ASSUME Typed, UNCHANGED <<client, budget>>,
                    NEW s \in Subjects, inbox[s] # <<>>, NEW r, r = Head(inbox[s]),
                    \/ HandleCreate(r) \/ HandleJoin(r) \/ HandleApprove(r)
                    \/ HandleLeave(r) \/ HandleAnnounce(r)
             PROVE  Typed'
  BY DEF Handle
<1> USE DEF Subjects
<1>0. /\ members \in Seq(Agents) /\ pending \in [Agents -> Statuses]
      /\ TypeOK /\ work \in [Subjects -> Work \union {None}] /\ exists \in BOOLEAN
  BY DEF Typed, TypeOK
<1>1. CASE HandleCreate(r)
  <2>1. Begins("create", r)
    BY <1>1 DEF HandleCreate
  <2>2. CASE exists /\ Refuse("create", r, "exists")
    BY <2>1, <2>2, RefuseTyped DEF Results
  <2>3. CASE ~ (exists /\ Refuse("create", r, "exists"))
    <3>1. /\ exists' = TRUE /\ members' = <<r.agent>> /\ pending' = pending
          /\ Issue(<<PutGroup("create", <<r.agent>>, pending)>>)
          /\ Consume("create") /\ Await("create", r, "save")
          /\ UNCHANGED <<isDefault, store, agents>>
      BY <1>1, <2>3 DEF HandleCreate
    <3>2. r \in Request /\ r.agent \in Agents
      BY <1>0, <2>1, ConsumeType DEF Begins, Request
    <3> DEFINE m == <<r.agent>>
               x == PutGroup("create", m, pending)
    <3>3. m \in Seq(Agents)
      BY <3>2
    <3>4. x \in Item /\ Awaited(x) /\ x.subject = "create" /\ x.do = "put"
      <4> HIDE DEF m
      <4> QED BY <1>0, <3>3, ItemType DEF Awaited, Statuses, Texts
    <3>5. work'["create"] # None
      BY <1>0, <3>1, <3>2, AwaitType
    <3>6. Fits(x, work')
      BY <3>4, <3>5 DEF Fits
    <3>7. Notice(r.agent, "added") \in Item /\ ~Awaited(Notice(r.agent, "added"))
      BY <3>2, ItemType DEF Awaited
    <3> HIDE DEF x
    <3> QED BY <1>0, <2>1, <3>1, <3>3, <3>4, <3>6, <3>7, BeginTyped DEF x
  <2> QED BY <2>2, <2>3
<1>2. CASE HandleJoin(r)
  <2>1. Begins("join", r)
    BY <1>2 DEF HandleJoin
  <2>2. CASE ~exists /\ Refuse("join", r, "not_found")
    BY <2>1, <2>2, RefuseTyped DEF Results
  <2>3. CASE exists /\ r.agent \in ToSet(members) /\ Refuse("join", r, "already_member")
    BY <2>1, <2>3, RefuseTyped DEF Results
  <2>4. CASE /\ exists /\ (JoinDefault(r) \/ AskToJoin(r))
             /\ Consume("join") /\ UNCHANGED <<isDefault, exists, store, agents>>
    <3>1. r \in Request /\ r.agent \in Agents
      BY <1>0, <2>1, ConsumeType DEF Begins, Request
    <3>2. PICK stage \in {"save", "admit"}, m \in Seq(Agents), p \in [Agents -> Statuses] :
            /\ members' = m /\ pending' = p
            /\ Issue(<<PutGroup("join", m, p)>>) /\ Await("join", r, stage)
      <4>1. CASE JoinDefault(r)
        <5>1. Append(members, r.agent) \in Seq(Agents)
          BY <1>0, <3>1
        <5> QED BY <1>0, <4>1, <5>1 DEF JoinDefault
      <4>2. CASE AskToJoin(r)
        <5>1. [pending EXCEPT ![r.agent] = "pending"] \in [Agents -> Statuses]
          BY <1>0, <3>1 DEF Statuses, Texts
        <5> QED BY <1>0, <4>2, <5>1 DEF AskToJoin
      <4> QED BY <2>4, <4>1, <4>2
    <3> DEFINE x == PutGroup("join", m, p)
    <3>4. x \in Item /\ Awaited(x) /\ x.subject = "join" /\ x.do = "put"
      BY ItemType DEF Awaited, Statuses, Texts
    <3>5. work'["join"] # None /\ work'["join"].stage \in {"save", "admit"}
      BY <1>0, <3>1, <3>2, AwaitType
    <3>6. Fits(x, work')
      BY <3>4, <3>5 DEF Fits
    <3>7. Notice(r.agent, "added") \in Item /\ ~Awaited(Notice(r.agent, "added"))
      BY <3>1, ItemType DEF Awaited
    <3>8. exists' = TRUE
      BY <1>0, <2>4
    <3> HIDE DEF x
    <3> QED BY <2>1, <2>4, <3>2, <3>4, <3>6, <3>7, <3>8, BeginTyped DEF x
  <2> QED BY <1>2, <2>2, <2>3, <2>4 DEF HandleJoin
<1>3. CASE HandleApprove(r)
  <2>1. Begins("approve", r)
    BY <1>3 DEF HandleApprove
  <2>2. CASE ~exists /\ Refuse("approve", r, "not_found")
    BY <2>1, <2>2, RefuseTyped DEF Results
  <2>3. CASE exists /\ ~MayDecide(r.from) /\ Refuse("approve", r, "unauthorized")
    BY <2>1, <2>3, RefuseTyped DEF Results
  <2>4. CASE /\ exists /\ (Approve(r) \/ Reject(r))
             /\ Consume("approve") /\ UNCHANGED <<isDefault, exists, store, agents>>
    <3>1. r \in Request /\ r.agent \in Agents
      BY <1>0, <2>1, ConsumeType DEF Begins, Request
    <3>2. exists' = TRUE
      BY <1>0, <2>4
    <3>3. CASE Approve(r)
      <4> DEFINE x == Get("approve")
                 y == Notice(r.agent, "added")
      <4>1. /\ x \in Item /\ Awaited(x) /\ x.subject = "approve" /\ x.do = "get"
            /\ y \in Item /\ ~Awaited(y)
        BY <3>1, ItemType DEF Awaited
      <4>2. /\ members' = Append(members, r.agent)
            /\ pending' = [pending EXCEPT ![r.agent] = "none"]
            /\ Issue(<<x, y>>) /\ Await("approve", r, "admit")
        BY <3>3 DEF Approve
      <4>3. work'["approve"] # None /\ work'["approve"].stage = "admit"
        BY <1>0, <3>1, <4>2, AwaitType
      <4>4. Fits(x, work')
        BY <4>1, <4>3 DEF Fits
      <4>5. members' \in Seq(Agents) /\ pending' \in [Agents -> Statuses]
        BY <1>0, <3>1, <4>2 DEF Statuses, Texts
      <4> HIDE DEF x, y
      <4> QED BY <2>1, <2>4, <3>2, <4>1, <4>2, <4>4, <4>5, BeginTyped
    <3>4. CASE Reject(r)
      <4> DEFINE p == [pending EXCEPT ![r.agent] = "rejected"]
                 x == PutGroup("approve", members, p)
                 y == Answer(r, "rejected")
      <4>1. /\ members' = members /\ pending' = p
            /\ Issue(<<x, y>>) /\ Await("approve", r, "save")
        BY <3>4 DEF Reject
      <4>2. p \in [Agents -> Statuses]
        BY <1>0, <3>1 DEF Statuses, Texts
      <4>3. /\ x \in Item /\ Awaited(x) /\ x.subject = "approve" /\ x.do = "put"
            /\ y \in Item /\ ~Awaited(y)
        <5> HIDE DEF p
        <5> QED BY <1>0, <3>1, <4>2, ItemType DEF Awaited, Statuses, Texts, Results
      <4>4. work'["approve"] # None /\ work'["approve"].stage = "save"
        BY <1>0, <3>1, <4>1, AwaitType
      <4>5. Fits(x, work')
        BY <4>3, <4>4 DEF Fits
      <4> HIDE DEF x, y, p
      <4> QED BY <1>0, <2>1, <2>4, <3>2, <4>1, <4>2, <4>3, <4>5, BeginTyped
    <3> QED BY <2>4, <3>3, <3>4
  <2> QED BY <1>3, <2>2, <2>3, <2>4 DEF HandleApprove
<1>4. CASE HandleLeave(r)
  <2>1. Begins("leave", r)
    BY <1>4 DEF HandleLeave
  <2>2. CASE ~exists /\ Refuse("leave", r, "not_found")
    BY <2>1, <2>2, RefuseTyped DEF Results
  <2>3. CASE exists /\ r.agent \notin ToSet(members) /\ Refuse("leave", r, "not_member")
    BY <2>1, <2>3, RefuseTyped DEF Results
  <2>4. CASE /\ exists /\ r.agent \in ToSet(members) /\ Forbidden(r)
             /\ Refuse("leave", r, "unauthorized")
    BY <2>1, <2>4, RefuseTyped DEF Results
  <2>5. CASE /\ exists /\ members' = RemoveFirst(members, r.agent)
             /\ pending' = [pending EXCEPT ![r.agent] = "none"]
             /\ Issue(<<PutGroup("leave", members', pending')>>)
             /\ Consume("leave") /\ Await("leave", r, "save")
             /\ UNCHANGED <<isDefault, exists, store, agents>>
    <3>1. r \in Request /\ r.agent \in Agents
      BY <1>0, <2>1, ConsumeType DEF Begins, Request
    <3>2. members' \in Seq(Agents) /\ pending' \in [Agents -> Statuses]
      BY <1>0, <2>5, <3>1, RemoveFirstKeeps DEF Statuses, Texts
    <3> DEFINE x == PutGroup("leave", members', pending')
    <3>3. x \in Item /\ Awaited(x) /\ x.subject = "leave" /\ x.do = "put"
      BY <3>2, ItemType DEF Awaited, Statuses, Texts
    <3>4. work'["leave"] # None
      BY <1>0, <2>5, <3>1, AwaitType
    <3>5. Fits(x, work')
      BY <3>3, <3>4 DEF Fits
    <3>6. Notice(r.agent, "added") \in Item /\ ~Awaited(Notice(r.agent, "added"))
      BY <3>1, ItemType DEF Awaited
    <3>7. exists' = TRUE
      BY <1>0, <2>5
    <3>8. Issue(<<x>>)
      BY <2>5
    <3> HIDE DEF x
    <3> QED BY <2>1, <2>5, <3>2, <3>3, <3>5, <3>6, <3>7, <3>8, BeginTyped
  <2> QED BY <1>4, <2>2, <2>3, <2>4, <2>5 DEF HandleLeave
<1>5. CASE HandleAnnounce(r)
  <2>1. Begins("announce", r)
    BY <1>5 DEF HandleAnnounce
  <2>2. CASE ~exists /\ Refuse("announce", r, "not_found")
    BY <2>1, <2>2, RefuseTyped DEF Results
  <2>3. CASE exists /\ r.from # Owner /\ Refuse("announce", r, "unauthorized")
    BY <2>1, <2>3, RefuseTyped DEF Results
  <2>4. CASE /\ exists /\ Issue(<<PutAnnouncement>>)
             /\ Consume("announce") /\ Await("announce", r, "save")
             /\ UNCHANGED <<group, store, agents>>
    <3>1. r \in Request /\ r.agent \in Agents
      BY <1>0, <2>1, ConsumeType DEF Begins, Request
    <3> DEFINE x == PutAnnouncement
    <3>2. x \in Item /\ Awaited(x) /\ x.subject = "announce" /\ x.do = "announce"
      BY ItemType DEF Awaited
    <3>3. work'["announce"] # None
      BY <1>0, <2>4, <3>1, AwaitType
    <3>4. Fits(x, work')
      BY <3>2, <3>3 DEF Fits
    <3>5. Notice(r.agent, "added") \in Item /\ ~Awaited(Notice(r.agent, "added"))
      BY <3>1, ItemType DEF Awaited
    <3>6. /\ exists' = TRUE /\ UNCHANGED isDefault
          /\ members' \in Seq(Agents) /\ pending' \in [Agents -> Statuses]
      BY <1>0, <2>4 DEF group
    <3>7. Issue(<<x>>)
      BY <2>4
    <3> HIDE DEF x
    <3> QED BY <2>1, <2>4, <3>2, <3>4, <3>5, <3>6, <3>7, BeginTyped
  <2> QED BY <1>5, <2>2, <2>3, <2>4 DEF HandleAnnounce
<1> QED BY <1>1, <1>2, <1>3, <1>4, <1>5

-----------------------------------------------------------------------------
(* The rest of a handler, as one thing issued after another. *)

(* What is at the head of `out', and what its handler waits with. *)
LEMMA FirstOut ==
    ASSUME Typed, NEW do, First(do)
    PROVE  /\ Head(out) \in Item /\ Head(out).do = do
           /\ Tail(out) \in Seq(Item) /\ AwaitsIn(Tail(out), work)
           /\ do \in {"put", "get", "announce"} =>
                LET s == Head(out).subject IN
                /\ s \in Subjects /\ work[s] # None
                /\ work[s].request \in Request /\ work[s].request.agent \in Agents
                /\ Fits(Head(out), work) /\ Free(s, Tail(out))
<1>1. out \in Seq(Item) /\ out # <<>> /\ Head(out).do = do /\ AwaitsIn(out, work)
  BY DEF First, Typed, TypeOK, Awaits
<1>2. /\ Head(out) \in Item /\ Tail(out) \in Seq(Item) /\ AwaitsIn(Tail(out), work)
      /\ Awaited(Head(out)) => Fits(Head(out), work) /\ Free(Head(out).subject, Tail(out))
  BY <1>1, AwaitsTail
<1>3. ASSUME do \in {"put", "get", "announce"}
      PROVE  LET s == Head(out).subject IN
             /\ s \in Subjects /\ work[s] # None
             /\ work[s].request \in Request /\ work[s].request.agent \in Agents
             /\ Fits(Head(out), work) /\ Free(s, Tail(out))
  <2> DEFINE s == Head(out).subject
  <2>1. Awaited(Head(out))
    BY <1>1, <1>3 DEF Awaited
  <2>2. s \in Subjects
    BY <1>1, <1>2, <1>3, HeadType DEF Subjects
  <2>3. work[s] # None
    BY <1>2, <2>1 DEF Fits
  <2>4. work[s].request \in Request /\ work[s].request.agent \in Agents
    BY <2>2, <2>3, WorkType DEF Typed
  <2> QED BY <1>2, <2>1, <2>2, <2>3, <2>4
<1> QED BY <1>1, <1>2, <1>3

AfterPutForm(s, q) ==
    LET r == work[s].request IN
    \/ /\ s = "create" /\ Ends(s)
       /\ out' = Append(Append(q, Notice(r.agent, "added")), Answer(r, "created"))
    \/ /\ s = "join" /\ work[s].stage = "save" /\ Ends(s)
       /\ out' = Append(q, Answer(r, "pending"))
    \/ /\ s = "join" /\ work[s].stage = "admit" /\ Await(s, r, "get")
       /\ out' = Append(Append(q, Get(s)), Notice(r.agent, "added"))
    \/ /\ s = "approve" /\ Ends(s) /\ out' = q
    \/ /\ s = "leave" /\ Ends(s)
       /\ out' = Append(Append(q, Notice(r.agent, "removed")), Answer(r, "left"))

LEMMA AfterPutForms ==
    ASSUME Typed, First("put"), AfterPut(Head(out).subject)
    PROVE  AfterPutForm(Head(out).subject, Tail(out))
<1> DEFINE s == Head(out).subject
           r == work[s].request
           q == Tail(out)
<1>1. /\ q \in Seq(Item) /\ s \in Subjects /\ r \in Request /\ r.agent \in Agents
  BY FirstOut
<1>2. /\ Notice(r.agent, "added") \in Item /\ Notice(r.agent, "removed") \in Item
      /\ Answer(r, "created") \in Item /\ Answer(r, "pending") \in Item
      /\ Answer(r, "left") \in Item /\ Get(s) \in Item
  BY <1>1, ItemType DEF Results
<1>3. /\ q \o <<Answer(r, "pending")>> = Append(q, Answer(r, "pending"))
      /\ q \o <<Notice(r.agent, "added"), Answer(r, "created")>>
           = Append(Append(q, Notice(r.agent, "added")), Answer(r, "created"))
      /\ q \o <<Get(s), Notice(r.agent, "added")>>
           = Append(Append(q, Get(s)), Notice(r.agent, "added"))
      /\ q \o <<Notice(r.agent, "removed"), Answer(r, "left")>>
           = Append(Append(q, Notice(r.agent, "removed")), Answer(r, "left"))
  BY <1>1, <1>2, Issued
<1>4. \A items : Goes(items) => out' = q \o items
  BY DEF Goes
<1> HIDE DEF q
<1>5. AfterPutForm(s, q)
  BY <1>3, <1>4, Zenon DEF AfterPut, AfterPutForm, q
<1> QED BY <1>5 DEF q

LEMMA PushedType ==
    ASSUME TypeOK, NEW a \in Agents
    PROVE  Pushed(a) \in Seq(Item) /\ Pushes(Pushed(a))
<1>1. version \in Nat /\ Push(a, version) \in Item /\ Push(a, version).do = "push"
  BY ItemType DEF TypeOK
<1>2. CASE version = 0
  BY <1>2 DEF Pushed, Pushes
<1>3. CASE version # 0
  BY <1>1, <1>3 DEF Pushed, Pushes
<1> QED BY <1>2, <1>3

AfterGetForm(s, q) ==
    LET r == work[s].request IN
    \/ /\ s = "join" /\ Ends(s)
       /\ out' = Append(q \o Pushed(r.agent), Answer(r, "joined"))
    \/ /\ s = "approve" /\ Await(s, r, "save")
       /\ out' = Append(Append(q, PutGroup(s, members, pending)) \o Pushed(r.agent),
                        Answer(r, "approved"))

(* The answer comes last, after what has been put, if anything, and sent.  *)
LEMMA AnsweredAfter ==
    ASSUME NEW q \in Seq(Item), NEW p \in Seq(Item), NEW x \in Item, NEW y \in Item
    PROVE  /\ q \o (p \o <<y>>) = Append(q \o p, y)
           /\ q \o ((<<x>> \o p) \o <<y>>) = Append(Append(q, x) \o p, y)
<1>1. /\ <<x>> \in Seq(Item) /\ <<y>> \in Seq(Item)
      /\ Append(q, x) \in Seq(Item) /\ Append(q, x) = q \o <<x>>
  BY Issued
<1>2. /\ q \o p \in Seq(Item) /\ <<x>> \o p \in Seq(Item)
      /\ Append(q, x) \o p \in Seq(Item)
  BY <1>1, ConcatProperties
<1>3. q \o (p \o <<y>>) = (q \o p) \o <<y>>
  BY <1>1, ConcatAssociative
<1>4. q \o ((<<x>> \o p) \o <<y>>) = (q \o (<<x>> \o p)) \o <<y>>
  BY <1>1, <1>2, ConcatAssociative
<1>5. q \o (<<x>> \o p) = Append(q, x) \o p
  BY <1>1, ConcatAssociative
<1>6. \A z \in Seq(Item) : z \o <<y>> = Append(z, y)
  BY Issued
<1> QED BY <1>2, <1>3, <1>4, <1>5, <1>6

LEMMA AfterGetForms ==
    ASSUME Typed, First("get"), AfterGet(Head(out).subject)
    PROVE  AfterGetForm(Head(out).subject, Tail(out))
<1> DEFINE s == Head(out).subject
           r == work[s].request
           q == Tail(out)
           x == PutGroup(s, members, pending)
<1>1. /\ q \in Seq(Item) /\ s \in Subjects /\ s \in {"join", "approve"}
      /\ r \in Request /\ r.agent \in Agents
  BY FirstOut DEF Fits
<1>2. Pushed(r.agent) \in Seq(Item)
  BY <1>1, PushedType DEF Typed
<1>3. Answer(r, "joined") \in Item /\ Answer(r, "approved") \in Item /\ x \in Item
  <2>1. TypeOK
    BY DEF Typed
  <2> QED BY <1>1, <2>1, ItemType DEF TypeOK, Results, Statuses, Texts
<1> DEFINE p == Pushed(r.agent)
           joined == Answer(r, "joined")
           approved == Answer(r, "approved")
<1>4. \A items : Goes(items) => out' = q \o items
  BY DEF Goes
<1>5. p \in Seq(Item)
  BY <1>1, PushedType DEF Typed
<1> HIDE DEF q, x, p
<1>6. q \o (p \o <<joined>>) = Append(q \o p, joined)
  BY <1>1, <1>3, <1>5, AnsweredAfter
<1>7. q \o ((<<x>> \o p) \o <<approved>>) = Append(Append(q, x) \o p, approved)
  BY <1>1, <1>3, <1>5, AnsweredAfter
<1>8. AfterGetForm(s, q)
  <2>1. CASE s = "join" /\ Ends(s) /\ Goes(p \o <<joined>>)
    BY <1>4, <1>6, <2>1 DEF AfterGetForm, p
  <2>2. CASE s = "approve" /\ Await(s, r, "save") /\ Goes((<<x>> \o p) \o <<approved>>)
    BY <1>4, <1>7, <2>2 DEF AfterGetForm, p, x
  <2>3. \/ s = "join" /\ Ends(s) /\ Goes(p \o <<joined>>)
        \/ s = "approve" /\ Await(s, r, "save") /\ Goes((<<x>> \o p) \o <<approved>>)
    BY Zenon DEF AfterGet, p, x
  <2> QED BY <2>1, <2>2, <2>3
<1> QED BY <1>8 DEF q

(* The announcement goes to everyone in a list. *)
ToAll(list) == [i \in DOMAIN list |-> Push(list[i], version + 1)]

LEMMA AfterAnnouncementForm ==
    ASSUME Typed, First("announce"), AfterAnnouncement
    PROVE  /\ ToAll(members) \in Seq(Item) /\ Pushes(ToAll(members))
           /\ work["announce"].request \in Request
           /\ out' = Append(Tail(out) \o ToAll(members),
                            Answer(work["announce"].request, "set"))
<1>1. /\ Tail(out) \in Seq(Item) /\ Head(out).subject = "announce"
      /\ work["announce"].request \in Request
  BY FirstOut DEF Fits
<1>2. members \in Seq(Agents) /\ version + 1 \in Nat
  BY DEF Typed, TypeOK
<1>3. \A i \in DOMAIN members : Push(members[i], version + 1) \in Item
  BY <1>2, ItemType
<1>4. ToAll(members) \in Seq(Item) /\ Pushes(ToAll(members))
  <2>1. DOMAIN members = 1 .. Len(members) /\ Len(members) \in Nat
    BY <1>2
  <2>2. ToAll(members) \in Seq(Item)
    BY <1>3, <2>1, IsASeq DEF ToAll
  <2>3. Pushes(ToAll(members))
    BY <1>2, ItemType DEF Pushes, ToAll
  <2> QED BY <2>2, <2>3
<1>5. Answer(work["announce"].request, "set") \in Item
  BY <1>1, ItemType DEF Results
<1>6. Tail(out) \o (ToAll(members) \o <<Answer(work["announce"].request, "set")>>)
        = Append(Tail(out) \o ToAll(members), Answer(work["announce"].request, "set"))
  BY <1>1, <1>4, <1>5, AnsweredAfter
<1> QED BY <1>1, <1>4, <1>6 DEF AfterAnnouncement, Goes, ToAll

(* A message has left, or a handler goes on: what TypeOK says of the rest. *)
LEMMA DeliverTyped ==
    ASSUME Typed, out' \in Seq(Item), AwaitsIn(out', work'),
           work' \in [Subjects -> Work \union {None}],
           \A s \in Subjects : work[s] = None => work'[s] = None,
           saved' \in GroupRecord \union {None}, version' \in Nat,
           ~exists => saved' = None,
           asked' \in [Agents -> Waiting \union {None}], told' \in [Agents -> Nat],
           notices' \in [Agents -> Seq({"added", "removed"})],
           UNCHANGED <<group, inbox, turn, client, budget>>
    PROVE  Typed'
<1>1. TypeOK'
  BY DEF Typed, TypeOK, group, client
<1> QED BY <1>1 DEF Typed, Tracked, Awaits, NotYet, Idle, group, client

LEMMA AfterPutTyped ==
    ASSUME Typed, First("put"), AfterPut(Head(out).subject)
    PROVE  /\ out' \in Seq(Item) /\ AwaitsIn(out', work')
           /\ work' \in [Subjects -> Work \union {None}]
           /\ \A s \in Subjects : work[s] = None => work'[s] = None
           /\ exists
<1> DEFINE s == Head(out).subject
           r == work[s].request
           q == Tail(out)
<1>1. /\ q \in Seq(Item) /\ AwaitsIn(q, work) /\ s \in Subjects /\ work[s] # None
      /\ r \in Request /\ r.agent \in Agents /\ Free(s, q) /\ TypeOK
  BY FirstOut DEF Typed
<1>2. AfterPutForm(s, q)
  BY AfterPutForms
<1>3. exists
  BY <1>1 DEF Typed, NotYet, Idle
<1> HIDE DEF s, q
<1>4. /\ \A action \in {"added", "removed"} :
            Notice(r.agent, action) \in Item /\ ~Awaited(Notice(r.agent, action))
      /\ \A result \in {"created", "pending", "left"} :
            Answer(r, result) \in Item /\ ~Awaited(Answer(r, result))
      /\ Get(s) \in Item /\ Get(s).do = "get" /\ Get(s).subject = s
  BY <1>1, ItemType DEF Results, Awaited
<1>5. CASE Ends(s)
  <2>1. /\ work' \in [Subjects -> Work \union {None}] /\ work'[s] = None
        /\ \A t \in Subjects \ {s} : work'[t] = work[t]
    BY <1>1, <1>5, EndsType
  <2>2. AwaitsIn(q, work')
    BY <1>1, <2>1, AwaitsOther
  <2>3. \A x \in Item : ~Awaited(x) =>
           Append(q, x) \in Seq(Item) /\ AwaitsIn(Append(q, x), work')
    BY <1>1, <2>2, AwaitsAppend
  <2>4. \A x, y \in Item : ~Awaited(x) /\ ~Awaited(y) =>
           Append(Append(q, x), y) \in Seq(Item) /\ AwaitsIn(Append(Append(q, x), y), work')
    BY <2>3, AwaitsAppend
  <2>5. \/ \E x, y \in Item : ~Awaited(x) /\ ~Awaited(y) /\ out' = Append(Append(q, x), y)
        \/ \E x \in Item : ~Awaited(x) /\ out' = Append(q, x)
        \/ out' = q
        \/ s = "join" /\ Await(s, r, "get")
    BY <1>2, <1>4 DEF AfterPutForm
  <2>6. ~ Await(s, r, "get")
    <3>1. Await(s, r, "get") => work'[s] # None
      BY <1>1, AwaitType
    <3> QED BY <2>1, <3>1
  <2>7. out' \in Seq(Item) /\ AwaitsIn(out', work')
    BY <1>1, <2>2, <2>3, <2>4, <2>5, <2>6
  <2> QED BY <1>1, <1>3, <2>1, <2>7
<1>6. CASE /\ s = "join" /\ Await(s, r, "get")
           /\ out' = Append(Append(q, Get(s)), Notice(r.agent, "added"))
  <2>1. /\ work' \in [Subjects -> Work \union {None}]
        /\ work'[s] # None /\ work'[s].stage = "get"
        /\ \A t \in Subjects \ {s} : work'[t] = work[t]
    BY <1>1, <1>6, AwaitType
  <2>2. AwaitsIn(q, work')
    BY <1>1, <2>1, AwaitsOther
  <2>3. Fits(Get(s), work')
    BY <1>4, <1>6, <2>1 DEF Fits
  <2>4. Append(q, Get(s)) \in Seq(Item) /\ AwaitsIn(Append(q, Get(s)), work')
    BY <1>1, <1>4, <2>2, <2>3, AwaitsAppend
  <2>5. out' \in Seq(Item) /\ AwaitsIn(out', work')
    BY <1>4, <1>6, <2>4, AwaitsAppend
  <2> QED BY <1>1, <1>3, <2>1, <2>5
<1> QED BY <1>2, <1>5, <1>6 DEF AfterPutForm

LEMMA AfterGetTyped ==
    ASSUME Typed, First("get"), AfterGet(Head(out).subject)
    PROVE  /\ out' \in Seq(Item) /\ AwaitsIn(out', work')
           /\ work' \in [Subjects -> Work \union {None}]
           /\ \A s \in Subjects : work[s] = None => work'[s] = None
<1> DEFINE s == Head(out).subject
           r == work[s].request
           q == Tail(out)
           p == Pushed(r.agent)
<1>1. /\ q \in Seq(Item) /\ AwaitsIn(q, work) /\ s \in Subjects /\ work[s] # None
      /\ r \in Request /\ r.agent \in Agents /\ Free(s, q) /\ TypeOK
  BY FirstOut DEF Typed
<1>2. AfterGetForm(s, q)
  BY AfterGetForms
<1> HIDE DEF s, q
<1>3. p \in Seq(Item) /\ Pushes(p)
  BY <1>1, PushedType
<1>4. /\ \A result \in {"joined", "approved"} :
            Answer(r, result) \in Item /\ ~Awaited(Answer(r, result))
      /\ LET x == PutGroup(s, members, pending) IN
         x \in Item /\ x.do = "put" /\ x.subject = s
  BY <1>1, ItemType DEF TypeOK, Results, Statuses, Texts, Awaited
<1>5. CASE /\ s = "join" /\ Ends(s) /\ out' = Append(q \o p, Answer(r, "joined"))
  <2>1. /\ work' \in [Subjects -> Work \union {None}] /\ work'[s] = None
        /\ \A t \in Subjects \ {s} : work'[t] = work[t]
    BY <1>1, <1>5, EndsType
  <2>2. AwaitsIn(q, work')
    BY <1>1, <2>1, AwaitsOther
  <2>3. q \o p \in Seq(Item) /\ AwaitsIn(q \o p, work')
    BY <1>1, <1>3, <2>2, AwaitsPushes
  <2>4. out' \in Seq(Item) /\ AwaitsIn(out', work')
    BY <1>4, <1>5, <2>3, AwaitsAppend
  <2> QED BY <1>1, <2>1, <2>4
<1>6. CASE /\ s = "approve" /\ Await(s, r, "save")
           /\ out' = Append(Append(q, PutGroup(s, members, pending)) \o p,
                            Answer(r, "approved"))
  <2> DEFINE x == PutGroup(s, members, pending)
  <2>1. /\ work' \in [Subjects -> Work \union {None}]
        /\ work'[s] # None /\ work'[s].stage = "save"
        /\ \A t \in Subjects \ {s} : work'[t] = work[t]
    BY <1>1, <1>6, AwaitType
  <2>2. AwaitsIn(q, work')
    BY <1>1, <2>1, AwaitsOther
  <2>3. x \in Item /\ Fits(x, work') /\ Free(x.subject, q)
    BY <1>1, <1>4, <1>6, <2>1 DEF Fits
  <2> HIDE DEF x
  <2>4. Append(q, x) \in Seq(Item) /\ AwaitsIn(Append(q, x), work')
    BY <1>1, <2>2, <2>3, AwaitsAppend
  <2>5. Append(q, x) \o p \in Seq(Item) /\ AwaitsIn(Append(q, x) \o p, work')
    BY <1>3, <2>4, AwaitsPushes
  <2>6. out' \in Seq(Item) /\ AwaitsIn(out', work')
    BY <1>4, <1>6, <2>5, AwaitsAppend DEF x
  <2> QED BY <1>1, <2>1, <2>6
<1> QED BY <1>2, <1>5, <1>6 DEF AfterGetForm

LEMMA GetFailsTyped ==
    ASSUME Typed, GetFails
    PROVE  /\ out' \in Seq(Item) /\ AwaitsIn(out', work')
           /\ work' \in [Subjects -> Work \union {None}]
           /\ \A s \in Subjects : work[s] = None => work'[s] = None
<1> DEFINE s == Head(out).subject
<1>1. /\ First("get") /\ out' = Tail(out) /\ Await(s, work[s].request, "unread") /\ TypeOK
  BY DEF GetFails, Typed
<1>2. /\ Tail(out) \in Seq(Item) /\ AwaitsIn(Tail(out), work)
      /\ s \in Subjects /\ work[s] # None /\ work[s].request \in Request
      /\ Free(s, Tail(out))
  BY <1>1, FirstOut
<1>3. /\ work' \in [Subjects -> Work \union {None}]
      /\ \A t \in Subjects \ {s} : work'[t] = work[t]
  BY <1>1, <1>2, AwaitType
<1>4. AwaitsIn(Tail(out), work')
  BY <1>2, <1>3, AwaitsOther
<1> QED BY <1>1, <1>2, <1>3, <1>4

(* A get that is not answered is not on its way, and nothing else is, for  *)
(* its handler.                                                            *)
LEMMA UnreadIsFree ==
    ASSUME Typed, NEW s \in Subjects, work[s] # None, work[s].stage = "unread",
           s \in {"join", "approve"}
    PROVE  Free(s, out)
BY DEF Typed, Awaits, AwaitsIn, Fits, Free, Awaited

LEMMA GetTimesOutTyped ==
    ASSUME Typed, NEW s \in Subjects, GetTimesOut(s)
    PROVE  /\ out' \in Seq(Item) /\ AwaitsIn(out', work')
           /\ work' \in [Subjects -> Work \union {None}]
           /\ \A t \in Subjects : work[t] = None => work'[t] = None
<1> DEFINE r == work[s].request
<1>1. /\ TypeOK /\ work[s] # None /\ work[s].stage = "unread" /\ r \in Request
      /\ out \in Seq(Item) /\ AwaitsIn(out, work)
      /\ members \in Seq(Agents) /\ pending \in [Agents -> Statuses]
  BY WorkType DEF Typed, TypeOK, Awaits, GetTimesOut
<1>2. CASE s = "join" /\ Ends(s) /\ Issue(<<Answer(r, "joined")>>)
  <2> DEFINE y == Answer(r, "joined")
  <2>1. /\ work' \in [Subjects -> Work \union {None}]
        /\ \A t \in Subjects \ {s} : work'[t] = work[t]
    BY <1>1, <1>2, EndsType
  <2>2. y \in Item /\ ~Awaited(y)
    BY <1>1, ItemType DEF Results, Awaited
  <2>3. Free(s, out)
    BY <1>1, <1>2, UnreadIsFree
  <2> HIDE DEF y
  <2>4. out \o <<y>> \in Seq(Item) /\ AwaitsIn(out \o <<y>>, work')
    BY <1>1, <2>1, <2>2, <2>3, BeginsOut
  <2> QED BY <1>1, <1>2, <2>1, <2>4 DEF Issue, y
<1>3. CASE /\ s = "approve" /\ Await(s, r, "save")
           /\ Issue(<<PutGroup(s, members, pending), Answer(r, "approved")>>)
  <2> DEFINE x == PutGroup(s, members, pending)
             y == Answer(r, "approved")
  <2>1. /\ work' \in [Subjects -> Work \union {None}]
        /\ work'[s] # None /\ work'[s].stage = "save"
        /\ \A t \in Subjects \ {s} : work'[t] = work[t]
    BY <1>1, <1>3, AwaitType
  <2>2. /\ x \in Item /\ x.do = "put" /\ x.subject = s
        /\ y \in Item /\ ~Awaited(y)
    BY <1>1, ItemType DEF Results, Awaited
  <2>3. Free(s, out)
    BY <1>1, <1>3, UnreadIsFree
  <2>4. Fits(x, work')
    BY <1>3, <2>1, <2>2 DEF Fits
  <2>5. Issue(<<x, y>>)
    BY <1>3
  <2> HIDE DEF x, y
  <2>6. out \o <<x, y>> \in Seq(Item) /\ AwaitsIn(out \o <<x, y>>, work')
    BY <1>1, <2>1, <2>2, <2>3, <2>4, BeginsOut
  <2> QED BY <1>1, <2>1, <2>5, <2>6 DEF Issue
<1> QED BY <1>1, <1>2, <1>3 DEF GetTimesOut

LEMMA ServeTyped == Typed /\ Serve => Typed'
<1> SUFFICES ASSUME Typed, Serve PROVE Typed'
  OBVIOUS
<1>0. /\ UNCHANGED <<client, budget>> /\ TypeOK
      /\ saved \in GroupRecord \union {None} /\ version \in Nat
      /\ work \in [Subjects -> Work \union {None}]
      /\ asked \in [Agents -> Waiting \union {None}] /\ told \in [Agents -> Nat]
      /\ notices \in [Agents -> Seq({"added", "removed"})]
      /\ ~exists => saved = None
  BY DEF Serve, Typed, TypeOK, NotYet
<1>1. CASE Handle
  BY <1>0, <1>1, HandleTyped
<1>2. CASE PutLands
  <2>1. First("put") /\ AfterPut(Head(out).subject)
    BY <1>2 DEF PutLands
  <2>2. saved' \in GroupRecord
    BY <1>2, <2>1, FirstOut, HeadType DEF PutLands
  <2> QED BY <1>0, <1>2, <2>1, <2>2, AfterPutTyped, DeliverTyped DEF PutLands, agents
<1>3. CASE PutFails
  <2>1. First("put") /\ AfterPut(Head(out).subject)
    BY <1>3 DEF PutFails
  <2>2. saved' \in GroupRecord \union {None}
    BY <1>0, <1>3, <2>1, FirstOut, HeadType DEF PutFails
  <2> QED BY <1>0, <1>3, <2>1, <2>2, AfterPutTyped, DeliverTyped DEF PutFails, agents
<1>4. CASE GetAnswered
  <2>1. First("get") /\ AfterGet(Head(out).subject)
    BY <1>4 DEF GetAnswered
  <2> QED BY <1>0, <1>4, <2>1, AfterGetTyped, DeliverTyped DEF GetAnswered, store, agents
<1>5. CASE AnnouncementLands \/ AnnouncementFails
  <2> DEFINE q == Tail(out)
             p == ToAll(members)
             y == Answer(work["announce"].request, "set")
  <2>1. First("announce") /\ Ends("announce") /\ "announce" \in Subjects
    BY <1>5 DEF AnnouncementLands, AnnouncementFails, AfterAnnouncement, Subjects
  <2>2. /\ work' \in [Subjects -> Work \union {None}] /\ work'["announce"] = None
        /\ \A t \in Subjects \ {"announce"} : work'[t] = work[t]
    BY <1>0, <2>1, EndsType
  <2>3. /\ q \in Seq(Item) /\ AwaitsIn(q, work) /\ Free("announce", q)
        /\ work["announce"] # None
    BY <2>1, FirstOut DEF Fits
  <2>4. AwaitsIn(q, work')
    BY <2>1, <2>2, <2>3, AwaitsOther
  <2>5. out' \in Seq(Item) /\ AwaitsIn(out', work')
    <3>1. CASE AnnouncementFails
      BY <2>3, <2>4, <3>1 DEF AnnouncementFails
    <3>2. CASE AnnouncementLands
      <4>1. AfterAnnouncement
        BY <3>2 DEF AnnouncementLands
      <4>2. /\ p \in Seq(Item) /\ Pushes(p) /\ y \in Item /\ ~Awaited(y)
            /\ out' = Append(q \o p, y)
        BY <2>1, <4>1, AfterAnnouncementForm, ItemType DEF Results, Awaited
      <4> HIDE DEF q, p, y
      <4>3. q \o p \in Seq(Item) /\ AwaitsIn(q \o p, work')
        BY <2>3, <2>4, <4>2, AwaitsPushes
      <4> QED BY <4>2, <4>3, AwaitsAppend
    <3> QED BY <1>5, <3>1, <3>2
  <2>6. version' \in Nat
    BY <1>0, <1>5 DEF AnnouncementLands, AnnouncementFails
  <2> QED BY <1>0, <1>5, <2>2, <2>3, <2>5, <2>6, DeliverTyped
          DEF AnnouncementLands, AnnouncementFails, agents
<1>6. CASE PushArrives
  <2>1. First("push") /\ UNCHANGED work /\ out' = Tail(out)
    BY <1>6 DEF PushArrives
  <2>2. out' \in Seq(Item) /\ AwaitsIn(out', work')
    BY <2>1, FirstOut
  <2>3. told' \in [Agents -> Nat]
    BY <1>0, <1>6, <2>1, FirstOut, HeadType DEF PushArrives
  <2> QED BY <1>0, <1>6, <2>1, <2>2, <2>3, DeliverTyped DEF PushArrives, store
<1>7. CASE NoticeLeaves
  <2>1. First("notify") /\ UNCHANGED work /\ out' = Tail(out)
    BY <1>7 DEF NoticeLeaves
  <2>2. out' \in Seq(Item) /\ AwaitsIn(out', work')
    BY <2>1, FirstOut
  <2>3. notices' \in [Agents -> Seq({"added", "removed"})]
    <3>1. Head(out).to \in Agents /\ Head(out).action \in {"added", "removed"}
      BY <2>1, FirstOut, HeadType
    <3>2. \A a \in Agents, action \in {"added", "removed"} :
             Append(notices[a], action) \in Seq({"added", "removed"})
      BY <1>0
    <3> QED BY <1>0, <1>7, <3>1, <3>2 DEF NoticeLeaves
  <2> QED BY <1>0, <1>7, <2>1, <2>2, <2>3, DeliverTyped DEF NoticeLeaves, store
<1>8. CASE AnswerArrives
  <2>1. First("answer") /\ UNCHANGED work /\ out' = Tail(out)
    BY <1>8 DEF AnswerArrives
  <2>2. out' \in Seq(Item) /\ AwaitsIn(out', work')
    BY <2>1, FirstOut
  <2>3. asked' \in [Agents -> Waiting \union {None}]
    BY <1>0, <1>8 DEF AnswerArrives
  <2> QED BY <1>0, <1>8, <2>1, <2>2, <2>3, DeliverTyped DEF AnswerArrives, store
<1>9. CASE Crash
  <2>1. members' \in Seq(Agents) /\ pending' \in [Agents -> Statuses]
    BY <1>0, <1>9 DEF Crash, Loaded, GroupRecord, Statuses, Texts
  <2>2. out' = <<>> /\ inbox' \in [Subjects -> Seq(Request)]
    BY <1>9 DEF Crash
  <2>3. Awaits'
    BY <2>2 DEF Awaits, AwaitsIn
  <2>4. work' \in [Subjects -> Work \union {None}] /\ Idle'
    BY <1>9 DEF Crash, Idle
  <2>5. exists' \in BOOLEAN /\ (~exists' => saved' = None /\ members' = <<>>)
    <3>1. exists' = (saved # None) /\ saved' = saved /\ members' = Loaded.members
      BY <1>9 DEF Crash, store
    <3>2. CASE saved = None
      <4>1. members' = <<>>
        BY <3>1, <3>2 DEF Loaded
      <4>2. exists' = FALSE
        BY <3>1, <3>2
      <4> QED BY <3>1, <3>2, <4>1, <4>2
    <3>3. CASE saved # None
      <4>1. exists' = TRUE
        BY <3>1, <3>3
      <4> QED BY <4>1
    <3> QED BY <3>2, <3>3
  <2>6. UNCHANGED <<isDefault, saved, version, asked, turn, told, notices, client>>
    BY <1>0, <1>9 DEF Crash, store, agents, client
  <2>8. exists' \in BOOLEAN /\ out' \in Seq(Item)
    BY <2>2, <2>5
  <2>9. TypeOK'
    BY <1>0, <2>1, <2>2, <2>4, <2>6, <2>8 DEF TypeOK, client
  <2> QED BY <1>0, <2>3, <2>4, <2>5, <2>6, <2>9 DEF Typed, Tracked, NotYet, client
<1>10. CASE GetFails
  <2>1. First("get")
    BY <1>10 DEF GetFails
  <2> QED BY <1>0, <1>10, <2>1, GetFailsTyped, DeliverTyped DEF GetFails, store, agents
<1>11. ASSUME NEW s \in Subjects, GetTimesOut(s)
       PROVE  Typed'
  BY <1>0, <1>11, GetTimesOutTyped, DeliverTyped DEF GetTimesOut, store, agents
<1> QED BY <1>1, <1>2, <1>3, <1>4, <1>5, <1>6, <1>7, <1>8, <1>9, <1>10, <1>11
        DEF Serve, Deliver

LEMMA NextTyped == Typed /\ [Next]_vars => Typed'
<1> SUFFICES ASSUME Typed, [Next]_vars PROVE Typed'
  OBVIOUS
<1>0. /\ TypeOK /\ asked \in [Agents -> Waiting \union {None}]
      /\ turn \in [Agents -> Nat] /\ inbox \in [Subjects -> Seq(Request)]
  BY DEF Typed, TypeOK
<1>1. CASE Serve
  BY <1>1, ServeTyped
<1>2. ASSUME NEW c \in Agents, NEW op \in Ops, NEW a \in Agents,
             Send(c, [op |-> op, from |-> c, agent |-> a, turn |-> turn[c] + 1]),
             asked' \in [Agents -> Waiting \union {None}]
      PROVE  Typed'
  <2> DEFINE r == [op |-> op, from |-> c, agent |-> a, turn |-> turn[c] + 1]
  <2>1. r \in Request /\ r.op = op /\ r.turn \in Nat
    BY <1>0 DEF Request
  <2>2. Subject(op) \in Subjects
    BY DEF Subject, Ops, Subjects
  <2> HIDE DEF r
  <2>3. Append(inbox[Subject(op)], r) \in Seq(Request)
    BY <1>0, <2>1, <2>2
  <2>4. Send(c, r)
    BY <1>2 DEF r
  <2>5. inbox' \in [Subjects -> Seq(Request)] /\ turn' \in [Agents -> Nat]
    BY <1>0, <2>1, <2>2, <2>3, <2>4 DEF Send
  <2>6. UNCHANGED <<group, store, work, out, told, notices, client>>
    BY <2>4 DEF Send
  <2>7. TypeOK'
    BY <1>0, <1>2, <2>5, <2>6 DEF TypeOK, group, store, client
  <2> QED BY <2>6, <2>7 DEF Typed, Tracked, Awaits, NotYet, Idle, group, store, client
<1>3. ASSUME NEW c \in Commands, Ask(c) PROVE Typed'
  <2>1. c.by \in Agents /\ c.op \in Ops /\ c.for \in Agents
    BY ManagerAssumption DEF Command
  <2>2. [op |-> c.op, agent |-> c.for, attempt |-> 1] \in Waiting
    BY <2>1, ManagerAssumption DEF Waiting
  <2>3. asked' \in [Agents -> Waiting \union {None}]
    BY <1>0, <1>3, <2>1, <2>2 DEF Ask
  <2>4. Send(c.by, [op |-> c.op, from |-> c.by, agent |-> c.for, turn |-> turn[c.by] + 1])
    BY <1>3 DEF Ask
  <2> QED BY <1>2, <2>1, <2>3, <2>4
<1>4. ASSUME NEW c \in Agents, TimeOut(c) PROVE Typed'
  <2>1. asked[c] \in Waiting
    BY <1>0, <1>4 DEF TimeOut
  <2>2. asked[c].op \in Ops /\ asked[c].agent \in Agents /\ asked[c].attempt \in 1 .. Retries
    BY <2>1 DEF Waiting
  <2>3. CASE /\ asked[c].attempt < Retries
             /\ asked' = [asked EXCEPT ![c].attempt = @ + 1]
             /\ Send(c, [op |-> asked[c].op, from |-> c, agent |-> asked[c].agent,
                         turn |-> turn[c] + 1])
    <3>1. [asked[c] EXCEPT !.attempt = @ + 1] \in Waiting
      BY <2>1, <2>2, <2>3, ManagerAssumption DEF Waiting
    <3>2. asked' = [asked EXCEPT ![c] = [asked[c] EXCEPT !.attempt = @ + 1]]
      BY <2>3
    <3>3. asked' \in [Agents -> Waiting \union {None}]
      BY <1>0, <3>1, <3>2
    <3> QED BY <1>2, <2>2, <2>3, <3>3
  <2>4. CASE /\ asked' = [asked EXCEPT ![c] = None]
             /\ UNCHANGED <<group, store, service, turn, told, notices, client>>
    <3>1. TypeOK'
      BY <1>0, <2>4 DEF TypeOK, group, store, service, client
    <3> QED BY <2>4, <3>1
            DEF Typed, Tracked, Awaits, NotYet, Idle, group, store, service, client
  <2> QED BY <1>4, <2>3, <2>4 DEF TimeOut
<1>5. ASSUME NEW a \in Agents, OnNotification(a) PROVE Typed'
  <2>1. UNCHANGED <<group, store, service, asked, turn, told, listening>>
    BY <1>5 DEF OnNotification
  <2>2. notices' \in [Agents -> Seq({"added", "removed"})]
    <3>1. Tail(notices[a]) \in Seq({"added", "removed"})
      BY <1>0, <1>5 DEF OnNotification, TypeOK
    <3> QED BY <1>0, <1>5, <3>1 DEF OnNotification, TypeOK
  <2>3. subs' \in [Agents -> Nat] /\ tracked' \in [Agents -> BOOLEAN] /\ Tracked'
    <3>1. CASE SubscribeGrp(a)
      BY <1>0, <3>1 DEF SubscribeGrp, TypeOK, Typed, Tracked
    <3>2. CASE UnsubscribeGrp(a)
      <4>1. tracked' \in [Agents -> BOOLEAN] /\ ~tracked'[a]
        BY <1>0, <3>2 DEF UnsubscribeGrp, TypeOK
      <4>2. subs' \in [Agents -> Nat] /\ \A b \in Agents \ {a} : subs'[b] = subs[b]
        BY <1>0, <3>2 DEF UnsubscribeGrp, TypeOK, Typed, Tracked
      <4>3. \A b \in Agents \ {a} : tracked'[b] = tracked[b]
        BY <1>0, <3>2 DEF UnsubscribeGrp, TypeOK
      <4> QED BY <4>1, <4>2, <4>3 DEF Typed, Tracked
    <3>3. CASE UNCHANGED <<subs, tracked>>
      BY <1>0, <3>3 DEF TypeOK, Typed, Tracked
    <3> QED BY <1>5, <3>1, <3>2, <3>3 DEF OnNotification
  <2>4. TypeOK'
    BY <1>0, <2>1, <2>2, <2>3 DEF TypeOK, group, store, service
  <2> QED BY <2>1, <2>3, <2>4 DEF Typed, Awaits, NotYet, Idle, group, store, service
<1>6. ASSUME NEW a \in Agents, StartClient(a) PROVE Typed'
  <2>1. UNCHANGED <<group, store, service, turn, told, notices>>
    BY <1>6 DEF StartClient
  <2>2. Stored(a) \in BOOLEAN /\ isDefault \in BOOLEAN
    BY <1>0 DEF Stored, TypeOK
  <2>3. subs' \in [Agents -> Nat] /\ tracked' \in [Agents -> BOOLEAN] /\ Tracked'
    <3>1. CASE Stored(a) \/ isDefault
      BY <1>0, <1>6, <3>1 DEF StartClient, TypeOK, Typed, Tracked
    <3>2. CASE ~(Stored(a) \/ isDefault)
      BY <1>0, <1>6, <3>2 DEF StartClient, TypeOK, Typed, Tracked
    <3> QED BY <3>1, <3>2
  <2>4. /\ listening' \in [Agents -> BOOLEAN]
        /\ asked' \in [Agents -> Waiting \union {None}]
    BY <1>0, <1>6 DEF StartClient, TypeOK
  <2>5. TypeOK'
    BY <1>0, <2>1, <2>3, <2>4 DEF TypeOK, group, store, service
  <2> QED BY <2>1, <2>3, <2>5 DEF Typed, Awaits, NotYet, Idle, group, store, service
<1>7. ASSUME NEW a \in Agents, SubscribeNotification(a) PROVE Typed'
  <2>1. UNCHANGED <<group, store, service, agents, subs, tracked>>
    BY <1>7 DEF SubscribeNotification, admission
  <2>2. listening' \in [Agents -> BOOLEAN]
    BY <1>0, <1>7 DEF SubscribeNotification, TypeOK
  <2>3. TypeOK'
    BY <1>0, <2>1, <2>2 DEF TypeOK, group, store, service, agents
  <2> QED BY <2>1, <2>3 DEF Typed, Tracked, Awaits, NotYet, Idle, group, store, service
<1>8. CASE UNCHANGED vars
  <2>1. TypeOK'
    BY <1>0, <1>8 DEF TypeOK, vars, admission, group, store, service, agents, client
  <2> QED BY <1>8, <2>1
          DEF Typed, Tracked, Awaits, NotYet, Idle, vars, admission, group, store, service,
              client
<1> QED BY <1>1, <1>3, <1>4, <1>5, <1>6, <1>7, <1>8 DEF Next, Follow

LEMMA InitTyped == Init => Typed
<1> SUFFICES ASSUME Init PROVE Typed
  OBVIOUS
<1>1. /\ isDefault \in BOOLEAN /\ exists \in BOOLEAN /\ version = 0 /\ out = <<>>
      /\ work = [s \in Subjects |-> None] /\ inbox = [s \in Subjects |-> <<>>]
      /\ turn = [a \in Agents |-> 0] /\ told = [a \in Agents |-> 0]
      /\ asked = [a \in Agents |-> None] /\ notices = [a \in Agents |-> <<>>]
      /\ members = IF exists THEN <<Owner>> ELSE <<>>
      /\ pending = [a \in Agents |-> "none"]
      /\ saved = IF exists THEN Record ELSE None
  BY DEF Init, AdmissionInit
<1>2. members \in Seq(Agents) /\ pending \in [Agents -> Statuses]
  BY <1>1, AdmissionAssumption DEF Statuses, Texts
<1>3. saved \in GroupRecord \union {None}
  BY <1>1, <1>2, WrittenType DEF Record
<1>4. /\ subs \in [Agents -> Nat] /\ tracked \in [Agents -> BOOLEAN]
      /\ listening \in [Agents -> BOOLEAN] /\ Tracked
  <2>1. subs = [a \in Agents |-> IF exists /\ a = Owner THEN 1 ELSE 0]
    BY DEF Init
  <2>2. subs \in [Agents -> Nat]
    BY <2>1
  <2>3. tracked = [a \in Agents |-> subs[a] = 1]
    BY DEF Init
  <2>4. tracked \in [Agents -> BOOLEAN]
    BY <2>3
  <2>5. Tracked
    <3>1. \A a \in Agents : tracked[a] => subs[a] = 1
      BY <2>3, Zenon
    <3> QED BY <2>2, <3>1 DEF Tracked
  <2>6. listening \in [Agents -> BOOLEAN]
    <3>1. listening = [a \in Agents |-> TRUE]
      BY DEF Init
    <3> QED BY <3>1
  <2> QED BY <2>2, <2>4, <2>5, <2>6
<1>5. Awaits /\ NotYet
  BY <1>1 DEF Awaits, AwaitsIn, NotYet, Idle
<1>6. /\ inbox \in [Subjects -> Seq(Request)] /\ out \in Seq(Item)
      /\ notices \in [Agents -> Seq({"added", "removed"})]
      /\ work \in [Subjects -> Work \union {None}]
      /\ asked \in [Agents -> Waiting \union {None}]
  BY <1>1
<1>7. /\ version \in Nat /\ turn \in [Agents -> Nat] /\ told \in [Agents -> Nat]
  BY <1>1
<1>8. TypeOK
  BY <1>1, <1>2, <1>3, <1>4, <1>6, <1>7 DEF TypeOK
<1> QED BY <1>4, <1>5, <1>8 DEF Typed

(* The record, the requests, the handlers and what the service sends, for  *)
(* any agents and commands (group_admission.py, group_manager.py).         *)
THEOREM TypeCorrect == Spec => []TypeOK
<1>1. Typed => TypeOK
  BY DEF Typed
<1> QED BY <1>1, InitTyped, NextTyped, PTL DEF Spec

-----------------------------------------------------------------------------
(* Who was told it is in. *)

IsPut(x) == x.do = "put"
Names(x, a) == a \in ToSet(x.rec.members)

(* The answer that tells a it is in, once that is stored. *)
Admits(x, a) ==
    /\ x.do = "answer" /\ x.result \in {"created", "joined", "approved"}
    /\ x.request.agent = a

(* From the stored record over the puts on their way to the one in memory, *)
(* a stays in once it is in; an answer that admits a comes after a record  *)
(* that names it.                                                          *)
ChainIn(q, stored, inside, a) ==
    /\ stored => inside /\ \A i \in DOMAIN q : IsPut(q[i]) => Names(q[i], a)
    /\ \A i \in DOMAIN q : IsPut(q[i]) /\ Names(q[i], a) =>
          inside /\ \A k \in DOMAIN q : IsPut(q[k]) /\ i < k => Names(q[k], a)
    /\ \A j \in DOMAIN q : Admits(q[j], a) =>
          stored \/ \E i \in DOMAIN q : i < j /\ IsPut(q[i]) /\ Names(q[i], a)

(* An agent a handler is about to let in is named by the record it has put *)
(* or stored, or by the one it will put.                                   *)
At(w, s, stage, a) == w[s] # None /\ w[s].stage = stage /\ w[s].request.agent = a

(* They read the announcement, with an answer or without.                  *)
Admitted(w, a) == At(w, "join", "get", a) \/ At(w, "join", "unread", a)
Approving(w, a) == At(w, "approve", "admit", a) \/ At(w, "approve", "unread", a)

(* The handlers whose put is the first to name the agent they let in.      *)
Entering(s, w, a) ==
    \/ s = "create" /\ w[s] # None /\ w[s].request.agent = a
    \/ s = "join" /\ At(w, s, "admit", a)

EntersIn(q, w, stored, inside, a) ==
    /\ \A i \in DOMAIN q :
          IsPut(q[i]) /\ Entering(q[i].subject, w, a) => Names(q[i], a)
    /\ Admitted(w, a) => stored
    /\ Approving(w, a) => inside

LEMMA ChainAppend ==
    ASSUME NEW q \in Seq(Item), NEW x \in Item, NEW a, NEW stored, NEW inside,
           ChainIn(q, stored, inside, a),
           IsPut(x) => (Names(x, a) <=> inside),
           Admits(x, a) => stored \/ \E i \in DOMAIN q : IsPut(q[i]) /\ Names(q[i], a)
    PROVE  ChainIn(Append(q, x), stored, inside, a)
<1> DEFINE n == Len(q) + 1
           e == Append(q, x)
<1>1. /\ DOMAIN e = 1 .. n /\ e[n] = x /\ DOMAIN q = 1 .. Len(q) /\ Len(q) \in Nat
      /\ \A i \in DOMAIN q : e[i] = q[i] /\ i < n
      /\ \A i \in DOMAIN e : i \in DOMAIN q \/ i = n
  OBVIOUS
<1>2. \A i \in DOMAIN q : ~ n < i
  BY <1>1
<1> HIDE DEF n, e
<1>3. stored => inside /\ \A i \in DOMAIN e : IsPut(e[i]) => Names(e[i], a)
  BY <1>1 DEF ChainIn
<1>4. \A i \in DOMAIN e : IsPut(e[i]) /\ Names(e[i], a) =>
         inside /\ \A k \in DOMAIN e : IsPut(e[k]) /\ i < k => Names(e[k], a)
  BY <1>1, <1>2 DEF ChainIn
<1>5. \A j \in DOMAIN e : Admits(e[j], a) =>
         stored \/ \E i \in DOMAIN e : i < j /\ IsPut(e[i]) /\ Names(e[i], a)
  <2> SUFFICES ASSUME NEW j \in DOMAIN e, Admits(e[j], a), ~stored
               PROVE  \E i \in DOMAIN e : i < j /\ IsPut(e[i]) /\ Names(e[i], a)
    OBVIOUS
  <2>1. DOMAIN q \subseteq DOMAIN e
    BY <1>1 DEF n
  <2>2. CASE j = n
    BY <1>1, <2>1, <2>2
  <2>3. CASE j \in DOMAIN q
    BY <1>1, <2>1, <2>3 DEF ChainIn
  <2> QED BY <1>1, <2>2, <2>3
<1> QED BY <1>3, <1>4, <1>5 DEF ChainIn, e

LEMMA ChainPushes ==
    ASSUME NEW q \in Seq(Item), NEW p \in Seq(Item), Pushes(p), NEW a, NEW stored, NEW inside,
           ChainIn(q, stored, inside, a)
    PROVE  ChainIn(q \o p, stored, inside, a)
<1> DEFINE e == q \o p
<1>1. /\ DOMAIN e = 1 .. Len(q) + Len(p)
      /\ \A i \in 1 .. Len(q) + Len(p) : e[i] =
                     IF i <= Len(q) THEN q[i] ELSE p[i - Len(q)]
  BY ConcatProperties
<1>2. \A i \in 1 .. Len(q) + Len(p) : i > Len(q) => i - Len(q) \in DOMAIN p
  OBVIOUS
<1>3. \A i \in DOMAIN e : IsPut(e[i]) \/ Admits(e[i], a) => i \in DOMAIN q /\ e[i] = q[i]
  BY <1>1, <1>2 DEF Pushes, IsPut, Admits
<1>4. \A i \in DOMAIN q : i \in DOMAIN e /\ e[i] = q[i]
  BY <1>1
<1> HIDE DEF e
<1> QED BY <1>3, <1>4 DEF ChainIn, e

LEMMA ChainTail ==
    ASSUME NEW q \in Seq(Item), q # <<>>, NEW a, NEW stored, NEW inside,
           ChainIn(q, stored, inside, a)
    PROVE  /\ ~IsPut(Head(q)) => /\ ChainIn(Tail(q), stored, inside, a)
                                 /\ Admits(Head(q), a) => stored
           /\ IsPut(Head(q)) => /\ ChainIn(Tail(q), Names(Head(q), a), inside, a)
                                /\ stored => Names(Head(q), a)
<1> DEFINE e == Tail(q)
           x == Head(q)
<1>1. /\ x = q[1] /\ 1 \in DOMAIN q
      /\ \A i \in DOMAIN e : i + 1 \in DOMAIN q /\ 1 < i + 1 /\ e[i] = q[i + 1]
      /\ \A i \in DOMAIN q : ~ i < 1
      /\ \A i \in DOMAIN q : i = 1 \/ (i - 1 \in DOMAIN e /\ q[i] = e[i - 1])
      /\ \A i, k \in DOMAIN e : i < k <=> i + 1 < k + 1
      /\ \A i \in DOMAIN q, k \in DOMAIN e : i < k + 1 => i = 1 \/ i - 1 < k
  OBVIOUS
<1> HIDE DEF e, x
<1>2. ~IsPut(x) => ChainIn(e, stored, inside, a)
  <2> SUFFICES ASSUME ~IsPut(x) PROVE ChainIn(e, stored, inside, a)
    OBVIOUS
  <2>1. stored => inside /\ \A i \in DOMAIN e : IsPut(e[i]) => Names(e[i], a)
    BY <1>1 DEF ChainIn
  <2>2. \A i \in DOMAIN e : IsPut(e[i]) /\ Names(e[i], a) =>
           inside /\ \A k \in DOMAIN e : IsPut(e[k]) /\ i < k => Names(e[k], a)
    BY <1>1 DEF ChainIn
  <2>3. \A j \in DOMAIN e : Admits(e[j], a) =>
           stored \/ \E i \in DOMAIN e : i < j /\ IsPut(e[i]) /\ Names(e[i], a)
    <3> SUFFICES ASSUME NEW j \in DOMAIN e, Admits(e[j], a), ~stored
                 PROVE  \E i \in DOMAIN e : i < j /\ IsPut(e[i]) /\ Names(e[i], a)
      OBVIOUS
    <3>1. PICK i \in DOMAIN q : i < j + 1 /\ IsPut(q[i]) /\ Names(q[i], a)
      BY <1>1 DEF ChainIn
    <3>2. i # 1
      BY <1>1, <3>1
    <3> QED BY <1>1, <3>1, <3>2
  <2> QED BY <2>1, <2>2, <2>3 DEF ChainIn
<1>3. ~IsPut(x) /\ Admits(x, a) => stored
  BY <1>1 DEF ChainIn
<1>4. IsPut(x) /\ stored => Names(x, a)
  BY <1>1 DEF ChainIn
<1>5. IsPut(x) => ChainIn(e, Names(x, a), inside, a)
  <2> SUFFICES ASSUME IsPut(x) PROVE ChainIn(e, Names(x, a), inside, a)
    OBVIOUS
  <2>1. Names(x, a) => inside /\ \A i \in DOMAIN e : IsPut(e[i]) => Names(e[i], a)
    BY <1>1 DEF ChainIn
  <2>2. \A i \in DOMAIN e : IsPut(e[i]) /\ Names(e[i], a) =>
           inside /\ \A k \in DOMAIN e : IsPut(e[k]) /\ i < k => Names(e[k], a)
    BY <1>1 DEF ChainIn
  <2>3. \A j \in DOMAIN e : Admits(e[j], a) =>
           Names(x, a) \/ \E i \in DOMAIN e : i < j /\ IsPut(e[i]) /\ Names(e[i], a)
    <3> SUFFICES ASSUME NEW j \in DOMAIN e, Admits(e[j], a), ~Names(x, a)
                 PROVE  \E i \in DOMAIN e : i < j /\ IsPut(e[i]) /\ Names(e[i], a)
      OBVIOUS
    <3>1. PICK i \in DOMAIN q : i < j + 1 /\ IsPut(q[i]) /\ Names(q[i], a)
      <4>1. ~stored
        BY <1>1 DEF ChainIn
      <4> QED BY <1>1, <4>1 DEF ChainIn
    <3>2. i # 1
      BY <1>1, <3>1
    <3> QED BY <1>1, <3>1, <3>2
  <2> QED BY <2>1, <2>2, <2>3 DEF ChainIn
<1> QED BY <1>2, <1>3, <1>4, <1>5 DEF e, x

LEMMA ChainMore ==
    ASSUME NEW q, NEW a, NEW stored \in BOOLEAN, NEW inside \in BOOLEAN, NEW more \in BOOLEAN,
           ChainIn(q, stored, inside, a), inside => more
    PROVE  ChainIn(q, stored, more, a)
BY DEF ChainIn

LEMMA EntersAppend ==
    ASSUME NEW q \in Seq(Item), NEW x \in Item, NEW w, NEW a, NEW stored, NEW inside,
           EntersIn(q, w, stored, inside, a),
           IsPut(x) /\ Entering(x.subject, w, a) => Names(x, a)
    PROVE  EntersIn(Append(q, x), w, stored, inside, a)
<1> DEFINE e == Append(q, x)
<1>1. \A i \in DOMAIN e : (i \in DOMAIN q /\ e[i] = q[i]) \/ e[i] = x
  OBVIOUS
<1> HIDE DEF e
<1>2. \A i \in DOMAIN e : IsPut(e[i]) /\ Entering(e[i].subject, w, a) => Names(e[i], a)
  BY <1>1 DEF EntersIn
<1> QED BY <1>2 DEF EntersIn, e

LEMMA EntersPushes ==
    ASSUME NEW q \in Seq(Item), NEW p \in Seq(Item), Pushes(p), NEW w, NEW a,
           NEW stored, NEW inside, EntersIn(q, w, stored, inside, a)
    PROVE  EntersIn(q \o p, w, stored, inside, a)
<1> DEFINE e == q \o p
<1>1. /\ DOMAIN e = 1 .. Len(q) + Len(p)
      /\ \A i \in 1 .. Len(q) + Len(p) : e[i] =
                     IF i <= Len(q) THEN q[i] ELSE p[i - Len(q)]
  BY ConcatProperties
<1>2. \A i \in 1 .. Len(q) + Len(p) : i > Len(q) => i - Len(q) \in DOMAIN p
  OBVIOUS
<1>3. \A i \in DOMAIN e : IsPut(e[i]) => i \in DOMAIN q /\ e[i] = q[i]
  BY <1>1, <1>2 DEF Pushes, IsPut
<1> HIDE DEF e
<1>4. \A i \in DOMAIN e : IsPut(e[i]) /\ Entering(e[i].subject, w, a) => Names(e[i], a)
  BY <1>3 DEF EntersIn
<1> QED BY <1>4 DEF EntersIn, e

LEMMA EntersTail ==
    ASSUME NEW q \in Seq(Item), q # <<>>, NEW w, NEW a, NEW stored, NEW inside,
           EntersIn(q, w, stored, inside, a)
    PROVE  /\ EntersIn(Tail(q), w, stored, inside, a)
           /\ IsPut(Head(q)) /\ Entering(Head(q).subject, w, a) => Names(Head(q), a)
<1> DEFINE e == Tail(q)
           x == Head(q)
<1>1. /\ x = q[1] /\ 1 \in DOMAIN q
      /\ \A i \in DOMAIN e : i + 1 \in DOMAIN q /\ e[i] = q[i + 1]
  OBVIOUS
<1> HIDE DEF e, x
<1>2. \A i \in DOMAIN e : IsPut(e[i]) /\ Entering(e[i].subject, w, a) => Names(e[i], a)
  BY <1>1 DEF EntersIn
<1>3. IsPut(x) /\ Entering(x.subject, w, a) => Names(x, a)
  BY <1>1 DEF EntersIn
<1> QED BY <1>2, <1>3 DEF EntersIn, e, x

(* One handler moves on, for which nothing is on its way. *)
LEMMA EntersOther ==
    ASSUME NEW q \in Seq(Item), NEW s \in Subjects, NEW w, NEW v, NEW a,
           NEW stored \in BOOLEAN, NEW inside \in BOOLEAN,
           NEW then \in BOOLEAN, NEW more \in BOOLEAN,
           EntersIn(q, w, stored, inside, a), Free(s, q),
           \A t \in Subjects \ {s} : v[t] = w[t],
           stored => then, inside => more,
           s = "join" /\ Admitted(v, a) => then,
           s = "approve" /\ Approving(v, a) => more
    PROVE  EntersIn(q, v, then, more, a)
<1>1. \A i \in DOMAIN q : IsPut(q[i]) => q[i].subject \in Subjects \ {s}
  BY DEF Free, Awaited, IsPut, Item, Subjects
<1>2. \A i \in DOMAIN q : IsPut(q[i]) /\ Entering(q[i].subject, v, a) => Names(q[i], a)
  <2> SUFFICES ASSUME NEW i \in DOMAIN q, IsPut(q[i]), Entering(q[i].subject, v, a)
               PROVE  Names(q[i], a)
    OBVIOUS
  <2>1. v[q[i].subject] = w[q[i].subject]
    BY <1>1
  <2>2. Entering(q[i].subject, w, a)
    BY <2>1 DEF Entering, At, Admitted, Approving
  <2> QED BY <2>2 DEF EntersIn
<1>3. Admitted(v, a) => then
  <2>1. CASE s = "join"
    BY <2>1
  <2>2. CASE s # "join"
    <3>1. v["join"] = w["join"]
      BY <2>2 DEF Subjects
    <3> QED BY <3>1 DEF EntersIn, At, Admitted, Approving
  <2> QED BY <2>1, <2>2
<1>4. Approving(v, a) => more
  <2>1. CASE s = "approve"
    BY <2>1
  <2>2. CASE s # "approve"
    <3>1. v["approve"] = w["approve"]
      BY <2>2 DEF Subjects
    <3> QED BY <3>1 DEF EntersIn, At, Admitted, Approving
  <2> QED BY <2>1, <2>2
<1> QED BY <1>2, <1>3, <1>4 DEF EntersIn

(* What is kept, of what is on its way and of what the handlers are at. *)
KeptIn(q, w, stored, inside, a) ==
    ChainIn(q, stored, inside, a) /\ EntersIn(q, w, stored, inside, a)

Kept(a) ==
    /\ KeptIn(out, work, Stored(a), a \in ToSet(members), a)
    /\ a \in granted \ early => Stored(a)

KeepsIn == ~lost => \A a \in Agents \ gone : Kept(a)

(* Something is issued that is no put, or the put of the record in memory. *)
LEMMA KeptAppend ==
    ASSUME NEW q \in Seq(Item), NEW x \in Item, NEW w, NEW a,
           NEW stored \in BOOLEAN, NEW inside \in BOOLEAN,
           KeptIn(q, w, stored, inside, a),
           IsPut(x) => (Names(x, a) <=> inside),
           IsPut(x) /\ Entering(x.subject, w, a) => Names(x, a),
           Admits(x, a) => stored \/ \E i \in DOMAIN q : IsPut(q[i]) /\ Names(q[i], a)
    PROVE  KeptIn(Append(q, x), w, stored, inside, a)
<1>1. ChainIn(Append(q, x), stored, inside, a)
  BY ChainAppend DEF KeptIn
<1>2. EntersIn(Append(q, x), w, stored, inside, a)
  BY EntersAppend DEF KeptIn
<1> QED BY <1>1, <1>2 DEF KeptIn

LEMMA KeptPushes ==
    ASSUME NEW q \in Seq(Item), NEW p \in Seq(Item), Pushes(p), NEW w, NEW a,
           NEW stored \in BOOLEAN, NEW inside \in BOOLEAN,
           KeptIn(q, w, stored, inside, a)
    PROVE  KeptIn(q \o p, w, stored, inside, a)
<1>1. ChainIn(q \o p, stored, inside, a)
  BY ChainPushes DEF KeptIn
<1>2. EntersIn(q \o p, w, stored, inside, a)
  BY EntersPushes DEF KeptIn
<1> QED BY <1>1, <1>2 DEF KeptIn

(* A handler moves on and the record in memory changes, for what is issued *)
(* before.                                                                 *)
LEMMA KeptMore ==
    ASSUME NEW q \in Seq(Item), NEW s \in Subjects, NEW w, NEW v, NEW a,
           NEW stored \in BOOLEAN, NEW inside \in BOOLEAN, NEW more \in BOOLEAN,
           KeptIn(q, w, stored, inside, a), Free(s, q),
           \A t \in Subjects \ {s} : v[t] = w[t], inside => more,
           s = "join" /\ Admitted(v, a) => stored,
           s = "approve" /\ Approving(v, a) => more
    PROVE  KeptIn(q, v, stored, more, a)
<1>1. ChainIn(q, stored, more, a)
  BY ChainMore DEF KeptIn
<1>2. EntersIn(q, w, stored, inside, a)
  BY DEF KeptIn
<1>3. EntersIn(q, v, stored, more, a)
  BY <1>2, EntersOther
<1> QED BY <1>1, <1>3 DEF KeptIn

(* A handler begins, with regard to an agent a: what it puts is the record *)
(* in memory, and a stays in if it is in, and is if it is let in.          *)
LEMMA BeginKeeps ==
    ASSUME Typed, NEW a \in Agents, Kept(a),
           NEW s \in Subjects, NEW r, Begins(s, r), NEW stage \in {"save", "admit"},
           Await(s, r, stage), UNCHANGED <<saved, answers>>,
           NEW x \in Item, NEW y \in Item, Issue(<<x>>) \/ Issue(<<x, y>>),
           ~Admits(x, a), ~Admits(y, a), ~IsPut(y),
           IsPut(x) => (Names(x, a) <=> a \in ToSet(members')),
           IsPut(x) /\ Entering(x.subject, work', a) => Names(x, a),
           a \in ToSet(members) => a \in ToSet(members'),
           s = "approve" /\ stage = "admit" /\ r.agent = a => a \in ToSet(members')
    PROVE  Kept(a)'
<1> DEFINE inside == a \in ToSet(members)
           more == a \in ToSet(members')
           stored == Stored(a)
<1>1. /\ out \in Seq(Item) /\ TypeOK /\ Free(s, out) /\ r \in Request
  BY FreeOfIdle, ConsumeType DEF Begins, Typed, Awaits, TypeOK
<1>2. /\ work'[s] # None /\ work'[s].request = r /\ work'[s].stage = stage
      /\ \A t \in Subjects \ {s} : work'[t] = work[t]
  BY <1>1, AwaitType
<1>3. Stored(a)' = stored /\ granted' = granted /\ early' = early
  BY DEF Stored, answers
<1>4. /\ KeptIn(out, work, stored, inside, a)
      /\ stored \in BOOLEAN /\ inside \in BOOLEAN /\ more \in BOOLEAN
      /\ inside => more
      /\ a \in granted \ early => stored
  BY DEF Kept, Stored
<1>5. s = "join" /\ Admitted(work', a) => stored
  BY <1>2 DEF At, Admitted, Approving
<1>6. s = "approve" /\ Approving(work', a) => more
  BY <1>2 DEF At, Admitted, Approving
<1>7. IsPut(x) => (Names(x, a) <=> more)
  OBVIOUS
<1> HIDE DEF inside, more, stored
<1>8. KeptIn(out, work', stored, more, a)
  BY <1>1, <1>2, <1>4, <1>5, <1>6, KeptMore
<1>9. /\ Append(out, x) \in Seq(Item)
      /\ KeptIn(Append(out, x), work', stored, more, a)
  <2>1. Append(out, x) \in Seq(Item)
    BY <1>1
  <2>2. IsPut(x) /\ Entering(x.subject, work', a) => Names(x, a)
    OBVIOUS
  <2>3. KeptIn(Append(out, x), work', stored, more, a)
    BY <1>1, <1>4, <1>7, <1>8, <2>2, KeptAppend
  <2> QED BY <2>1, <2>3
<1>10. KeptIn(Append(Append(out, x), y), work', stored, more, a)
  BY <1>4, <1>9, KeptAppend
<1>11. out' = Append(out, x) \/ out' = Append(Append(out, x), y)
  BY <1>1, Issued DEF Issue
<1>12. KeptIn(out', work', stored, more, a)
  BY <1>9, <1>10, <1>11
<1> QED BY <1>3, <1>4, <1>12 DEF Kept, more

(* An answer that admits nobody leaves everything as it is. *)
LEMMA RefuseKeeps ==
    ASSUME Typed, NEW a \in Agents, Kept(a),
           NEW s \in Subjects, NEW r, NEW result \in Results, Begins(s, r),
           Refuse(s, r, result), result \notin {"created", "joined", "approved"}
    PROVE  Kept(a)'
<1> DEFINE y == Answer(r, result)
           inside == a \in ToSet(members)
           stored == Stored(a)
<1>1. r \in Request /\ out \in Seq(Item)
  BY ConsumeType DEF Begins, Typed, TypeOK
<1>2. y \in Item /\ ~IsPut(y) /\ ~Admits(y, a)
  BY <1>1, ItemType DEF IsPut, Admits
<1>3. UNCHANGED <<saved, members, granted, early, work>>
  BY DEF Refuse, group, store, history, answers
<1>4. /\ Stored(a)' = stored /\ (a \in ToSet(members))' = inside
      /\ stored \in BOOLEAN /\ inside \in BOOLEAN
  BY <1>3 DEF Stored
<1>5. KeptIn(out, work, stored, inside, a) /\ (a \in granted \ early => stored)
  BY DEF Kept
<1> HIDE DEF y, inside, stored
<1>6. out' = Append(out, y)
  BY <1>1, <1>2, Issued DEF Refuse, Issue, y
<1>7. KeptIn(out', work, stored, inside, a)
  BY <1>1, <1>2, <1>4, <1>5, <1>6, KeptAppend
<1> QED BY <1>3, <1>4, <1>5, <1>7 DEF Kept

LEMMA ToSetAppend ==
    ASSUME NEW list \in Seq(Agents), NEW e \in Agents
    PROVE  \A b : b \in ToSet(Append(list, e)) <=> b \in ToSet(list) \/ b = e
<1> DEFINE l == Append(list, e)
<1>1. /\ DOMAIN l = 1 .. Len(list) + 1 /\ DOMAIN list = 1 .. Len(list)
      /\ Len(list) \in Nat /\ l[Len(list) + 1] = e
      /\ \A i \in 1 .. Len(list) : l[i] = list[i]
  OBVIOUS
<1>2. \A i \in DOMAIN l : i \in DOMAIN list \/ i = Len(list) + 1
  BY <1>1
<1>3. \A i \in DOMAIN list : i \in DOMAIN l
  BY <1>1
<1>4. Len(list) + 1 \in DOMAIN l
  BY <1>1
<1> HIDE DEF l
<1> QED BY <1>1, <1>2, <1>3, <1>4 DEF ToSet, l

LEMMA ToSetOne == \A e : \A b : b \in ToSet(<<e>>) <=> b = e
BY DEF ToSet

LEMMA HandleKeeps ==
    ASSUME Typed, Handle, NEW a \in Agents, Kept(a), a \notin gone'
    PROVE  Kept(a)'
<1> PICK s \in Subjects : inbox[s] # <<>>
                          /\ LET r == Head(inbox[s]) IN
                             \/ HandleCreate(r) \/ HandleJoin(r) \/ HandleApprove(r)
                             \/ HandleLeave(r) \/ HandleAnnounce(r)
  BY DEF Handle
<1> DEFINE r == Head(inbox[s])
<1>r. \/ HandleCreate(r) \/ HandleJoin(r) \/ HandleApprove(r)
      \/ HandleLeave(r) \/ HandleAnnounce(r)
  OBVIOUS
<1> HIDE DEF r
<1> USE DEF Subjects
<1>0. /\ members \in Seq(Agents) /\ pending \in [Agents -> Statuses]
      /\ TypeOK /\ exists \in BOOLEAN
  BY DEF Typed, TypeOK
<1>n. \A b \in Agents, action \in {"added", "removed"} :
         LET y == Notice(b, action) IN y \in Item /\ ~IsPut(y) /\ ~Admits(y, a)
  BY ItemType DEF IsPut, Admits
<1>p. \A t \in Subjects, m \in Seq(Agents), p \in [Agents -> Statuses] :
         LET x == PutGroup(t, m, p) IN
         /\ x \in Item /\ x.subject = t /\ ~Admits(x, a)
         /\ Names(x, a) <=> a \in ToSet(m)
  BY ItemType DEF Names, Admits, Statuses, Texts
<1>1. CASE HandleCreate(r)
  <2>1. Begins("create", r)
    BY <1>1 DEF HandleCreate
  <2>2. CASE exists /\ Refuse("create", r, "exists")
    BY <2>1, <2>2, RefuseKeeps DEF Results
  <2>3. CASE /\ ~exists /\ members' = <<r.agent>>
             /\ Issue(<<PutGroup("create", <<r.agent>>, pending)>>)
             /\ Await("create", r, "save") /\ UNCHANGED <<store, history>>
    <3>1. r \in Request /\ r.agent \in Agents
      BY <1>0, <2>1, ConsumeType DEF Begins, Request
    <3> DEFINE m == <<r.agent>>
               x == PutGroup("create", m, pending)
               y == Notice(r.agent, "added")
    <3>2. m \in Seq(Agents) /\ \A b : b \in ToSet(m) <=> b = r.agent
      BY <3>1, ToSetOne
    <3>3. members' = m /\ Issue(<<x>>)
      BY <2>3
    <3> HIDE DEF m
    <3>4. /\ x \in Item /\ x.subject = "create" /\ ~Admits(x, a)
          /\ Names(x, a) <=> a \in ToSet(m)
      BY <1>0, <1>p, <3>2
    <3>5. y \in Item /\ ~IsPut(y) /\ ~Admits(y, a)
      BY <1>n, <3>1
    <3>6. work'["create"].request = r
      BY <1>0, <2>3, <3>1, AwaitType
    <3> HIDE DEF x, y
    <3>7. Entering(x.subject, work', a) => Names(x, a)
      BY <3>2, <3>4, <3>6 DEF Entering
    <3>8. a \in ToSet(members) => a \in ToSet(members')
      <4>1. members = <<>>
        BY <2>3 DEF Typed, NotYet
      <4> QED BY <4>1 DEF ToSet
    <3>9. UNCHANGED <<saved, answers>>
      BY <2>3 DEF store, history
    <3> QED BY <2>1, <2>3, <3>3, <3>4, <3>5, <3>7, <3>8, <3>9, BeginKeeps
  <2> QED BY <1>1, <2>2, <2>3 DEF HandleCreate
<1>2. CASE HandleJoin(r)
  <2>1. Begins("join", r)
    BY <1>2 DEF HandleJoin
  <2>2. CASE ~exists /\ Refuse("join", r, "not_found")
    BY <2>1, <2>2, RefuseKeeps DEF Results
  <2>3. CASE exists /\ r.agent \in ToSet(members) /\ Refuse("join", r, "already_member")
    BY <2>1, <2>3, RefuseKeeps DEF Results
  <2>4. CASE (JoinDefault(r) \/ AskToJoin(r)) /\ UNCHANGED <<store, answers>>
    <3>1. r \in Request /\ r.agent \in Agents
      BY <1>0, <2>1, ConsumeType DEF Begins, Request
    <3> DEFINE y == Notice(r.agent, "added")
    <3>2. y \in Item /\ ~IsPut(y) /\ ~Admits(y, a)
      BY <1>n, <3>1
    <3>3. UNCHANGED <<saved, answers>>
      BY <2>4 DEF store
    <3> HIDE DEF y
    <3>4. CASE JoinDefault(r)
      <4> DEFINE m == Append(members, r.agent)
                 x == PutGroup("join", m, pending)
      <4>1. /\ m \in Seq(Agents)
            /\ \A b : b \in ToSet(m) <=> b \in ToSet(members) \/ b = r.agent
        BY <1>0, <3>1, ToSetAppend
      <4>2. members' = m /\ Issue(<<x>>) /\ Await("join", r, "admit")
        BY <3>4 DEF JoinDefault
      <4> HIDE DEF m
      <4>3. /\ x \in Item /\ x.subject = "join" /\ ~Admits(x, a)
            /\ Names(x, a) <=> a \in ToSet(m)
        BY <1>0, <1>p, <4>1
      <4>4. work'["join"].request = r
        BY <1>0, <3>1, <4>2, AwaitType
      <4> HIDE DEF x
      <4>5. Entering(x.subject, work', a) => Names(x, a)
        BY <4>1, <4>3, <4>4 DEF Entering, At, Admitted, Approving
      <4> QED BY <2>1, <3>2, <3>3, <4>1, <4>2, <4>3, <4>5, BeginKeeps
    <3>5. CASE AskToJoin(r)
      <4> DEFINE p == [pending EXCEPT ![r.agent] = "pending"]
                 x == PutGroup("join", members, p)
      <4>1. p \in [Agents -> Statuses]
        BY <1>0, <3>1 DEF Statuses, Texts
      <4>2. members' = members /\ Issue(<<x>>) /\ Await("join", r, "save")
        BY <3>5 DEF AskToJoin
      <4> HIDE DEF p
      <4>3. /\ x \in Item /\ x.subject = "join" /\ ~Admits(x, a)
            /\ Names(x, a) <=> a \in ToSet(members)
        BY <1>0, <1>p, <4>1
      <4>4. work'["join"].stage = "save"
        BY <1>0, <3>1, <4>2, AwaitType
      <4> HIDE DEF x
      <4>5. ~Entering(x.subject, work', a)
        BY <4>3, <4>4 DEF Entering, At, Admitted, Approving
      <4> QED BY <2>1, <3>2, <3>3, <4>2, <4>3, <4>5, BeginKeeps
    <3> QED BY <2>4, <3>4, <3>5
  <2> QED BY <1>2, <2>2, <2>3, <2>4 DEF HandleJoin
<1>3. CASE HandleApprove(r)
  <2>1. Begins("approve", r)
    BY <1>3 DEF HandleApprove
  <2>2. CASE ~exists /\ Refuse("approve", r, "not_found")
    BY <2>1, <2>2, RefuseKeeps DEF Results
  <2>3. CASE exists /\ ~MayDecide(r.from) /\ Refuse("approve", r, "unauthorized")
    BY <2>1, <2>3, RefuseKeeps DEF Results
  <2>4. CASE (Approve(r) \/ Reject(r)) /\ UNCHANGED <<store, answers>>
    <3>1. r \in Request /\ r.agent \in Agents
      BY <1>0, <2>1, ConsumeType DEF Begins, Request
    <3>2. UNCHANGED <<saved, answers>>
      BY <2>4 DEF store
    <3>3. CASE Approve(r)
      <4> DEFINE x == Get("approve")
                 y == Notice(r.agent, "added")
      <4>1. x \in Item /\ ~IsPut(x) /\ ~Admits(x, a)
        BY ItemType DEF IsPut, Admits
      <4>2. y \in Item /\ ~IsPut(y) /\ ~Admits(y, a)
        BY <1>n, <3>1
      <4>3. Issue(<<x, y>>) /\ Await("approve", r, "admit")
            /\ members' = Append(members, r.agent)
        BY <3>3 DEF Approve
      <4>4. \A b : b \in ToSet(members') <=> b \in ToSet(members) \/ b = r.agent
        BY <1>0, <3>1, <4>3, ToSetAppend
      <4> HIDE DEF x, y
      <4> QED BY <2>1, <3>2, <4>1, <4>2, <4>3, <4>4, BeginKeeps
    <3>4. CASE Reject(r)
      <4> DEFINE p == [pending EXCEPT ![r.agent] = "rejected"]
                 x == PutGroup("approve", members, p)
                 y == Answer(r, "rejected")
      <4>1. p \in [Agents -> Statuses]
        BY <1>0, <3>1 DEF Statuses, Texts
      <4>2. members' = members /\ Issue(<<x, y>>) /\ Await("approve", r, "save")
        BY <3>4 DEF Reject
      <4> HIDE DEF p
      <4>3. /\ x \in Item /\ x.subject = "approve" /\ ~Admits(x, a)
            /\ Names(x, a) <=> a \in ToSet(members)
        BY <1>0, <1>p, <4>1
      <4>4. y \in Item /\ ~IsPut(y) /\ ~Admits(y, a)
        BY <3>1, ItemType DEF IsPut, Admits, Results
      <4> HIDE DEF x, y
      <4>5. ~Entering(x.subject, work', a)
        BY <4>3 DEF Entering
      <4> QED BY <2>1, <3>2, <4>2, <4>3, <4>4, <4>5, BeginKeeps
    <3> QED BY <2>4, <3>3, <3>4
  <2> QED BY <1>3, <2>2, <2>3, <2>4 DEF HandleApprove
<1>4. CASE HandleLeave(r)
  <2>1. Begins("leave", r)
    BY <1>4 DEF HandleLeave
  <2>2. CASE ~exists /\ Refuse("leave", r, "not_found")
    BY <2>1, <2>2, RefuseKeeps DEF Results
  <2>3. CASE exists /\ r.agent \notin ToSet(members) /\ Refuse("leave", r, "not_member")
    BY <2>1, <2>3, RefuseKeeps DEF Results
  <2>4. CASE /\ exists /\ r.agent \in ToSet(members) /\ Forbidden(r)
             /\ Refuse("leave", r, "unauthorized")
    BY <2>1, <2>4, RefuseKeeps DEF Results
  <2>5. CASE /\ members' = RemoveFirst(members, r.agent)
             /\ pending' = [pending EXCEPT ![r.agent] = "none"]
             /\ Issue(<<PutGroup("leave", members', pending')>>)
             /\ Await("leave", r, "save") /\ UNCHANGED <<store, answers>>
             /\ gone' = gone \union {r.agent}
    <3>1. r \in Request /\ r.agent \in Agents
      BY <1>0, <2>1, ConsumeType DEF Begins, Request
    <3>2. members' \in Seq(Agents) /\ pending' \in [Agents -> Statuses]
      BY <1>0, <2>5, <3>1, RemoveFirstKeeps DEF Statuses, Texts
    <3> DEFINE x == PutGroup("leave", members', pending')
               y == Notice(r.agent, "added")
    <3>3. /\ x \in Item /\ x.subject = "leave" /\ ~Admits(x, a)
          /\ Names(x, a) <=> a \in ToSet(members')
      BY <1>p, <3>2
    <3>4. y \in Item /\ ~IsPut(y) /\ ~Admits(y, a)
      BY <1>n, <3>1
    <3>5. a \in ToSet(members) => a \in ToSet(members')
      <4>1. a # r.agent
        BY <2>5
      <4>2. \A b \in ToSet(members) \ {r.agent} : b \in ToSet(members')
        BY <1>0, <2>5, RemoveFirstKeeps
      <4> QED BY <4>1, <4>2
    <3>6. Issue(<<x>>) /\ UNCHANGED <<saved, answers>>
      BY <2>5 DEF store
    <3> HIDE DEF x, y
    <3>7. ~Entering(x.subject, work', a)
      BY <3>3 DEF Entering
    <3> QED BY <2>1, <2>5, <3>3, <3>4, <3>5, <3>6, <3>7, BeginKeeps
  <2> QED BY <1>4, <2>2, <2>3, <2>4, <2>5 DEF HandleLeave
<1>5. CASE HandleAnnounce(r)
  <2>1. Begins("announce", r)
    BY <1>5 DEF HandleAnnounce
  <2>2. CASE ~exists /\ Refuse("announce", r, "not_found")
    BY <2>1, <2>2, RefuseKeeps DEF Results
  <2>3. CASE exists /\ r.from # Owner /\ Refuse("announce", r, "unauthorized")
    BY <2>1, <2>3, RefuseKeeps DEF Results
  <2>4. CASE /\ Issue(<<PutAnnouncement>>) /\ Await("announce", r, "save")
             /\ UNCHANGED <<group, store, history>>
    <3> DEFINE x == PutAnnouncement
    <3>1. x \in Item /\ ~IsPut(x) /\ ~Admits(x, a)
      BY ItemType DEF IsPut, Admits
    <3>2. Issue(<<x>>) /\ UNCHANGED <<saved, answers, members>>
      BY <2>4 DEF group, store, history
    <3> HIDE DEF x
    <3> QED BY <2>1, <2>4, <3>1, <3>2, BeginKeeps
  <2> QED BY <1>5, <2>2, <2>3, <2>4 DEF HandleAnnounce
<1> QED BY <1>r, <1>1, <1>2, <1>3, <1>4, <1>5

(* The first thing issued has arrived: it was put, or it was not. *)
LEMMA KeptTail ==
    ASSUME NEW q \in Seq(Item), q # <<>>, NEW w, NEW a,
           NEW stored \in BOOLEAN, NEW inside \in BOOLEAN,
           KeptIn(q, w, stored, inside, a)
    PROVE  /\ ~IsPut(Head(q)) => /\ KeptIn(Tail(q), w, stored, inside, a)
                                 /\ Admits(Head(q), a) => stored
           /\ IsPut(Head(q)) => /\ KeptIn(Tail(q), w, Names(Head(q), a), inside, a)
                                /\ stored => Names(Head(q), a)
                                /\ Entering(Head(q).subject, w, a) => Names(Head(q), a)
<1>1. /\ ~IsPut(Head(q)) => /\ ChainIn(Tail(q), stored, inside, a)
                            /\ Admits(Head(q), a) => stored
      /\ IsPut(Head(q)) => /\ ChainIn(Tail(q), Names(Head(q), a), inside, a)
                           /\ stored => Names(Head(q), a)
  BY ChainTail DEF KeptIn
<1>2. /\ EntersIn(Tail(q), w, stored, inside, a)
      /\ IsPut(Head(q)) /\ Entering(Head(q).subject, w, a) => Names(Head(q), a)
  BY EntersTail DEF KeptIn
<1>3. (stored => Names(Head(q), a)) => EntersIn(Tail(q), w, Names(Head(q), a), inside, a)
  BY <1>2 DEF EntersIn
<1> QED BY <1>1, <1>2, <1>3 DEF KeptIn

(* A put has landed and its handler goes on. *)
LEMMA PutKeeps ==
    ASSUME Typed, PutLands, NEW a \in Agents, Kept(a)
    PROVE  Kept(a)'
<1> DEFINE q == Tail(out)
           h == Head(out)
           s == h.subject
           r == work[s].request
           inside == a \in ToSet(members)
           then == Names(h, a)
<1>1. First("put") /\ AfterPut(s) /\ saved' = h.rec /\ UNCHANGED <<members, granted>>
  BY DEF PutLands, group
<1>2. /\ h \in Item /\ IsPut(h) /\ h.rec \in GroupRecord
      /\ q \in Seq(Item) /\ s \in Subjects /\ work[s] # None
      /\ r \in Request /\ r.agent \in Agents /\ Free(s, q) /\ TypeOK
  BY <1>1, FirstOut, HeadType DEF IsPut, Typed
<1>3. out \in Seq(Item) /\ out # <<>>
  BY <1>1 DEF First, Typed, TypeOK
<1>4. /\ KeptIn(q, work, then, inside, a)
      /\ Stored(a) => then
      /\ Entering(s, work, a) => then
  <2>1. KeptIn(out, work, Stored(a), inside, a) /\ Stored(a) \in BOOLEAN /\ inside \in BOOLEAN
    BY DEF Kept, Stored
  <2> HIDE DEF inside
  <2> QED BY <1>2, <1>3, <2>1, KeptTail
<1>5. Stored(a)' = then /\ (a \in ToSet(members))' = inside
  <2>1. h.rec # None
    BY <1>2, ManagerAssumption
  <2> QED BY <1>1, <2>1 DEF Stored, Names
<1>g. a \in granted' \ early' => then
  <2>1. granted' = granted /\ early' = early \ ToSet(h.rec.members)
    BY DEF PutLands
  <2>2. a \in granted \ early => then
    BY <1>4 DEF Kept
  <2> QED BY <2>1, <2>2 DEF Names
<1>6. AfterPutForm(s, q)
  BY <1>1, AfterPutForms
<1>7. /\ \A b \in Agents, action \in {"added", "removed"} :
            LET y == Notice(b, action) IN y \in Item /\ ~IsPut(y) /\ ~Admits(y, a)
      /\ \A result \in Results : LET y == Answer(r, result) IN
            /\ y \in Item /\ ~IsPut(y)
            /\ Admits(y, a) <=> result \in {"created", "joined", "approved"} /\ r.agent = a
      /\ LET x == Get(s) IN x \in Item /\ ~IsPut(x) /\ ~Admits(x, a)
  BY <1>2, ItemType DEF IsPut, Admits
<1>8. then \in BOOLEAN /\ inside \in BOOLEAN
  BY DEF Names
<1> HIDE DEF q, h, s, inside, then
<1>9. \A x \in Item : ~IsPut(x) /\ (Admits(x, a) => then)
        => \A t \in Seq(Item) : KeptIn(t, work', then, inside, a)
             => Append(t, x) \in Seq(Item) /\ KeptIn(Append(t, x), work', then, inside, a)
  <2> SUFFICES ASSUME NEW x \in Item, ~IsPut(x), Admits(x, a) => then,
                      NEW t \in Seq(Item), KeptIn(t, work', then, inside, a)
               PROVE  Append(t, x) \in Seq(Item) /\ KeptIn(Append(t, x), work', then, inside, a)
    OBVIOUS
  <2>1. KeptIn(Append(t, x), work', then, inside, a)
    BY <1>8, KeptAppend
  <2> QED BY <2>1
<1>10. CASE Ends(s)
  <2>1. /\ work'[s] = None /\ \A t \in Subjects \ {s} : work'[t] = work[t]
    BY <1>2, <1>10, EndsType
  <2>2. KeptIn(q, work', then, inside, a)
    <3>1. /\ s = "join" /\ Admitted(work', a) => FALSE
          /\ s = "approve" /\ Approving(work', a) => FALSE
      BY <2>1 DEF At, Admitted, Approving
    <3> QED BY <1>2, <1>4, <1>8, <2>1, <3>1, KeptMore
  <2> SUFFICES KeptIn(out', work', then, inside, a)
    BY <1>5, <1>g DEF Kept
  <2>3. CASE /\ s = "create"
             /\ out' = Append(Append(q, Notice(r.agent, "added")), Answer(r, "created"))
    <3>1. r.agent = a => then
      BY <1>2, <1>4, <2>3 DEF Entering
    <3> DEFINE x == Notice(r.agent, "added")
               y == Answer(r, "created")
    <3>2. x \in Item /\ ~IsPut(x) /\ (Admits(x, a) => then)
      BY <1>2, <1>7
    <3>3. y \in Item /\ ~IsPut(y) /\ (Admits(y, a) => then)
      BY <1>7, <3>1 DEF Results
    <3> HIDE DEF x, y
    <3>4. Append(q, x) \in Seq(Item) /\ KeptIn(Append(q, x), work', then, inside, a)
      BY <1>2, <1>9, <2>2, <3>2
    <3> QED BY <1>9, <2>3, <3>3, <3>4 DEF x, y
  <2>4. CASE out' = Append(q, Answer(r, "pending"))
    <3> DEFINE y == Answer(r, "pending")
    <3>1. y \in Item /\ ~IsPut(y) /\ (Admits(y, a) => then)
      BY <1>7 DEF Results
    <3> HIDE DEF y
    <3> QED BY <1>2, <1>9, <2>2, <2>4, <3>1 DEF y
  <2>5. CASE out' = q
    BY <2>2, <2>5
  <2>6. CASE out' = Append(Append(q, Notice(r.agent, "removed")), Answer(r, "left"))
    <3> DEFINE x == Notice(r.agent, "removed")
               y == Answer(r, "left")
    <3>1. x \in Item /\ ~IsPut(x) /\ (Admits(x, a) => then)
      BY <1>2, <1>7
    <3>2. y \in Item /\ ~IsPut(y) /\ (Admits(y, a) => then)
      BY <1>7 DEF Results
    <3> HIDE DEF x, y
    <3>3. Append(q, x) \in Seq(Item) /\ KeptIn(Append(q, x), work', then, inside, a)
      BY <1>2, <1>9, <2>2, <3>1
    <3> QED BY <1>9, <2>6, <3>2, <3>3 DEF x, y
  <2>7. ~Await(s, r, "get")
    <3>1. Await(s, r, "get") => work'[s] # None
      BY <1>2, AwaitType
    <3> QED BY <2>1, <3>1
  <2> QED BY <1>6, <2>3, <2>4, <2>5, <2>6, <2>7 DEF AfterPutForm
<1>11. CASE /\ s = "join" /\ work[s].stage = "admit" /\ Await(s, r, "get")
            /\ out' = Append(Append(q, Get(s)), Notice(r.agent, "added"))
  <2>1. /\ work'[s].request = r /\ work'[s].stage = "get"
        /\ \A t \in Subjects \ {s} : work'[t] = work[t]
    BY <1>2, <1>11, AwaitType
  <2>2. s = "join" /\ Admitted(work', a) => then
    BY <1>2, <1>4, <1>11, <2>1 DEF At, Admitted, Approving, Entering
  <2>3. KeptIn(q, work', then, inside, a)
    <3>1. s # "approve"
      BY <1>11
    <3> QED BY <1>2, <1>4, <1>8, <2>1, <2>2, <3>1, KeptMore
  <2>4. KeptIn(out', work', then, inside, a)
    BY <1>2, <1>7, <1>9, <1>11, <2>3
  <2> QED BY <1>5, <1>g, <2>4 DEF Kept
<1> QED BY <1>6, <1>10, <1>11 DEF AfterPutForm

(* The announcement has been read: an agent let in by a default group is   *)
(* stored, one that was approved is in the record that is put now.         *)
LEMMA GetKeeps ==
    ASSUME Typed, GetAnswered, NEW a \in Agents, Kept(a)
    PROVE  Kept(a)'
<1> DEFINE q == Tail(out)
           h == Head(out)
           s == h.subject
           r == work[s].request
           p == Pushed(r.agent)
           x == PutGroup(s, members, pending)
           inside == a \in ToSet(members)
           stored == Stored(a)
<1>1. First("get") /\ AfterGet(s) /\ UNCHANGED <<saved, members, granted, early>>
  BY DEF GetAnswered, group, store, history, answers
<1>2. /\ h \in Item /\ h.do = "get" /\ ~IsPut(h)
      /\ q \in Seq(Item) /\ s \in Subjects /\ work[s] # None
      /\ r \in Request /\ r.agent \in Agents /\ Free(s, q) /\ TypeOK /\ Fits(h, work)
  BY <1>1, FirstOut DEF IsPut, Typed
<1>3. out \in Seq(Item) /\ out # <<>>
  BY <1>1 DEF First, Typed, TypeOK
<1>4. /\ stored \in BOOLEAN /\ inside \in BOOLEAN /\ (a \in granted \ early => stored)
      /\ KeptIn(out, work, stored, inside, a)
      /\ Stored(a)' = stored /\ (a \in ToSet(members))' = inside
  BY <1>1 DEF Kept, Stored
<1>5. work[s].stage = IF s = "join" THEN "get" ELSE "admit"
  BY <1>2 DEF Fits
<1>6. AfterGetForm(s, q)
  BY <1>1, AfterGetForms
<1>7. /\ \A result \in {"joined", "approved"} : LET y == Answer(r, result) IN
            y \in Item /\ ~IsPut(y) /\ (Admits(y, a) => r.agent = a)
      /\ p \in Seq(Item) /\ Pushes(p)
      /\ x \in Item /\ IsPut(x) /\ x.subject = s /\ ~Admits(x, a) /\ (Names(x, a) <=> inside)
  <2>1. \A result \in {"joined", "approved"} : LET y == Answer(r, result) IN
            y \in Item /\ ~IsPut(y) /\ (Admits(y, a) => r.agent = a)
    BY <1>2, ItemType DEF IsPut, Admits, Results
  <2>2. p \in Seq(Item) /\ Pushes(p)
    BY <1>2, PushedType
  <2>3. members \in Seq(Agents) /\ pending \in [Agents -> Statuses]
    BY <1>2 DEF TypeOK
  <2>4. x \in Item /\ IsPut(x) /\ x.subject = s /\ ~Admits(x, a) /\ x.rec.members = members
    BY <1>2, <2>3, ItemType DEF IsPut, Admits
  <2> QED BY <2>1, <2>2, <2>4 DEF Names
<1> HIDE DEF q, h, s, p, x, inside, stored
<1>8. KeptIn(q, work, stored, inside, a)
  BY <1>2, <1>3, <1>4, KeptTail DEF q, h
<1>9. /\ Admitted(work, a) => stored
      /\ Approving(work, a) => inside
  BY <1>8 DEF KeptIn, EntersIn
<1>10. CASE /\ s = "join" /\ Ends(s) /\ out' = Append(q \o p, Answer(r, "joined"))
  <2>1. /\ work'[s] = None /\ \A t \in Subjects \ {s} : work'[t] = work[t]
    BY <1>2, <1>10, EndsType
  <2>2. KeptIn(q, work', stored, inside, a)
    <3>1. /\ s = "join" /\ Admitted(work', a) => FALSE
          /\ s = "approve" /\ Approving(work', a) => FALSE
      BY <2>1 DEF At, Admitted, Approving
    <3> QED BY <1>2, <1>4, <1>8, <2>1, <3>1, KeptMore
  <2>3. q \o p \in Seq(Item) /\ KeptIn(q \o p, work', stored, inside, a)
    BY <1>2, <1>4, <1>7, <2>2, KeptPushes, ConcatProperties
  <2>4. r.agent = a => stored
    BY <1>2, <1>5, <1>9, <1>10 DEF At, Admitted, Approving
  <2>5. KeptIn(out', work', stored, inside, a)
    <3> DEFINE y == Answer(r, "joined")
    <3>1. y \in Item /\ ~IsPut(y) /\ (Admits(y, a) => stored)
      BY <1>7, <2>4
    <3> HIDE DEF y
    <3>2. KeptIn(Append(q \o p, y), work', stored, inside, a)
      BY <1>4, <2>3, <3>1, KeptAppend
    <3> QED BY <1>10, <3>2 DEF y
  <2> QED BY <1>1, <1>4, <2>5 DEF Kept
<1>11. CASE /\ s = "approve" /\ Await(s, r, "save")
            /\ out' = Append(Append(q, x) \o p, Answer(r, "approved"))
  <2>1. /\ work'[s].stage = "save" /\ \A t \in Subjects \ {s} : work'[t] = work[t]
    BY <1>2, <1>11, AwaitType
  <2>2. KeptIn(q, work', stored, inside, a)
    <3>1. /\ s = "join" /\ Admitted(work', a) => FALSE
          /\ s = "approve" /\ Approving(work', a) => FALSE
      BY <2>1 DEF At, Admitted, Approving
    <3> QED BY <1>2, <1>4, <1>8, <2>1, <3>1, KeptMore
  <2> DEFINE e == Append(q, x)
  <2>3. ~Entering(x.subject, work', a)
    BY <1>7, <1>11 DEF Entering
  <2>4. e \in Seq(Item) /\ KeptIn(e, work', stored, inside, a)
    <3>1. e \in Seq(Item)
      BY <1>2, <1>7
    <3>2. KeptIn(e, work', stored, inside, a)
      BY <1>2, <1>4, <1>7, <2>2, <2>3, KeptAppend
    <3> QED BY <3>1, <3>2
  <2>5. Len(q) + 1 \in DOMAIN e /\ e[Len(q) + 1] = x
    BY <1>2, <1>7
  <2> HIDE DEF e
  <2>6. /\ e \o p \in Seq(Item) /\ KeptIn(e \o p, work', stored, inside, a)
        /\ Len(q) + 1 \in DOMAIN (e \o p) /\ (e \o p)[Len(q) + 1] = x
    <3>1. /\ e \o p \in Seq(Item) /\ Len(e \o p) = Len(e) + Len(p)
          /\ \A i \in 1 .. Len(e) + Len(p) : (e \o p)[i] =
                     IF i <= Len(e) THEN e[i] ELSE p[i - Len(e)]
      BY <1>7, <2>4, ConcatProperties
    <3>2. KeptIn(e \o p, work', stored, inside, a)
      BY <1>4, <1>7, <2>4, KeptPushes
    <3>3. Len(q) + 1 \in 1 .. Len(e) /\ Len(p) \in Nat
      BY <1>7, <2>4, <2>5
    <3>4. Len(q) + 1 \in DOMAIN (e \o p)
      BY <2>4, <3>1, <3>3
    <3>5. (e \o p)[Len(q) + 1] = x
      BY <2>4, <2>5, <3>1, <3>3
    <3> QED BY <3>1, <3>2, <3>4, <3>5
  <2>7. r.agent = a => inside
    BY <1>2, <1>5, <1>9, <1>11 DEF At, Admitted, Approving
  <2>8. KeptIn(out', work', stored, inside, a)
    <3> DEFINE y == Answer(r, "approved")
               f == e \o p
    <3>1. /\ y \in Item /\ ~IsPut(y)
          /\ Admits(y, a) => IsPut(x) /\ Names(x, a)
      BY <1>7, <2>7
    <3> HIDE DEF y, f
    <3>2. /\ f \in Seq(Item) /\ KeptIn(f, work', stored, inside, a)
          /\ Len(q) + 1 \in DOMAIN f /\ f[Len(q) + 1] = x
      BY <2>6 DEF f
    <3>3. Admits(y, a) => stored \/ \E i \in DOMAIN f : IsPut(f[i]) /\ Names(f[i], a)
      BY <3>1, <3>2
    <3>4. KeptIn(Append(f, y), work', stored, inside, a)
      BY <1>4, <3>1, <3>2, <3>3, KeptAppend
    <3> QED BY <1>11, <3>4 DEF y, e, f
  <2> QED BY <1>1, <1>4, <2>8 DEF Kept
<1> QED BY <1>6, <1>10, <1>11 DEF AfterGetForm, p, x

(* The announcement could not be read: the handler waits, as it did. *)
LEMMA GetFailsKeeps ==
    ASSUME Typed, GetFails, NEW a \in Agents, Kept(a)
    PROVE  Kept(a)'
<1> DEFINE q == Tail(out)
           h == Head(out)
           s == h.subject
           r == work[s].request
           inside == a \in ToSet(members)
           stored == Stored(a)
<1>1. /\ First("get") /\ Await(s, r, "unread") /\ out' = q
      /\ UNCHANGED <<saved, members, granted, early>>
  BY DEF GetFails, group, store, answers
<1>2. /\ h \in Item /\ h.do = "get" /\ ~IsPut(h)
      /\ q \in Seq(Item) /\ s \in Subjects /\ work[s] # None
      /\ r \in Request /\ r.agent \in Agents /\ Free(s, q) /\ TypeOK /\ Fits(h, work)
  BY <1>1, FirstOut DEF IsPut, Typed
<1>3. out \in Seq(Item) /\ out # <<>>
  BY <1>1 DEF First, Typed, TypeOK
<1>4. /\ stored \in BOOLEAN /\ inside \in BOOLEAN /\ (a \in granted \ early => stored)
      /\ KeptIn(out, work, stored, inside, a)
      /\ Stored(a)' = stored /\ (a \in ToSet(members))' = inside
  BY <1>1 DEF Kept, Stored
<1>5. work[s].stage = IF s = "join" THEN "get" ELSE "admit"
  BY <1>2 DEF Fits
<1>6. /\ work'[s].request = r /\ work'[s].stage = "unread"
      /\ \A t \in Subjects \ {s} : work'[t] = work[t]
  BY <1>1, <1>2, AwaitType
<1> HIDE DEF q, h, s, inside, stored
<1>7. KeptIn(q, work, stored, inside, a)
  BY <1>2, <1>3, <1>4, KeptTail DEF q, h
<1>8. (Admitted(work, a) => stored) /\ (Approving(work, a) => inside)
  BY <1>7 DEF KeptIn, EntersIn
<1>9. s = "join" /\ Admitted(work', a) => stored
  BY <1>2, <1>5, <1>6, <1>8 DEF At, Admitted
<1>10. s = "approve" /\ Approving(work', a) => inside
  BY <1>2, <1>5, <1>6, <1>8 DEF At, Approving
<1>11. KeptIn(q, work', stored, inside, a)
  BY <1>2, <1>4, <1>6, <1>7, <1>9, <1>10, KeptMore
<1> QED BY <1>1, <1>4, <1>11 DEF Kept

(* The handler goes on without the announcement. *)
LEMMA GetTimesOutKeeps ==
    ASSUME Typed, NEW s \in Subjects, GetTimesOut(s), NEW a \in Agents, Kept(a)
    PROVE  Kept(a)'
<1> DEFINE r == work[s].request
           x == PutGroup(s, members, pending)
           inside == a \in ToSet(members)
           stored == Stored(a)
<1>1. /\ work[s] # None /\ work[s].stage = "unread"
      /\ UNCHANGED <<saved, members, granted, early>>
  BY DEF GetTimesOut, group, store, history, answers
<1>2. /\ out \in Seq(Item) /\ TypeOK /\ r \in Request /\ r.agent \in Agents
      /\ members \in Seq(Agents) /\ pending \in [Agents -> Statuses]
  BY <1>1, WorkType DEF Typed, TypeOK
<1>3. /\ stored \in BOOLEAN /\ inside \in BOOLEAN /\ (a \in granted \ early => stored)
      /\ KeptIn(out, work, stored, inside, a)
      /\ Stored(a)' = stored /\ (a \in ToSet(members))' = inside
  BY <1>1 DEF Kept, Stored
<1>4. /\ \A result \in {"joined", "approved"} : LET y == Answer(r, result) IN
            y \in Item /\ ~IsPut(y) /\ (Admits(y, a) => r.agent = a)
      /\ x \in Item /\ IsPut(x) /\ x.subject = s /\ ~Admits(x, a) /\ (Names(x, a) <=> inside)
  BY <1>2, ItemType DEF IsPut, Admits, Names, Results
<1>5. (Admitted(work, a) => stored) /\ (Approving(work, a) => inside)
  BY <1>3 DEF KeptIn, EntersIn
<1> HIDE DEF x, inside, stored
<1>6. CASE s = "join" /\ Ends(s) /\ Issue(<<Answer(r, "joined")>>)
  <2> DEFINE y == Answer(r, "joined")
  <2>1. /\ work'[s] = None /\ \A t \in Subjects \ {s} : work'[t] = work[t]
    BY <1>2, <1>6, EndsType
  <2>2. Free(s, out)
    BY <1>1, <1>6, UnreadIsFree
  <2>3. KeptIn(out, work', stored, inside, a)
    <3>1. /\ s = "join" /\ Admitted(work', a) => FALSE
          /\ s = "approve" /\ Approving(work', a) => FALSE
      BY <2>1 DEF At, Admitted, Approving
    <3> QED BY <1>2, <1>3, <2>1, <2>2, <3>1, KeptMore
  <2>4. r.agent = a => stored
    BY <1>1, <1>5, <1>6 DEF At, Admitted
  <2>5. y \in Item /\ ~IsPut(y) /\ (Admits(y, a) => stored)
    BY <1>4, <2>4
  <2>6. out' = Append(out, y)
    BY <1>2, <1>6, <2>5, Issued DEF Issue
  <2> HIDE DEF y
  <2>7. KeptIn(Append(out, y), work', stored, inside, a)
    <3>1. out \in Seq(Item) /\ stored \in BOOLEAN /\ inside \in BOOLEAN
      BY <1>2, <1>3
    <3> QED BY <2>3, <2>5, <3>1, KeptAppend
  <2> QED BY <1>1, <1>3, <2>6, <2>7 DEF Kept
<1>7. CASE /\ s = "approve" /\ Await(s, r, "save")
           /\ Issue(<<x, Answer(r, "approved")>>)
  <2> DEFINE y == Answer(r, "approved")
             e == Append(out, x)
  <2>1. /\ work'[s].stage = "save" /\ \A t \in Subjects \ {s} : work'[t] = work[t]
    BY <1>2, <1>7, AwaitType
  <2>2. Free(s, out)
    BY <1>1, <1>7, UnreadIsFree
  <2>3. KeptIn(out, work', stored, inside, a)
    <3>1. /\ s = "join" /\ Admitted(work', a) => FALSE
          /\ s = "approve" /\ Approving(work', a) => FALSE
      BY <1>7, <2>1 DEF At, Approving
    <3> QED BY <1>2, <1>3, <2>1, <2>2, <3>1, KeptMore
  <2>4. ~Entering(x.subject, work', a)
    BY <1>4, <1>7 DEF Entering
  <2>5. /\ e \in Seq(Item) /\ KeptIn(e, work', stored, inside, a)
        /\ Len(out) + 1 \in DOMAIN e /\ e[Len(out) + 1] = x
    <3>1. e \in Seq(Item) /\ Len(out) + 1 \in DOMAIN e /\ e[Len(out) + 1] = x
      BY <1>2, <1>4
    <3>2. out \in Seq(Item) /\ stored \in BOOLEAN /\ inside \in BOOLEAN
      BY <1>2, <1>3
    <3>3. x \in Item /\ IsPut(x) /\ ~Admits(x, a) /\ (Names(x, a) <=> inside)
      BY <1>4
    <3>4. KeptIn(e, work', stored, inside, a)
      BY <2>3, <2>4, <3>2, <3>3, KeptAppend
    <3> QED BY <3>1, <3>4
  <2>6. r.agent = a => inside
    BY <1>1, <1>5, <1>7 DEF At, Approving
  <2>7. y \in Item /\ ~IsPut(y) /\ (Admits(y, a) => IsPut(x) /\ Names(x, a))
    BY <1>4, <2>6
  <2>8. out' = Append(e, y)
    BY <1>2, <1>4, <1>7, <2>7, Issued DEF Issue
  <2> HIDE DEF y, e
  <2>9. Admits(y, a) => stored \/ \E i \in DOMAIN e : IsPut(e[i]) /\ Names(e[i], a)
    BY <2>5, <2>7
  <2>10. KeptIn(out', work', stored, inside, a)
    BY <1>3, <2>5, <2>7, <2>8, <2>9, KeptAppend
  <2> QED BY <1>1, <1>3, <2>10 DEF Kept
<1> QED BY <1>6, <1>7 DEF GetTimesOut, x

LEMMA AnnouncementKeeps ==
    ASSUME Typed, AnnouncementLands \/ AnnouncementFails, NEW a \in Agents, Kept(a)
    PROVE  Kept(a)'
<1> DEFINE q == Tail(out)
           p == ToAll(members)
           r == work["announce"].request
           y == Answer(r, "set")
           inside == a \in ToSet(members)
           stored == Stored(a)
<1>1. First("announce") /\ UNCHANGED <<saved, members, granted, early>>
  BY DEF AnnouncementLands, AnnouncementFails, group, history, answers
<1>2. /\ Head(out).do = "announce" /\ Head(out).subject = "announce" /\ ~IsPut(Head(out))
      /\ q \in Seq(Item) /\ Free("announce", q) /\ TypeOK /\ r \in Request
      /\ "announce" \in Subjects
  BY <1>1, FirstOut DEF IsPut, Typed, Fits, Subjects
<1>3. out \in Seq(Item) /\ out # <<>>
  BY <1>1 DEF First, Typed, TypeOK
<1>4. /\ stored \in BOOLEAN /\ inside \in BOOLEAN /\ (a \in granted \ early => stored)
      /\ KeptIn(out, work, stored, inside, a)
      /\ Stored(a)' = stored /\ (a \in ToSet(members))' = inside
  BY <1>1 DEF Kept, Stored
<1>5. Ends("announce") /\ (out' = q \/ (Pushes(p) /\ p \in Seq(Item) /\ out' = Append(q \o p, y)))
  BY <1>1, AfterAnnouncementForm DEF AnnouncementLands, AnnouncementFails, AfterAnnouncement
<1>6. y \in Item /\ ~IsPut(y) /\ ~Admits(y, a)
  BY <1>2, ItemType DEF IsPut, Admits, Results
<1> HIDE DEF q, p, y, inside, stored
<1>7. KeptIn(q, work, stored, inside, a)
  BY <1>2, <1>3, <1>4, KeptTail DEF q
<1>8. KeptIn(q, work', stored, inside, a)
  <2> DEFINE s == "announce"
  <2>1. \A t \in Subjects \ {s} : work'[t] = work[t]
    BY <1>2, <1>5, EndsType
  <2>2. s \in Subjects /\ s # "join" /\ s # "approve" /\ Free(s, q)
    BY <1>2
  <2> HIDE DEF s
  <2>3. /\ s = "join" /\ Admitted(work', a) => FALSE
        /\ s = "approve" /\ Approving(work', a) => FALSE
    BY <2>2
  <2>4. inside => inside
    OBVIOUS
  <2> QED BY <1>2, <1>4, <1>7, <2>1, <2>2, <2>3, <2>4, KeptMore
<1>9. CASE out' = q
  BY <1>1, <1>4, <1>8, <1>9 DEF Kept
<1>10. CASE Pushes(p) /\ p \in Seq(Item) /\ out' = Append(q \o p, y)
  <2>1. q \o p \in Seq(Item) /\ KeptIn(q \o p, work', stored, inside, a)
    BY <1>2, <1>4, <1>8, <1>10, KeptPushes, ConcatProperties
  <2>2. KeptIn(out', work', stored, inside, a)
    BY <1>4, <1>6, <1>10, <2>1, KeptAppend
  <2> QED BY <1>1, <1>4, <2>2 DEF Kept
<1> QED BY <1>5, <1>9, <1>10

(* Something that was put earlier has landed: who is told that it is in is *)
(* named by the record stored then.                                        *)
LEMMA ArriveKeeps ==
    ASSUME Typed, PushArrives \/ NoticeLeaves \/ AnswerArrives, NEW a \in Agents, Kept(a)
    PROVE  Kept(a)'
<1> DEFINE q == Tail(out)
           h == Head(out)
           inside == a \in ToSet(members)
           stored == Stored(a)
<1>1. /\ out \in Seq(Item) /\ out # <<>> /\ ~IsPut(h) /\ out' = q
      /\ UNCHANGED <<saved, members, work>>
  BY DEF First, Typed, TypeOK, IsPut, PushArrives, NoticeLeaves, AnswerArrives,
         group, store, history
<1>2. /\ stored \in BOOLEAN /\ inside \in BOOLEAN /\ (a \in granted \ early => stored)
      /\ KeptIn(out, work, stored, inside, a)
      /\ Stored(a)' = stored /\ (a \in ToSet(members))' = inside
  BY <1>1 DEF Kept, Stored
<1>3. a \in granted' \ early' => a \in granted \ early \/ Admits(h, a) \/ stored
  <2>1. CASE PushArrives \/ NoticeLeaves
    BY <2>1 DEF PushArrives, NoticeLeaves, history, answers
  <2>2. CASE AnswerArrives
    <3> SUFFICES ASSUME a \in granted', a \notin early', ~stored
                 PROVE  a \in granted \ early \/ Admits(h, a)
      OBVIOUS
    <3>1. early \subseteq early'
      BY <2>2 DEF AnswerArrives
    <3>2. CASE a \in granted
      BY <3>1, <3>2
    <3>3. CASE a \notin granted
      <4> DEFINE awaited == asked[h.request.from] # None
                            /\ turn[h.request.from] = h.request.turn
      <4>1. awaited /\ h.result \in Positive /\ h.request.agent = a /\ h.do = "answer"
        BY <2>2, <3>3 DEF AnswerArrives, First
      <4>2. h.result # "already_member"
        <5>1. h.result = "already_member" => early' = early \union {a}
          BY <2>2, <4>1 DEF AnswerArrives
        <5> QED BY <5>1
      <4> QED BY <4>1, <4>2 DEF Admits, Positive
    <3> QED BY <3>2, <3>3
  <2> QED BY <2>1, <2>2
<1> HIDE DEF q, h, inside, stored
<1>4. KeptIn(q, work, stored, inside, a) /\ (Admits(h, a) => stored)
  BY <1>1, <1>2, KeptTail DEF q, h
<1> QED BY <1>1, <1>2, <1>3, <1>4 DEF Kept

LEMMA CrashKeeps ==
    ASSUME Typed, Crash, NEW a \in Agents, Kept(a)
    PROVE  Kept(a)'
<1>1. /\ out' = <<>> /\ work' = [s \in Subjects |-> None]
      /\ members' = Loaded.members /\ saved' = saved
      /\ granted' = granted /\ early' = early
  BY DEF Crash, store, answers
<1>2. (a \in ToSet(members))' <=> Stored(a)
  <2>1. CASE saved = None
    <3>1. members' = <<>>
      BY <1>1, <2>1 DEF Loaded
    <3> QED BY <2>1, <3>1 DEF Stored, ToSet
  <2>2. CASE saved # None
    BY <1>1, <2>2 DEF Loaded, Stored
  <2> QED BY <2>1, <2>2
<1>3. Stored(a)' <=> Stored(a)
  BY <1>1 DEF Stored
<1>4. ChainIn(out', Stored(a)', (a \in ToSet(members))', a)
  BY <1>1, <1>2, <1>3 DEF ChainIn
<1>5. EntersIn(out', work', Stored(a)', (a \in ToSet(members))', a)
  <2>1. work'["join"] = None /\ work'["approve"] = None
    BY <1>1 DEF Subjects
  <2> QED BY <1>1, <2>1 DEF EntersIn, At, Admitted, Approving
<1>6. a \in granted' \ early' => Stored(a)'
  BY <1>1, <1>3 DEF Kept
<1> QED BY <1>4, <1>5, <1>6 DEF Kept, KeptIn

(* Only agents are told that they are in. *)
LEMMA GrantedAgents == Typed /\ granted \subseteq Agents /\ [Next]_vars => (granted \subseteq Agents)'
<1> SUFFICES ASSUME Typed, granted \subseteq Agents, [Next]_vars PROVE granted' \subseteq Agents
  OBVIOUS
<1>1. CASE granted' = granted
  BY <1>1
<1>2. CASE AnswerArrives
  <2>1. Head(out).request \in Request
    BY <1>2, FirstOut, HeadType DEF AnswerArrives
  <2>2. granted' \subseteq granted \union {Head(out).request.agent}
    BY <1>2 DEF AnswerArrives
  <2> QED BY <2>1, <2>2 DEF Request
<1>3. CASE Handle
  <2>1. PICK r : \/ HandleCreate(r) \/ HandleJoin(r) \/ HandleApprove(r)
                 \/ HandleLeave(r) \/ HandleAnnounce(r)
    BY <1>3 DEF Handle
  <2>2. granted' = granted
    BY <2>1 DEF HandleCreate, HandleJoin, HandleApprove, HandleLeave, HandleAnnounce,
                Refuse, history, answers
  <2> QED BY <2>2
<1>4. CASE Crash \/ (Deliver /\ ~AnswerArrives)
  <2>1. granted' = granted
    BY <1>4 DEF Crash, Deliver, PutLands, PutFails, GetAnswered, GetFails, GetTimesOut,
                AnnouncementLands, AnnouncementFails, PushArrives, NoticeLeaves,
                history, answers
  <2> QED BY <2>1
<1>5. CASE (\E c \in Commands : Ask(c)) \/ Follow \/ UNCHANGED vars
  <2>1. granted' = granted
    BY <1>5 DEF Ask, Send, Follow, TimeOut, OnNotification, StartClient,
                SubscribeNotification, vars, admission, history, answers
  <2> QED BY <2>1
<1> QED BY <1>2, <1>3, <1>4, <1>5 DEF Next, Serve

LEMMA NextKeeps == Typed /\ KeepsIn /\ [Next]_vars => KeepsIn'
<1> SUFFICES ASSUME Typed, KeepsIn, [Next]_vars, ~lost', NEW a \in Agents, a \notin gone'
             PROVE  Kept(a)'
  BY DEF KeepsIn
<1>1. CASE UNCHANGED <<members, saved, work, out, granted, early, gone, lost>>
  BY <1>1 DEF KeepsIn, Kept, Stored
<1>2. CASE Serve
  <2>1. Handle \/ Deliver \/ Crash
    BY <1>2 DEF Serve
  <2>2. ~lost /\ a \notin gone
    <3>1. CASE Handle
      <4>1. PICK r : \/ HandleCreate(r) \/ HandleJoin(r) \/ HandleApprove(r)
                     \/ HandleLeave(r) \/ HandleAnnounce(r)
        BY <3>1 DEF Handle
      <4>2. UNCHANGED <<gone, lost>> \/ HandleLeave(r)
        BY <4>1 DEF HandleCreate, HandleJoin, HandleApprove, HandleAnnounce, Refuse, history
      <4>3. HandleLeave(r) => lost' = lost /\ (gone' = gone \/ gone' = gone \union {r.agent})
        BY DEF HandleLeave, Refuse, history
      <4> QED BY <4>2, <4>3
    <3>2. CASE Deliver
      <4>1. ~PutFails
        BY DEF PutFails
      <4>2. lost' = lost /\ gone' = gone
        BY <3>2, <4>1
           DEF Deliver, PutLands, GetAnswered, GetFails, GetTimesOut, AnnouncementLands,
               AnnouncementFails, PushArrives, NoticeLeaves, AnswerArrives, history
      <4> QED BY <4>2
    <3>3. CASE Crash
      BY <3>3 DEF Crash
    <3> QED BY <2>1, <3>1, <3>2, <3>3
  <2>3. Kept(a)
    BY <2>2 DEF KeepsIn
  <2>4. ~PutFails
    BY DEF PutFails
  <2> QED BY <2>1, <2>3, <2>4, HandleKeeps, PutKeeps, GetKeeps, GetFailsKeeps,
             GetTimesOutKeeps, AnnouncementKeeps, ArriveKeeps, CrashKeeps DEF Deliver
<1>3. CASE \/ \E c \in Commands : Ask(c)
           \/ Follow
           \/ UNCHANGED vars
  <2>1. UNCHANGED <<members, saved, work, out, granted, early, gone, lost>>
    BY <1>3 DEF Ask, Send, Follow, TimeOut, OnNotification, StartClient,
                SubscribeNotification, vars, admission, group, store, service, history,
                answers
  <2> QED BY <1>1, <2>1
<1> QED BY <1>2, <1>3 DEF Next

LEMMA InitKeeps == Init => KeepsIn
<1> SUFFICES ASSUME Init, NEW a \in Agents PROVE Kept(a)
  BY DEF KeepsIn
<1>1. /\ out = <<>> /\ work = [s \in Subjects |-> None] /\ granted = {}
      /\ exists \in BOOLEAN
      /\ members = IF exists THEN <<Owner>> ELSE <<>>
      /\ saved = IF exists THEN Record ELSE None
  BY DEF Init, AdmissionInit
<1>2. Stored(a) => a \in ToSet(members)
  BY <1>1 DEF Stored, Record, Written
<1>3. ChainIn(out, Stored(a), a \in ToSet(members), a)
  BY <1>1, <1>2 DEF ChainIn
<1>4. EntersIn(out, work, Stored(a), a \in ToSet(members), a)
  <2>1. work["join"] = None /\ work["approve"] = None
    BY <1>1 DEF Subjects
  <2> QED BY <1>1, <2>1 DEF EntersIn, At, Admitted, Approving
<1> QED BY <1>1, <1>3, <1>4 DEF Kept, KeptIn

(* Whoever has been told that it is in, and has not left or been removed   *)
(* since, is a member, as long as every put is answered: no crash of the   *)
(* service and no other request undoes an answer (_handle_join and         *)
(* _handle_approve put the record before they answer).  Of an agent that   *)
(* was told already_member before its approval was stored, nothing is said *)
(* until it is.                                                            *)
THEOREM AnsweredStaysIn == Spec => []AnsweredIsMember
<1>1. KeepsIn /\ granted \subseteq Agents => AnsweredIsMember
  <2> SUFFICES ASSUME KeepsIn, ~lost, NEW a \in granted \ (gone \union early), granted \subseteq Agents
               PROVE  a \in ToSet(members)
    BY DEF AnsweredIsMember
  <2> QED BY DEF KeepsIn, Kept, KeptIn, ChainIn
<1>2. Init => granted \subseteq Agents
  BY DEF Init, AdmissionInit
<1> QED BY <1>1, <1>2, InitTyped, NextTyped, InitKeeps, NextKeeps, GrantedAgents, PTL DEF Spec

-----------------------------------------------------------------------------
(* What is saved. *)

(* The last record put, or the one stored if none is on its way, is rec. *)
LatestIn(q, stored, rec) ==
    /\ (\A i \in DOMAIN q : ~IsPut(q[i])) => stored = rec
    /\ \A i \in DOMAIN q :
          IsPut(q[i]) /\ (\A k \in DOMAIN q : i < k => ~IsPut(q[k])) => q[i].rec = rec

(* An approval has changed the record and puts it once it has read the     *)
(* announcement, or could not.                                             *)
WillPut(w) == w["approve"] # None /\ w["approve"].stage \in {"admit", "unread"}

Latest == ~lost /\ exists /\ ~WillPut(work) => LatestIn(out, saved, Record)

LEMMA LatestPut ==
    ASSUME NEW q \in Seq(Item), NEW x \in Item, IsPut(x), NEW stored
    PROVE  LatestIn(Append(q, x), stored, x.rec)
<1> DEFINE e == Append(q, x)
           n == Len(q) + 1
<1>1. /\ DOMAIN e = 1 .. n /\ n \in 1 .. n /\ e[n] = x
      /\ \A i \in 1 .. n : i < n \/ i = n
  OBVIOUS
<1> HIDE DEF e, n
<1> QED BY <1>1 DEF LatestIn, e

LEMMA LatestOther ==
    ASSUME NEW q \in Seq(Item), NEW x \in Item, ~IsPut(x), NEW stored, NEW rec,
           LatestIn(q, stored, rec)
    PROVE  LatestIn(Append(q, x), stored, rec)
<1> DEFINE e == Append(q, x)
           n == Len(q) + 1
<1>1. /\ DOMAIN e = 1 .. n /\ e[n] = x /\ DOMAIN q = 1 .. Len(q) /\ Len(q) \in Nat
      /\ \A i \in DOMAIN q : e[i] = q[i] /\ i \in DOMAIN e
      /\ \A i \in DOMAIN e : i \in DOMAIN q \/ i = n
  OBVIOUS
<1> HIDE DEF e, n
<1> QED BY <1>1 DEF LatestIn, e

LEMMA LatestPushes ==
    ASSUME NEW q \in Seq(Item), NEW p \in Seq(Item), Pushes(p), NEW stored, NEW rec,
           LatestIn(q, stored, rec)
    PROVE  LatestIn(q \o p, stored, rec)
<1> DEFINE e == q \o p
<1>1. /\ DOMAIN e = 1 .. Len(q) + Len(p) /\ DOMAIN q = 1 .. Len(q)
      /\ Len(q) \in Nat /\ Len(p) \in Nat
      /\ \A i \in 1 .. Len(q) + Len(p) : e[i] =
                     IF i <= Len(q) THEN q[i] ELSE p[i - Len(q)]
  BY ConcatProperties
<1>2. \A i \in 1 .. Len(q) + Len(p) : i > Len(q) => i - Len(q) \in DOMAIN p
  OBVIOUS
<1> HIDE DEF e
<1>3. \A i \in DOMAIN e : IsPut(e[i]) => i \in DOMAIN q
  BY <1>1, <1>2 DEF Pushes, IsPut
<1>4. \A i \in DOMAIN q : i \in DOMAIN e /\ e[i] = q[i]
  BY <1>1
<1> HIDE DEF IsPut
<1> QED BY <1>3, <1>4 DEF LatestIn, e

LEMMA LatestTail ==
    ASSUME NEW q \in Seq(Item), q # <<>>, NEW stored, NEW rec, LatestIn(q, stored, rec)
    PROVE  LatestIn(Tail(q), IF IsPut(Head(q)) THEN Head(q).rec ELSE stored, rec)
<1> DEFINE e == Tail(q)
<1>1. /\ e \in Seq(Item) /\ DOMAIN q = 1 .. Len(q) /\ DOMAIN e = 1 .. Len(q) - 1
      /\ Len(q) \in Nat /\ 1 \in DOMAIN q /\ Head(q) = q[1]
      /\ \A i \in DOMAIN e : e[i] = q[i + 1] /\ i + 1 \in DOMAIN q /\ 1 < i + 1
  OBVIOUS
<1>2. \A k \in DOMAIN q : k = 1 \/ (k - 1 \in DOMAIN e /\ q[k] = e[k - 1])
  <2> SUFFICES ASSUME NEW k \in DOMAIN q, k # 1
               PROVE  k - 1 \in DOMAIN e /\ q[k] = e[k - 1]
    OBVIOUS
  <2>1. k - 1 \in DOMAIN e /\ (k - 1) + 1 = k
    BY <1>1
  <2> QED BY <1>1, <2>1
<1>3. \A i \in DOMAIN e, k \in DOMAIN q : i + 1 < k => i < k - 1 /\ k # 1
  BY <1>1
<1> HIDE DEF e
<1>4. ASSUME \A i \in DOMAIN e : ~IsPut(e[i])
      PROVE  (IF IsPut(Head(q)) THEN Head(q).rec ELSE stored) = rec
  <2>1. \A k \in DOMAIN q : k # 1 => ~IsPut(q[k])
    BY <1>2, <1>4
  <2>2. CASE IsPut(Head(q))
    <3>1. \A k \in DOMAIN q : 1 < k => ~IsPut(q[k])
      BY <1>1, <2>1
    <3> QED BY <1>1, <2>2, <3>1 DEF LatestIn
  <2>3. CASE ~IsPut(Head(q))
    <3>1. \A k \in DOMAIN q : ~IsPut(q[k])
      BY <1>1, <2>1, <2>3
    <3> QED BY <2>3, <3>1 DEF LatestIn
  <2> QED BY <2>2, <2>3
<1>5. ASSUME NEW i \in DOMAIN e, IsPut(e[i]), \A k \in DOMAIN e : i < k => ~IsPut(e[k])
      PROVE  e[i].rec = rec
  <2>1. i + 1 \in DOMAIN q /\ q[i + 1] = e[i]
    BY <1>1
  <2>2. \A k \in DOMAIN q : i + 1 < k => ~IsPut(q[k])
    BY <1>2, <1>3, <1>5
  <2> QED BY <1>5, <2>1, <2>2 DEF LatestIn
<1> QED BY <1>4, <1>5 DEF LatestIn, e

(* A handler begins: it puts the record it leaves, or will, or leaves it.  *)
LEMMA BeginLatest ==
    ASSUME Typed, Latest, NEW s \in Subjects, NEW r, Begins(s, r),
           NEW stage \in {"save", "admit"}, Await(s, r, stage),
           NEW x \in Item, NEW y \in Item, Issue(<<x>>) \/ Issue(<<x, y>>), ~IsPut(y),
           UNCHANGED <<saved, lost>>,
           \/ IsPut(x) /\ x.rec = Record'
           \/ s = "approve" /\ stage = "admit"
           \/ ~IsPut(x) /\ s # "approve" /\ UNCHANGED <<exists, Record>>
    PROVE  Latest'
<1>1. out \in Seq(Item) /\ r \in Request /\ TypeOK
  BY ConsumeType DEF Begins, Typed, TypeOK
<1>2. /\ work'[s] # None /\ work'[s].stage = stage
      /\ \A t \in Subjects \ {s} : work'[t] = work[t]
  BY <1>1, AwaitType
<1>3. out' = Append(out, x) \/ out' = Append(Append(out, x), y)
  BY <1>1, Issued DEF Issue
<1>4. Append(out, x) \in Seq(Item)
  BY <1>1
<1>5. CASE s = "approve" /\ stage = "admit"
  BY <1>2, <1>5 DEF Latest, WillPut
<1>6. CASE IsPut(x) /\ x.rec = Record'
  <2>1. LatestIn(Append(out, x), saved', x.rec)
    BY <1>1, <1>6, LatestPut
  <2>2. LatestIn(Append(Append(out, x), y), saved', x.rec)
    BY <1>4, <2>1, LatestOther
  <2> QED BY <1>3, <1>6, <2>1, <2>2 DEF Latest
<1>7. CASE ~IsPut(x) /\ s # "approve" /\ UNCHANGED <<exists, Record>>
  <2> SUFFICES ASSUME ~lost', exists', ~WillPut(work')
               PROVE  LatestIn(out', saved', Record')
    BY DEF Latest
  <2>1. work'["approve"] = work["approve"]
    BY <1>2, <1>7 DEF Subjects
  <2>2. LatestIn(out, saved, Record)
    BY <1>7, <2>1 DEF Latest, WillPut
  <2>3. LatestIn(Append(out, x), saved, Record)
    BY <1>1, <1>7, <2>2, LatestOther
  <2>4. LatestIn(Append(Append(out, x), y), saved, Record)
    BY <1>4, <2>3, LatestOther
  <2> QED BY <1>3, <1>7, <2>3, <2>4
<1> QED BY <1>5, <1>6, <1>7

LEMMA RefuseLatest ==
    ASSUME Typed, Latest, NEW s \in Subjects, NEW r, NEW result \in Results, Begins(s, r),
           Refuse(s, r, result)
    PROVE  Latest'
<1>1. r \in Request /\ out \in Seq(Item)
  BY ConsumeType DEF Begins, Typed, TypeOK
<1> DEFINE y == Answer(r, result)
<1>2. y \in Item /\ ~IsPut(y)
  BY <1>1, ItemType DEF IsPut
<1>3. UNCHANGED <<saved, Record, exists, lost, work>>
  BY DEF Refuse, group, store, history, Record
<1>4. out' = Append(out, y)
  BY <1>1, <1>2, Issued DEF Refuse, Issue
<1> HIDE DEF y
<1>5. LatestIn(out, saved, Record) => LatestIn(out', saved', Record')
  BY <1>1, <1>2, <1>3, <1>4, LatestOther
<1> QED BY <1>3, <1>5 DEF Latest

LEMMA HandleLatest == Typed /\ Latest /\ Handle => Latest'
<1> SUFFICES ASSUME Typed, Latest, Handle PROVE Latest'
  OBVIOUS
<1> PICK s \in Subjects : inbox[s] # <<>>
                          /\ LET r == Head(inbox[s]) IN
                             \/ HandleCreate(r) \/ HandleJoin(r) \/ HandleApprove(r)
                             \/ HandleLeave(r) \/ HandleAnnounce(r)
  BY DEF Handle
<1> DEFINE r == Head(inbox[s])
<1>r. \/ HandleCreate(r) \/ HandleJoin(r) \/ HandleApprove(r)
      \/ HandleLeave(r) \/ HandleAnnounce(r)
  OBVIOUS
<1> HIDE DEF r
<1>0. members \in Seq(Agents) /\ pending \in [Agents -> Statuses] /\ TypeOK
  BY DEF Typed, TypeOK
<1>t. \A t \in {"create", "join", "approve", "leave", "announce"} :
         /\ t \in Subjects
         /\ Begins(t, r) => r \in Request /\ r.agent \in Agents
  BY <1>0, ConsumeType DEF Begins, Request, Subjects
<1>p. \A t \in Subjects, m \in Seq(Agents), p \in [Agents -> Statuses] :
         LET x == PutGroup(t, m, p) IN
         /\ x \in Item /\ IsPut(x) /\ x.rec = Written(m, p)
  BY ItemType DEF IsPut, PutGroup, Statuses, Texts
<1>y. \A q \in Request : LET y == Answer(q, "rejected") IN y \in Item /\ ~IsPut(y)
  BY ItemType DEF IsPut, Results
<1>1. CASE HandleCreate(r)
  <2>1. Begins("create", r)
    BY <1>1 DEF HandleCreate
  <2>2. CASE exists /\ Refuse("create", r, "exists")
    BY <1>t, <2>1, <2>2, RefuseLatest DEF Results
  <2>3. CASE /\ members' = <<r.agent>> /\ UNCHANGED <<pending, store, history>>
             /\ Issue(<<PutGroup("create", <<r.agent>>, pending)>>)
             /\ Await("create", r, "save")
    <3> DEFINE m == <<r.agent>>
               x == PutGroup("create", m, pending)
    <3>1. m \in Seq(Agents)
      BY <1>t, <2>1
    <3> HIDE DEF m
    <3>2. x \in Item /\ IsPut(x) /\ x.rec = Written(m, pending)
      BY <1>0, <1>t, <1>p, <3>1
    <3>3. Record' = Written(m, pending)
      BY <2>3 DEF Record, m
    <3>4. Issue(<<x>>) /\ UNCHANGED <<saved, lost>>
      BY <2>3 DEF store, history, m
    <3>5. \E y \in Item : ~IsPut(y)
      BY <1>y, <1>t, <2>1
    <3> HIDE DEF x
    <3> QED BY <1>t, <2>1, <2>3, <3>2, <3>3, <3>4, <3>5, BeginLatest
  <2> QED BY <1>1, <2>2, <2>3 DEF HandleCreate
<1>2. CASE HandleJoin(r)
  <2>1. Begins("join", r)
    BY <1>2 DEF HandleJoin
  <2>2. CASE ~exists /\ Refuse("join", r, "not_found")
    BY <1>t, <2>1, <2>2, RefuseLatest DEF Results
  <2>3. CASE exists /\ r.agent \in ToSet(members) /\ Refuse("join", r, "already_member")
    BY <1>t, <2>1, <2>3, RefuseLatest DEF Results
  <2>4. CASE (JoinDefault(r) \/ AskToJoin(r)) /\ UNCHANGED <<store, lost>>
    <3>1. \E y \in Item : ~IsPut(y)
      BY <1>y, <1>t, <2>1
    <3>2. UNCHANGED <<saved, lost>>
      BY <2>4 DEF store
    <3>3. CASE JoinDefault(r)
      <4> DEFINE m == Append(members, r.agent)
                 x == PutGroup("join", m, pending)
      <4>1. m \in Seq(Agents)
        BY <1>0, <1>t, <2>1
      <4>2. members' = m /\ pending' = pending /\ Issue(<<x>>) /\ Await("join", r, "admit")
        BY <3>3 DEF JoinDefault
      <4> HIDE DEF m
      <4>3. x \in Item /\ IsPut(x) /\ x.rec = Written(m, pending)
        BY <1>0, <1>t, <1>p, <4>1
      <4>4. Record' = Written(m, pending)
        BY <4>2 DEF Record
      <4> HIDE DEF x
      <4> QED BY <1>t, <2>1, <3>1, <3>2, <4>2, <4>3, <4>4, BeginLatest
    <3>4. CASE AskToJoin(r)
      <4> DEFINE p == [pending EXCEPT ![r.agent] = "pending"]
                 x == PutGroup("join", members, p)
      <4>1. p \in [Agents -> Statuses]
        BY <1>0 DEF Statuses, Texts
      <4>2. members' = members /\ pending' = p /\ Issue(<<x>>) /\ Await("join", r, "save")
        BY <3>4 DEF AskToJoin
      <4> HIDE DEF p
      <4>3. x \in Item /\ IsPut(x) /\ x.rec = Written(members, p)
        BY <1>0, <1>t, <1>p, <4>1
      <4>4. Record' = Written(members, p)
        BY <4>2 DEF Record
      <4> HIDE DEF x
      <4> QED BY <1>t, <2>1, <3>1, <3>2, <4>2, <4>3, <4>4, BeginLatest
    <3> QED BY <2>4, <3>3, <3>4
  <2> QED BY <1>2, <2>2, <2>3, <2>4 DEF HandleJoin
<1>3. CASE HandleApprove(r)
  <2>1. Begins("approve", r)
    BY <1>3 DEF HandleApprove
  <2>2. CASE ~exists /\ Refuse("approve", r, "not_found")
    BY <1>t, <2>1, <2>2, RefuseLatest DEF Results
  <2>3. CASE exists /\ ~MayDecide(r.from) /\ Refuse("approve", r, "unauthorized")
    BY <1>t, <2>1, <2>3, RefuseLatest DEF Results
  <2>4. CASE (Approve(r) \/ Reject(r)) /\ UNCHANGED <<store, lost>>
    <3>1. UNCHANGED <<saved, lost>>
      BY <2>4 DEF store
    <3>2. CASE Approve(r)
      <4> DEFINE x == Get("approve")
                 y == Notice(r.agent, "added")
      <4>1. x \in Item /\ y \in Item /\ ~IsPut(y)
        BY <1>t, <2>1, ItemType DEF IsPut
      <4>2. Issue(<<x, y>>) /\ Await("approve", r, "admit")
        BY <3>2 DEF Approve
      <4> HIDE DEF x, y
      <4> QED BY <1>t, <2>1, <3>1, <4>1, <4>2, BeginLatest
    <3>3. CASE Reject(r)
      <4> DEFINE p == [pending EXCEPT ![r.agent] = "rejected"]
                 x == PutGroup("approve", members, p)
                 y == Answer(r, "rejected")
      <4>1. p \in [Agents -> Statuses]
        BY <1>0 DEF Statuses, Texts
      <4>2. /\ members' = members /\ pending' = p
            /\ Issue(<<x, y>>) /\ Await("approve", r, "save")
        BY <3>3 DEF Reject
      <4> HIDE DEF p
      <4>3. x \in Item /\ IsPut(x) /\ x.rec = Written(members, p)
        BY <1>0, <1>t, <1>p, <4>1
      <4>4. Record' = Written(members, p)
        BY <4>2 DEF Record
      <4>5. y \in Item /\ ~IsPut(y)
        BY <1>t, <1>y, <2>1
      <4> HIDE DEF x, y
      <4> QED BY <1>t, <2>1, <3>1, <4>2, <4>3, <4>4, <4>5, BeginLatest
    <3> QED BY <2>4, <3>2, <3>3
  <2> QED BY <1>3, <2>2, <2>3, <2>4 DEF HandleApprove
<1>4. CASE HandleLeave(r)
  <2>1. Begins("leave", r)
    BY <1>4 DEF HandleLeave
  <2>2. CASE ~exists /\ Refuse("leave", r, "not_found")
    BY <1>t, <2>1, <2>2, RefuseLatest DEF Results
  <2>3. CASE exists /\ r.agent \notin ToSet(members) /\ Refuse("leave", r, "not_member")
    BY <1>t, <2>1, <2>3, RefuseLatest DEF Results
  <2>4. CASE /\ exists /\ r.agent \in ToSet(members) /\ Forbidden(r)
             /\ Refuse("leave", r, "unauthorized")
    BY <1>t, <2>1, <2>4, RefuseLatest DEF Results
  <2>5. CASE /\ members' = RemoveFirst(members, r.agent)
             /\ pending' = [pending EXCEPT ![r.agent] = "none"]
             /\ Issue(<<PutGroup("leave", members', pending')>>)
             /\ Await("leave", r, "save") /\ UNCHANGED <<store, lost>>
    <3>1. members' \in Seq(Agents) /\ pending' \in [Agents -> Statuses]
      BY <1>0, <2>5, RemoveFirstKeeps DEF Statuses, Texts
    <3> DEFINE x == PutGroup("leave", members', pending')
    <3>2. x \in Item /\ IsPut(x) /\ x.rec = Written(members', pending')
      BY <1>t, <1>p, <3>1
    <3>3. Record' = Written(members', pending')
      BY DEF Record
    <3>4. Issue(<<x>>) /\ UNCHANGED <<saved, lost>>
      BY <2>5 DEF store
    <3>5. \E y \in Item : ~IsPut(y)
      BY <1>y, <1>t, <2>1
    <3> HIDE DEF x
    <3> QED BY <1>t, <2>1, <2>5, <3>2, <3>3, <3>4, <3>5, BeginLatest
  <2> QED BY <1>4, <2>2, <2>3, <2>4, <2>5 DEF HandleLeave
<1>5. CASE HandleAnnounce(r)
  <2>1. Begins("announce", r)
    BY <1>5 DEF HandleAnnounce
  <2>2. CASE ~exists /\ Refuse("announce", r, "not_found")
    BY <1>t, <2>1, <2>2, RefuseLatest DEF Results
  <2>3. CASE exists /\ r.from # Owner /\ Refuse("announce", r, "unauthorized")
    BY <1>t, <2>1, <2>3, RefuseLatest DEF Results
  <2>4. CASE /\ Issue(<<PutAnnouncement>>) /\ Await("announce", r, "save")
             /\ UNCHANGED <<group, store, history>>
    <3> DEFINE x == PutAnnouncement
    <3>1. x \in Item /\ ~IsPut(x)
      BY ItemType DEF IsPut
    <3>2. Issue(<<x>>) /\ UNCHANGED <<saved, lost, exists, Record>>
      BY <2>4 DEF group, store, history, Record
    <3> HIDE DEF x
    <3> QED BY <1>t, <2>1, <2>4, <3>1, <3>2, BeginLatest
  <2> QED BY <1>5, <2>2, <2>3, <2>4 DEF HandleAnnounce
<1> QED BY <1>r, <1>1, <1>2, <1>3, <1>4, <1>5

(* An approval puts the record without the announcement. *)
LEMMA GetTimesOutLatest ==
    ASSUME Typed, Latest, NEW s \in Subjects, GetTimesOut(s)
    PROVE  Latest'
<1> SUFFICES ASSUME exists', ~lost', ~WillPut(work')
             PROVE  LatestIn(out', saved', Record')
  BY DEF Latest
<1> DEFINE r == work[s].request
           x == PutGroup(s, members, pending)
<1>1. /\ work[s] # None /\ UNCHANGED <<saved, lost, exists, Record>>
  BY DEF GetTimesOut, group, store, history, Record
<1>2. /\ out \in Seq(Item) /\ TypeOK /\ r \in Request
      /\ members \in Seq(Agents) /\ pending \in [Agents -> Statuses]
  BY <1>1, WorkType DEF Typed, TypeOK
<1>3. /\ \A result \in {"joined", "approved"} :
            Answer(r, result) \in Item /\ ~IsPut(Answer(r, result))
      /\ x \in Item /\ IsPut(x) /\ x.rec = Record
  BY <1>2, ItemType DEF IsPut, Results, PutGroup, Record
<1> HIDE DEF x
<1>4. CASE s = "join" /\ Ends(s) /\ Issue(<<Answer(r, "joined")>>)
  <2> DEFINE y == Answer(r, "joined")
  <2>1. y \in Item /\ ~IsPut(y)
    BY <1>3
  <2>2. work'["approve"] = work["approve"]
    BY <1>2, <1>4, EndsType DEF Subjects
  <2>3. LatestIn(out, saved, Record)
    BY <1>1, <2>2 DEF Latest, WillPut
  <2>4. out' = Append(out, y)
    BY <1>2, <1>4, <2>1, Issued DEF Issue
  <2> HIDE DEF y
  <2>5. LatestIn(Append(out, y), saved, Record)
    BY <1>2, <2>1, <2>3, LatestOther
  <2> QED BY <1>1, <2>4, <2>5
<1>5. CASE Issue(<<x, Answer(r, "approved")>>)
  <2> DEFINE y == Answer(r, "approved")
             e == Append(out, x)
  <2>1. y \in Item /\ ~IsPut(y) /\ e \in Seq(Item)
    BY <1>2, <1>3
  <2>2. out' = Append(e, y)
    BY <1>2, <1>3, <1>5, <2>1, Issued DEF Issue
  <2>3. LatestIn(e, saved, Record)
    <3>1. LatestIn(e, saved, x.rec)
      BY <1>2, <1>3, LatestPut
    <3> QED BY <1>3, <3>1
  <2> HIDE DEF y, e
  <2>4. LatestIn(Append(e, y), saved, Record)
    BY <2>1, <2>3, LatestOther
  <2> QED BY <1>1, <2>2, <2>4
<1> QED BY <1>4, <1>5 DEF GetTimesOut, x

(* Whatever arrives, the last record put stays the last. *)
LEMMA DeliverLatest == Typed /\ Latest /\ Deliver => Latest'
<1> SUFFICES ASSUME Typed, Latest, Deliver, ~PutFails, exists', ~lost', ~WillPut(work'),
                    ~ \E s \in Subjects : GetTimesOut(s)
             PROVE  LatestIn(out', saved', Record')
  BY GetTimesOutLatest DEF PutFails, Latest
<1> DEFINE q == Tail(out)
           h == Head(out)
<1>1. /\ out \in Seq(Item) /\ out # <<>> /\ h \in Item /\ q \in Seq(Item)
      /\ UNCHANGED <<exists, Record>>
  BY HeadTailProperties
     DEF Deliver, PutLands, GetAnswered, GetFails, AnnouncementLands, AnnouncementFails,
         PushArrives, NoticeLeaves, AnswerArrives, First, Typed, TypeOK, group, Record
<1>2. \A stored : LatestIn(out, stored, Record) =>
         LatestIn(q, IF IsPut(h) THEN h.rec ELSE stored, Record)
  BY <1>1, LatestTail
<1>3. CASE PutLands
  <2> DEFINE s == h.subject
             r == work[s].request
  <2>1. First("put") /\ AfterPut(s) /\ saved' = h.rec /\ UNCHANGED lost
    BY <1>3 DEF PutLands, history
  <2>2. /\ IsPut(h) /\ s \in Subjects /\ work[s] # None /\ r \in Request /\ r.agent \in Agents
        /\ Fits(h, work) /\ TypeOK
    BY <2>1, FirstOut DEF IsPut, Typed
  <2>3. ~WillPut(work)
    <3>1. CASE s = "approve"
      BY <2>2, <3>1 DEF Fits, WillPut, IsPut
    <3>2. CASE s # "approve"
      <4>1. Ends(s) \/ Await(s, r, "get")
        BY <2>1 DEF AfterPut
      <4>2. work'["approve"] = work["approve"]
        BY <2>2, <3>2, <4>1, EndsType, AwaitType DEF Subjects
      <4> QED BY <4>2 DEF WillPut
    <3> QED BY <3>1, <3>2
  <2>4. LatestIn(q, saved', Record')
    BY <1>1, <1>2, <2>1, <2>2, <2>3 DEF Latest
  <2>5. AfterPutForm(s, q)
    BY <2>1, AfterPutForms
  <2>6. /\ \A action \in {"added", "removed"} :
              Notice(r.agent, action) \in Item /\ ~IsPut(Notice(r.agent, action))
        /\ \A result \in Results : Answer(r, result) \in Item /\ ~IsPut(Answer(r, result))
        /\ Get(s) \in Item /\ ~IsPut(Get(s))
    BY <2>2, ItemType DEF IsPut
  <2> DEFINE Ok(z) == z \in Seq(Item) /\ LatestIn(z, saved', Record')
  <2>7. \A z, y : Ok(z) /\ y \in Item /\ ~IsPut(y) => Ok(Append(z, y))
    BY LatestOther
  <2>8. Ok(q)
    BY <1>1, <2>4
  <2> HIDE DEF Ok, q, r, s
  <2>9. Ok(out')
    BY <2>5, <2>6, <2>7, <2>8 DEF AfterPutForm, Results, r
  <2> QED BY <2>9 DEF Ok
<1>4. CASE GetAnswered
  <2> DEFINE s == h.subject
             r == work[s].request
             p == Pushed(r.agent)
  <2>1. First("get") /\ AfterGet(s) /\ UNCHANGED <<saved, lost>>
    BY <1>4 DEF GetAnswered, store, history
  <2>2. /\ ~IsPut(h) /\ s \in Subjects /\ work[s] # None /\ r \in Request /\ r.agent \in Agents
        /\ TypeOK
    BY <2>1, FirstOut DEF IsPut, Typed
  <2>3. AfterGetForm(s, q)
    BY <2>1, AfterGetForms
  <2>4. /\ \A result \in {"joined", "approved"} :
              Answer(r, result) \in Item /\ ~IsPut(Answer(r, result))
        /\ p \in Seq(Item) /\ Pushes(p)
    BY <2>2, ItemType, PushedType DEF IsPut, Results
  <2> HIDE DEF q, p
  <2>5. CASE s = "join" /\ Ends(s) /\ out' = Append(q \o p, Answer(r, "joined"))
    <3>1. work'["approve"] = work["approve"]
      BY <2>2, <2>5, EndsType DEF Subjects
    <3>2. LatestIn(q, saved', Record')
      BY <1>1, <1>2, <2>1, <2>2, <3>1 DEF Latest, WillPut
    <3>3. q \o p \in Seq(Item) /\ LatestIn(q \o p, saved', Record')
      BY <1>1, <2>4, <3>2, LatestPushes, ConcatProperties
    <3> QED BY <2>4, <2>5, <3>3, LatestOther
  <2>6. CASE /\ s = "approve"
             /\ out' = Append(Append(q, PutGroup(s, members, pending)) \o p,
                              Answer(r, "approved"))
    <3> DEFINE x == PutGroup(s, members, pending)
               e == Append(q, x)
    <3>1. x \in Item /\ IsPut(x) /\ x.rec = Record'
      <4>1. members \in Seq(Agents) /\ pending \in [Agents -> Statuses]
        BY <2>2 DEF TypeOK
      <4>2. x \in Item /\ IsPut(x)
        BY <2>2, <4>1, ItemType DEF IsPut, Statuses, Texts
      <4>3. x.rec = Record
        BY DEF PutGroup, Record
      <4> QED BY <1>1, <4>2, <4>3
    <3> HIDE DEF x
    <3>2. e \in Seq(Item) /\ LatestIn(e, saved', Record')
      <4>1. e \in Seq(Item)
        BY <1>1, <3>1
      <4>2. LatestIn(e, saved', x.rec)
        BY <1>1, <3>1, LatestPut
      <4> QED BY <3>1, <4>1, <4>2
    <3> HIDE DEF e
    <3>3. e \o p \in Seq(Item) /\ LatestIn(e \o p, saved', Record')
      BY <2>4, <3>2, LatestPushes, ConcatProperties
    <3>4. out' = Append(e \o p, Answer(r, "approved"))
      BY <2>6 DEF e, x
    <3> QED BY <2>4, <3>3, <3>4, LatestOther
  <2> QED BY <2>3, <2>5, <2>6 DEF AfterGetForm, p
<1>5. CASE AnnouncementLands \/ AnnouncementFails
  <2> DEFINE p == ToAll(members)
             y == Answer(work["announce"].request, "set")
  <2>1. First("announce") /\ Ends("announce") /\ UNCHANGED <<saved, lost>>
    BY <1>5 DEF AnnouncementLands, AnnouncementFails, AfterAnnouncement, history
  <2>2. /\ ~IsPut(h) /\ TypeOK /\ work["announce"].request \in Request
    BY <2>1, FirstOut DEF IsPut, Typed, Fits
  <2>3. work'["approve"] = work["approve"]
    BY <2>1, <2>2, EndsType DEF Subjects
  <2>4. LatestIn(q, saved', Record')
    BY <1>1, <1>2, <2>1, <2>2, <2>3 DEF Latest, WillPut
  <2>5. y \in Item /\ ~IsPut(y)
    BY <2>2, ItemType DEF IsPut, Results
  <2>6. \/ out' = q
        \/ p \in Seq(Item) /\ Pushes(p) /\ out' = Append(q \o p, y)
    BY <1>5, AfterAnnouncementForm DEF AnnouncementLands, AnnouncementFails
  <2> HIDE DEF q, p, y
  <2>7. CASE p \in Seq(Item) /\ Pushes(p) /\ out' = Append(q \o p, y)
    <3>1. q \o p \in Seq(Item) /\ LatestIn(q \o p, saved', Record')
      BY <1>1, <2>4, <2>7, LatestPushes, ConcatProperties
    <3> QED BY <2>5, <2>7, <3>1, LatestOther
  <2> QED BY <2>4, <2>6, <2>7
<1>6. CASE PushArrives \/ NoticeLeaves \/ AnswerArrives
  <2>1. ~IsPut(h) /\ out' = q /\ UNCHANGED <<saved, work, lost>>
    BY <1>6 DEF PushArrives, NoticeLeaves, AnswerArrives, First, IsPut, store, history
  <2>2. LatestIn(out, saved, Record)
    BY <1>1, <2>1 DEF Latest
  <2> QED BY <1>1, <1>2, <2>1, <2>2
<1>7. CASE GetFails
  <2> DEFINE s == h.subject
             r == work[s].request
  <2>1. First("get") /\ Await(s, r, "unread") /\ out' = q /\ UNCHANGED <<saved, lost>>
    BY <1>7 DEF GetFails, store
  <2>2. ~IsPut(h) /\ s \in Subjects /\ work[s] # None /\ r \in Request /\ TypeOK
    BY <2>1, FirstOut DEF IsPut, Typed
  <2>3. /\ work'[s] # None /\ work'[s].stage = "unread"
        /\ \A t \in Subjects \ {s} : work'[t] = work[t]
    BY <2>1, <2>2, AwaitType
  <2>4. work'["approve"] = work["approve"]
    BY <2>3 DEF WillPut, Subjects
  <2>5. LatestIn(out, saved, Record)
    BY <1>1, <2>1, <2>4 DEF Latest, WillPut
  <2> QED BY <1>1, <1>2, <2>1, <2>2, <2>5
<1> QED BY <1>3, <1>4, <1>5, <1>6, <1>7 DEF Deliver

LEMMA NextLatest == Typed /\ Latest /\ [Next]_vars => Latest'
<1> SUFFICES ASSUME Typed, Latest, [Next]_vars PROVE Latest'
  OBVIOUS
<1>1. CASE Serve
  <2>1. CASE Crash
    <3>1. /\ out' = <<>> /\ saved' = saved /\ exists' = (saved # None)
          /\ members' = Loaded.members /\ pending' = Loaded.pending
      BY <2>1 DEF Crash, store
    <3>2. saved # None => Record' = saved
      <4> SUFFICES ASSUME saved # None PROVE Record' = saved
        OBVIOUS
      <4>1. saved \in GroupRecord /\ Loaded = saved
        BY DEF Typed, TypeOK, Loaded
      <4>2. Record' = Written(members', pending')
        BY DEF Record
      <4> QED BY <3>1, <4>1, <4>2, WrittenText
    <3>3. LatestIn(<<>>, saved, saved)
      BY DEF LatestIn
    <3> QED BY <3>1, <3>2, <3>3 DEF Latest
  <2> QED BY <1>1, <2>1, HandleLatest, DeliverLatest DEF Serve
<1>2. CASE (\E c \in Commands : Ask(c)) \/ Follow \/ UNCHANGED vars
  <2>1. UNCHANGED <<Record, exists, saved, work, out, lost>>
    BY <1>2 DEF Ask, Send, Follow, TimeOut, OnNotification, StartClient, Record,
                SubscribeNotification, vars, admission, group, store, service, history
  <2> QED BY <2>1 DEF Latest
<1> QED BY <1>1, <1>2 DEF Next

(* Whatever handlers of several subjects have changed the record, and      *)
(* however their puts interleaved, once nothing is under way the bucket    *)
(* holds the record the service has in memory, statuses as text, as long   *)
(* as every put is answered (_save_to_kv).                                 *)
THEOREM QuietIsStored == Spec => []QuietIsSaved
<1>1. Init => Latest
  <2> SUFFICES ASSUME Init, exists PROVE LatestIn(out, saved, Record)
    BY DEF Latest
  <2>1. out = <<>> /\ saved = Record
    BY DEF Init, AdmissionInit
  <2> QED BY <2>1 DEF LatestIn
<1>2. Typed /\ Latest => QuietIsSaved
  <2> SUFFICES ASSUME Typed, Latest, exists, Quiet, ~lost
               PROVE  saved = Record
    BY DEF QuietIsSaved
  <2>1. ~WillPut(work) /\ out = <<>>
    BY DEF Quiet, Idle, WillPut, Subjects
  <2> QED BY <2>1 DEF Latest, LatestIn
<1> QED BY <1>1, <1>2, InitTyped, NextTyped, NextLatest, PTL DEF Spec

-----------------------------------------------------------------------------
(* Who has been sent the announcement. *)

(* A handler is letting a in and has yet to read the announcement for it. *)
Coming(w, a) ==
    At(w, "join", "admit", a) \/ At(w, "join", "get", a) \/ At(w, "approve", "admit", a)

Reached(a) ==
    \/ told[a] = version \/ Push(a, version) \in ToSet(out) \/ Coming(work, a)
    \/ <<a, version>> \in untold

NoneNewer(q, v) == \A x \in ToSet(q) : x.do = "push" => x.version <= v

Reaches ==
    ~cut /\ ~lost =>
        /\ ~exists => version = 0
        /\ NoneNewer(out, version) /\ \A a \in Agents : told[a] <= version
        /\ \A a \in ToSet(members) : Reached(a)

LEMMA RemoveFirstOnly ==
    ASSUME NEW list \in Seq(Agents), NEW a
    PROVE  ToSet(RemoveFirst(list, a)) \subseteq ToSet(list)
<1>1. CASE ~ \E i \in 1 .. Len(list) : list[i] = a
  BY <1>1 DEF RemoveFirst
<1>2. CASE \E i \in 1 .. Len(list) : list[i] = a
  <2> DEFINE k == SelectInSeq(list, LAMBDA v : v = a)
  <2>1. k \in 1 .. Len(list)
    <3> DEFINE I == {i \in 1 .. Len(list) : list[i] = a}
    <3>1. I # {} /\ I \subseteq Nat /\ k = Min(I)
      BY <1>2 DEF SelectInSeq
    <3>2. Min(I) \in I
      <4> HIDE DEF I
      <4> QED BY <3>1, SmallestExists
    <3> QED BY <3>1, <3>2
  <2>2. RemoveFirst(list, a) = RemoveAt(list, k)
    BY <1>2 DEF RemoveFirst
  <2> HIDE DEF k
  <2> DEFINE front == SubSeq(list, 1, k - 1)
             back == SubSeq(list, k + 1, Len(list))
  <2>3. /\ front \in Seq(Agents) /\ Len(front) = k - 1
        /\ \A i \in 1 .. k - 1 : front[i] = list[i]
        /\ back \in Seq(Agents) /\ Len(back) = Len(list) - k
        /\ \A i \in 1 .. Len(list) - k : back[i] = list[i + k]
    BY <2>1
  <2>4. RemoveAt(list, k) = front \o back
    BY DEF RemoveAt
  <2> HIDE DEF front, back
  <2>5. /\ front \o back \in Seq(Agents)
        /\ DOMAIN (front \o back) = 1 .. Len(front) + Len(back)
        /\ \A i \in 1 .. Len(front) + Len(back) : (front \o back)[i] =
              IF i <= Len(front) THEN front[i] ELSE back[i - Len(front)]
    <3>1. front \in Seq(Agents) /\ back \in Seq(Agents)
      BY <2>3
    <3>2. /\ front \o back \in Seq(Agents)
          /\ Len(front \o back) = Len(front) + Len(back)
          /\ \A i \in 1 .. Len(front) + Len(back) : (front \o back)[i] =
                IF i <= Len(front) THEN front[i] ELSE back[i - Len(front)]
      BY <3>1, ConcatProperties, Zenon
    <3>3. DOMAIN (front \o back) = 1 .. Len(front \o back)
      BY <3>2
    <3> QED BY <3>2, <3>3
  <2>6. \A i \in DOMAIN (front \o back) : \E j \in DOMAIN list : (front \o back)[i] = list[j]
    <3> SUFFICES ASSUME NEW i \in DOMAIN (front \o back)
                 PROVE  \E j \in DOMAIN list : (front \o back)[i] = list[j]
      OBVIOUS
    <3>1. CASE i <= Len(front)
      <4>1. i \in DOMAIN list /\ (front \o back)[i] = list[i]
        BY <2>1, <2>3, <2>5, <3>1
      <4> QED BY <4>1
    <3>2. CASE i > Len(front)
      <4>1. i - Len(front) \in 1 .. Len(list) - k
        BY <2>1, <2>3, <2>5, <3>2
      <4>2. (front \o back)[i] = back[i - Len(front)]
        BY <2>3, <2>5, <3>2
      <4>3. back[i - Len(front)] = list[(i - Len(front)) + k]
        BY <2>3, <4>1
      <4>4. (i - Len(front)) + k \in DOMAIN list
        BY <2>1, <4>1
      <4> QED BY <4>2, <4>3, <4>4
    <3> QED BY <2>3, <2>5, <3>1, <3>2
  <2> QED BY <2>2, <2>4, <2>6 DEF ToSet
<1> QED BY <1>1, <1>2

LEMMA ToSetMore ==
    ASSUME NEW q \in Seq(Item)
    PROVE  /\ \A x \in Item : ToSet(Append(q, x)) = ToSet(q) \union {x}
           /\ \A p \in Seq(Item) : ToSet(q \o p) = ToSet(q) \union ToSet(p)
           /\ q # <<>> => ToSet(q) = {Head(q)} \union ToSet(Tail(q))
<1>1. ASSUME NEW x \in Item PROVE ToSet(Append(q, x)) = ToSet(q) \union {x}
  <2> DEFINE e == Append(q, x)
  <2>1. /\ DOMAIN e = 1 .. Len(q) + 1 /\ DOMAIN q = 1 .. Len(q) /\ Len(q) \in Nat
        /\ e[Len(q) + 1] = x /\ \A i \in DOMAIN q : e[i] = q[i] /\ i \in DOMAIN e
    OBVIOUS
  <2>2. \A i \in DOMAIN e : i \in DOMAIN q \/ i = Len(q) + 1
    BY <2>1
  <2>3. Len(q) + 1 \in DOMAIN e
    BY <2>1
  <2> HIDE DEF e
  <2> QED BY <2>1, <2>2, <2>3 DEF ToSet, e
<1>2. ASSUME NEW p \in Seq(Item) PROVE ToSet(q \o p) = ToSet(q) \union ToSet(p)
  <2> DEFINE e == q \o p
  <2>1. /\ DOMAIN e = 1 .. Len(q) + Len(p) /\ DOMAIN q = 1 .. Len(q) /\ DOMAIN p = 1 .. Len(p)
        /\ Len(q) \in Nat /\ Len(p) \in Nat
        /\ \A i \in 1 .. Len(q) + Len(p) : e[i] =
                       IF i <= Len(q) THEN q[i] ELSE p[i - Len(q)]
    BY ConcatProperties
  <2> HIDE DEF e
  <2>2. \A i \in DOMAIN q : i \in DOMAIN e /\ e[i] = q[i]
    BY <2>1
  <2>3. \A i \in DOMAIN p : i + Len(q) \in DOMAIN e /\ e[i + Len(q)] = p[i]
    BY <2>1
  <2>4. \A i \in DOMAIN e : (i \in DOMAIN q /\ e[i] = q[i])
                            \/ (i - Len(q) \in DOMAIN p /\ e[i] = p[i - Len(q)])
    BY <2>1
  <2>5. ToSet(e) = ToSet(q) \union ToSet(p)
    BY <2>2, <2>3, <2>4 DEF ToSet
  <2> QED BY <2>5 DEF e
<1>3. ASSUME q # <<>> PROVE ToSet(q) = {Head(q)} \union ToSet(Tail(q))
  <2> DEFINE e == Tail(q)
  <2>1. /\ DOMAIN q = 1 .. Len(q) /\ DOMAIN e = 1 .. Len(q) - 1 /\ Len(q) \in Nat
        /\ 1 \in DOMAIN q /\ Head(q) = q[1] /\ \A i \in DOMAIN e : e[i] = q[i + 1]
    BY <1>3
  <2> HIDE DEF e
  <2>2. \A i \in DOMAIN e : i + 1 \in DOMAIN q
    BY <2>1
  <2>3. \A i \in DOMAIN q : i = 1 \/ (i - 1 \in DOMAIN e /\ q[i] = e[i - 1])
    <3> SUFFICES ASSUME NEW i \in DOMAIN q, i # 1
                 PROVE  i - 1 \in DOMAIN e /\ q[i] = e[i - 1]
      OBVIOUS
    <3>1. i - 1 \in DOMAIN e /\ (i - 1) + 1 = i
      BY <2>1
    <3> QED BY <2>1, <3>1
  <2>4. \A i \in DOMAIN q : q[i] = Head(q) \/ \E j \in DOMAIN e : q[i] = e[j]
    BY <2>1, <2>3
  <2>5. \A j \in DOMAIN e : \E i \in DOMAIN q : e[j] = q[i]
    BY <2>1, <2>2
  <2>6. \E i \in DOMAIN q : Head(q) = q[i]
    BY <2>1
  <2>7. \A f, z : z \in ToSet(f) <=> \E i \in DOMAIN f : z = f[i]
    BY DEF ToSet
  <2>8. \A z : z \in ToSet(q) <=> z = Head(q) \/ z \in ToSet(e)
    BY <2>4, <2>5, <2>6, <2>7
  <2> QED BY <2>8 DEF e
<1> QED BY <1>1, <1>2, <1>3

(* A handler begins: who it lets in is being let in, or the group is new. *)
LEMMA BeginReaches ==
    ASSUME Typed, Reaches, NEW s \in Subjects, NEW r, Begins(s, r),
           NEW stage \in {"save", "admit"}, Await(s, r, stage),
           NEW x \in Item, NEW y \in Item, Issue(<<x>>) \/ Issue(<<x, y>>),
           x.do # "push", y.do # "push",
           UNCHANGED <<version, told, untold, cut, lost>>, exists', members' \in Seq(Agents),
           \A a \in ToSet(members') :
               \/ a \in ToSet(members) \/ ~exists
               \/ r.agent = a /\ s \in {"join", "approve"} /\ stage = "admit"
    PROVE  Reaches'
<1> SUFFICES ASSUME ~cut', ~lost'
             PROVE  /\ NoneNewer(out', version)
                    /\ \A a \in ToSet(members') :
                          \/ told[a] = version \/ Push(a, version) \in ToSet(out')
                          \/ Coming(work', a) \/ <<a, version>> \in untold
  BY DEF Reaches, Reached
<1>1. out \in Seq(Item) /\ r \in Request /\ TypeOK
  BY ConsumeType DEF Begins, Typed, TypeOK
<1>2. /\ work'[s] # None /\ work'[s].stage = stage /\ work'[s].request = r
      /\ \A t \in Subjects \ {s} : work'[t] = work[t]
  BY <1>1, AwaitType
<1>3. /\ ToSet(out') \subseteq ToSet(out) \union {x, y} /\ ToSet(out) \subseteq ToSet(out')
  <2>1. out' = Append(out, x) \/ out' = Append(Append(out, x), y)
    BY <1>1, Issued DEF Issue
  <2>2. /\ ToSet(Append(out, x)) = ToSet(out) \union {x}
        /\ ToSet(Append(Append(out, x), y)) = ToSet(Append(out, x)) \union {y}
    <3>1. Append(out, x) \in Seq(Item)
      BY <1>1
    <3> QED BY <1>1, <3>1, ToSetMore
  <2> QED BY <2>1, <2>2
<1>4. \A a : Coming(work, a) => Coming(work', a)
  <2>1. work[s] = None
    BY DEF Begins
  <2> QED BY <1>2, <2>1 DEF Coming, At, Subjects
<1>5. ASSUME NEW a \in ToSet(members')
      PROVE  \/ told[a] = version \/ Push(a, version) \in ToSet(out') \/ Coming(work', a)
             \/ <<a, version>> \in untold
  <2>1. CASE a \in ToSet(members)
    BY <1>3, <1>4, <2>1 DEF Reaches, Reached
  <2>2. CASE ~exists
    <3>1. a \in Agents
      BY <1>5 DEF ToSet
    <3>2. version = 0 /\ told[a] <= version /\ told[a] \in Nat
      BY <1>1, <2>2, <3>1 DEF Reaches, TypeOK
    <3> QED BY <3>2
  <2>3. CASE r.agent = a /\ s \in {"join", "approve"} /\ stage = "admit"
    BY <1>2, <2>3 DEF Coming, At
  <2> QED BY <1>5, <2>1, <2>2, <2>3
<1> QED BY <1>3, <1>5 DEF NoneNewer, Reaches

LEMMA RefuseReaches ==
    ASSUME Typed, Reaches, NEW s \in Subjects, NEW r, NEW result \in Results, Begins(s, r),
           Refuse(s, r, result)
    PROVE  Reaches'
<1> DEFINE y == Answer(r, result)
<1>1. r \in Request /\ out \in Seq(Item)
  BY ConsumeType DEF Begins, Typed, TypeOK
<1>2. y \in Item /\ y.do # "push"
  BY <1>1, ItemType
<1>3. ToSet(out') = ToSet(out) \union {y}
  BY <1>1, <1>2, Issued, ToSetMore DEF Refuse, Issue
<1>4. UNCHANGED <<exists, members, work, version, told, untold, cut, lost>>
  BY DEF Refuse, group, store, agents, history
<1> HIDE DEF y
<1> QED BY <1>2, <1>3, <1>4 DEF Reaches, Reached, NoneNewer

LEMMA HandleReaches == Typed /\ Reaches /\ Handle => Reaches'
<1> SUFFICES ASSUME Typed, Reaches, Handle PROVE Reaches'
  OBVIOUS
<1> PICK s \in Subjects : inbox[s] # <<>>
                          /\ LET r == Head(inbox[s]) IN
                             \/ HandleCreate(r) \/ HandleJoin(r) \/ HandleApprove(r)
                             \/ HandleLeave(r) \/ HandleAnnounce(r)
  BY DEF Handle
<1> DEFINE r == Head(inbox[s])
<1>r. \/ HandleCreate(r) \/ HandleJoin(r) \/ HandleApprove(r)
      \/ HandleLeave(r) \/ HandleAnnounce(r)
  OBVIOUS
<1> HIDE DEF r
<1>0. members \in Seq(Agents) /\ pending \in [Agents -> Statuses] /\ TypeOK
  BY DEF Typed, TypeOK
<1>t. \A t \in {"create", "join", "approve", "leave", "announce"} :
         /\ t \in Subjects
         /\ Begins(t, r) => r \in Request /\ r.agent \in Agents
  BY <1>0, ConsumeType DEF Begins, Request, Subjects
<1>p. \A t \in Subjects, m \in Seq(Agents), p \in [Agents -> Statuses] :
         PutGroup(t, m, p) \in Item /\ PutGroup(t, m, p).do # "push"
  BY ItemType DEF Statuses, Texts
<1>o. /\ Get("approve") \in Item /\ Get("approve").do # "push"
      /\ PutAnnouncement \in Item /\ PutAnnouncement.do # "push"
  BY ItemType DEF Subjects
<1>y. \A q \in Request : /\ Answer(q, "rejected") \in Item /\ Answer(q, "rejected").do # "push"
                         /\ q.agent \in Agents
                         /\ Notice(q.agent, "added") \in Item
                         /\ Notice(q.agent, "added").do # "push"
  BY ItemType DEF Results, Request
<1>1. CASE HandleCreate(r)
  <2>1. Begins("create", r)
    BY <1>1 DEF HandleCreate
  <2>2. CASE exists /\ Refuse("create", r, "exists")
    BY <1>t, <2>1, <2>2, RefuseReaches DEF Results
  <2>3. CASE /\ ~exists /\ exists' = TRUE /\ members' = <<r.agent>>
             /\ UNCHANGED <<store, agents, history>>
             /\ Issue(<<PutGroup("create", <<r.agent>>, pending)>>)
             /\ Await("create", r, "save")
    <3> DEFINE m == <<r.agent>>
               x == PutGroup("create", m, pending)
    <3>1. m \in Seq(Agents)
      BY <1>t, <2>1
    <3>2. members' = m /\ Issue(<<x>>) /\ UNCHANGED <<version, told, untold, cut, lost>>
      BY <2>3 DEF store, agents, history
    <3> HIDE DEF m
    <3>3. x \in Item /\ x.do # "push"
      BY <1>0, <1>t, <1>p, <3>1
    <3> HIDE DEF x
    <3>4. \E y \in Item : y.do # "push"
      BY <1>y, <1>t, <2>1
    <3> QED BY <1>t, <2>1, <2>3, <3>1, <3>2, <3>3, <3>4, BeginReaches
  <2> QED BY <1>1, <2>2, <2>3 DEF HandleCreate
<1>2. CASE HandleJoin(r)
  <2>1. Begins("join", r)
    BY <1>2 DEF HandleJoin
  <2>2. CASE ~exists /\ Refuse("join", r, "not_found")
    BY <1>t, <2>1, <2>2, RefuseReaches DEF Results
  <2>3. CASE exists /\ r.agent \in ToSet(members) /\ Refuse("join", r, "already_member")
    BY <1>t, <2>1, <2>3, RefuseReaches DEF Results
  <2>4. CASE /\ JoinDefault(r) \/ AskToJoin(r)
             /\ exists /\ UNCHANGED <<exists, store, agents, untold, cut, lost>>
    <3>1. \E y \in Item : y.do # "push"
      BY <1>y, <1>t, <2>1
    <3>2. UNCHANGED <<version, told, untold, cut, lost>> /\ exists'
      BY <2>4 DEF store, agents
    <3>3. CASE JoinDefault(r)
      <4> DEFINE m == Append(members, r.agent)
                 x == PutGroup("join", m, pending)
      <4>1. m \in Seq(Agents) /\ \A b : b \in ToSet(m) <=> b \in ToSet(members) \/ b = r.agent
        BY <1>0, <1>t, <2>1, ToSetAppend
      <4>2. members' = m /\ Issue(<<x>>) /\ Await("join", r, "admit")
        BY <3>3 DEF JoinDefault
      <4> HIDE DEF m
      <4>3. x \in Item /\ x.do # "push"
        BY <1>0, <1>t, <1>p, <4>1
      <4> HIDE DEF x
      <4> QED BY <1>t, <2>1, <3>1, <3>2, <4>1, <4>2, <4>3, BeginReaches
    <3>4. CASE AskToJoin(r)
      <4> DEFINE p == [pending EXCEPT ![r.agent] = "pending"]
                 x == PutGroup("join", members, p)
      <4>1. p \in [Agents -> Statuses]
        BY <1>0 DEF Statuses, Texts
      <4>2. members' = members /\ Issue(<<x>>) /\ Await("join", r, "save")
        BY <3>4 DEF AskToJoin
      <4> HIDE DEF p
      <4>3. x \in Item /\ x.do # "push"
        BY <1>0, <1>t, <1>p, <4>1
      <4> HIDE DEF x
      <4> QED BY <1>0, <1>t, <2>1, <3>1, <3>2, <4>2, <4>3, BeginReaches
    <3> QED BY <2>4, <3>3, <3>4
  <2> QED BY <1>2, <2>2, <2>3, <2>4 DEF HandleJoin
<1>3. CASE HandleApprove(r)
  <2>1. Begins("approve", r)
    BY <1>3 DEF HandleApprove
  <2>2. CASE ~exists /\ Refuse("approve", r, "not_found")
    BY <1>t, <2>1, <2>2, RefuseReaches DEF Results
  <2>3. CASE exists /\ ~MayDecide(r.from) /\ Refuse("approve", r, "unauthorized")
    BY <1>t, <2>1, <2>3, RefuseReaches DEF Results
  <2>4. CASE /\ Approve(r) \/ Reject(r)
             /\ exists /\ UNCHANGED <<exists, store, agents, untold, cut, lost>>
    <3>1. UNCHANGED <<version, told, untold, cut, lost>> /\ exists'
      BY <2>4 DEF store, agents
    <3>2. CASE Approve(r)
      <4> DEFINE x == Get("approve")
                 y == Notice(r.agent, "added")
      <4>1. x \in Item /\ x.do # "push" /\ y \in Item /\ y.do # "push"
        BY <1>t, <1>y, <1>o, <2>1
      <4>2. /\ Issue(<<x, y>>) /\ Await("approve", r, "admit")
            /\ members' = Append(members, r.agent)
        BY <3>2 DEF Approve
      <4>3. /\ members' \in Seq(Agents)
            /\ \A b : b \in ToSet(members') <=> b \in ToSet(members) \/ b = r.agent
        BY <1>0, <1>t, <2>1, <4>2, ToSetAppend
      <4> HIDE DEF x, y
      <4> QED BY <1>t, <2>1, <3>1, <4>1, <4>2, <4>3, BeginReaches
    <3>3. CASE Reject(r)
      <4> DEFINE p == [pending EXCEPT ![r.agent] = "rejected"]
                 x == PutGroup("approve", members, p)
                 y == Answer(r, "rejected")
      <4>1. p \in [Agents -> Statuses]
        BY <1>0 DEF Statuses, Texts
      <4>2. members' = members /\ Issue(<<x, y>>) /\ Await("approve", r, "save")
        BY <3>3 DEF Reject
      <4> HIDE DEF p
      <4>3. x \in Item /\ x.do # "push" /\ y \in Item /\ y.do # "push"
        BY <1>0, <1>t, <1>p, <1>y, <2>1, <4>1
      <4> HIDE DEF x, y
      <4> QED BY <1>0, <1>t, <2>1, <3>1, <4>2, <4>3, BeginReaches
    <3> QED BY <2>4, <3>2, <3>3
  <2> QED BY <1>3, <2>2, <2>3, <2>4 DEF HandleApprove
<1>4. CASE HandleLeave(r)
  <2>1. Begins("leave", r)
    BY <1>4 DEF HandleLeave
  <2>2. CASE ~exists /\ Refuse("leave", r, "not_found")
    BY <1>t, <2>1, <2>2, RefuseReaches DEF Results
  <2>3. CASE exists /\ r.agent \notin ToSet(members) /\ Refuse("leave", r, "not_member")
    BY <1>t, <2>1, <2>3, RefuseReaches DEF Results
  <2>4. CASE /\ exists /\ r.agent \in ToSet(members) /\ Forbidden(r)
             /\ Refuse("leave", r, "unauthorized")
    BY <1>t, <2>1, <2>4, RefuseReaches DEF Results
  <2>5. CASE /\ members' = RemoveFirst(members, r.agent)
             /\ pending' = [pending EXCEPT ![r.agent] = "none"]
             /\ Issue(<<PutGroup("leave", members', pending')>>)
             /\ Await("leave", r, "save")
             /\ exists /\ UNCHANGED <<exists, store, agents, untold, cut, lost>>
    <3>1. /\ members' \in Seq(Agents) /\ pending' \in [Agents -> Statuses]
          /\ ToSet(members') \subseteq ToSet(members)
      BY <1>0, <2>5, RemoveFirstKeeps, RemoveFirstOnly DEF Statuses, Texts
    <3> DEFINE x == PutGroup("leave", members', pending')
    <3>2. x \in Item /\ x.do # "push"
      BY <1>t, <1>p, <3>1
    <3>3. Issue(<<x>>) /\ UNCHANGED <<version, told, untold, cut, lost>> /\ exists'
      BY <2>5 DEF store, agents
    <3>4. \E y \in Item : y.do # "push"
      BY <1>y, <1>t, <2>1
    <3> HIDE DEF x
    <3> QED BY <1>t, <2>1, <2>5, <3>1, <3>2, <3>3, <3>4, BeginReaches
  <2> QED BY <1>4, <2>2, <2>3, <2>4, <2>5 DEF HandleLeave
<1>5. CASE HandleAnnounce(r)
  <2>1. Begins("announce", r)
    BY <1>5 DEF HandleAnnounce
  <2>2. CASE ~exists /\ Refuse("announce", r, "not_found")
    BY <1>t, <2>1, <2>2, RefuseReaches DEF Results
  <2>3. CASE exists /\ r.from # Owner /\ Refuse("announce", r, "unauthorized")
    BY <1>t, <2>1, <2>3, RefuseReaches DEF Results
  <2>4. CASE /\ Issue(<<PutAnnouncement>>) /\ Await("announce", r, "save")
             /\ exists /\ UNCHANGED <<group, store, agents, history>>
    <3> DEFINE x == PutAnnouncement
    <3>1. x \in Item /\ x.do # "push"
      BY <1>o
    <3>2. Issue(<<x>>) /\ UNCHANGED <<version, told, untold, cut, lost, members>> /\ exists'
      BY <2>4 DEF group, store, agents, history
    <3> HIDE DEF x
    <3> QED BY <1>0, <1>t, <2>1, <2>4, <3>1, <3>2, BeginReaches
  <2> QED BY <1>5, <2>2, <2>3, <2>4 DEF HandleAnnounce
<1> QED BY <1>r, <1>1, <1>2, <1>3, <1>4, <1>5

(* A handler that has not read the announcement goes on. *)
LEMMA GetTimesOutReaches ==
    ASSUME Typed, Reaches, NEW s \in Subjects, GetTimesOut(s)
    PROVE  Reaches'
<1> DEFINE r == work[s].request
           x == PutGroup(s, members, pending)
<1>1. /\ work[s] # None /\ work[s].stage = "unread"
      /\ UNCHANGED <<exists, members, version, told, untold, cut, lost>>
  BY DEF GetTimesOut, group, store, agents, history
<1>2. /\ out \in Seq(Item) /\ TypeOK /\ r \in Request
      /\ members \in Seq(Agents) /\ pending \in [Agents -> Statuses]
  BY <1>1, WorkType DEF Typed, TypeOK
<1>3. /\ \A result \in {"joined", "approved"} :
            Answer(r, result) \in Item /\ Answer(r, result).do # "push"
      /\ x \in Item /\ x.do # "push"
  BY <1>2, ItemType DEF Results
<1> HIDE DEF x
<1>4. \A a : Coming(work, a) => Coming(work', a)
  <2>1. \A t \in Subjects \ {s} : work'[t] = work[t]
    <3>1. Ends(s) \/ Await(s, r, "save")
      BY DEF GetTimesOut
    <3> QED BY <1>2, <3>1, EndsType, AwaitType
  <2> QED BY <1>1, <2>1 DEF Coming, At, Subjects
<1>5. /\ ToSet(out) \subseteq ToSet(out')
      /\ \A z \in ToSet(out') : z.do = "push" => z \in ToSet(out)
  <2>1. CASE Issue(<<Answer(r, "joined")>>)
    <3> DEFINE y == Answer(r, "joined")
    <3>1. y \in Item /\ y.do # "push"
      BY <1>3
    <3> HIDE DEF y
    <3>2. out' = Append(out, y)
      BY <1>2, <2>1, <3>1, Issued DEF Issue, y
    <3>3. ToSet(out') = ToSet(out) \union {y}
      BY <1>2, <3>1, <3>2, ToSetMore
    <3> QED BY <3>1, <3>3
  <2>2. CASE Issue(<<x, Answer(r, "approved")>>)
    <3> DEFINE y == Answer(r, "approved")
               e == Append(out, x)
    <3>1. y \in Item /\ y.do # "push" /\ e \in Seq(Item)
      BY <1>2, <1>3
    <3> HIDE DEF y
    <3>2. out' = Append(e, y)
      BY <1>2, <1>3, <2>2, <3>1, Issued DEF Issue, y
    <3>3. ToSet(e) = ToSet(out) \union {x}
      BY <1>2, <1>3, ToSetMore
    <3> HIDE DEF e
    <3>4. ToSet(out') = ToSet(e) \union {y}
      BY <3>1, <3>2, ToSetMore
    <3> QED BY <1>3, <3>1, <3>3, <3>4
  <2> QED BY <2>1, <2>2 DEF GetTimesOut, x
<1> QED BY <1>1, <1>4, <1>5 DEF Reaches, Reached, NoneNewer

(* Whatever arrives: who is being let in is sent what is read for it, and  *)
(* a new announcement is sent to everyone in the group.                    *)
LEMMA DeliverReaches == Typed /\ Reaches /\ Deliver => Reaches'
<1> SUFFICES ASSUME Typed, Reaches, Deliver, ~cut', ~lost',
                    ~ \E s \in Subjects : GetTimesOut(s)
             PROVE  Reaches'
  BY GetTimesOutReaches DEF Reaches
<1> DEFINE q == Tail(out)
           h == Head(out)
<1>1. /\ out \in Seq(Item) /\ out # <<>> /\ h \in Item /\ q \in Seq(Item)
      /\ UNCHANGED <<exists, members, cut>>
  BY HeadTailProperties
     DEF Deliver, PutLands, PutFails, GetAnswered, GetFails, AnnouncementLands,
         AnnouncementFails, PushArrives, NoticeLeaves, AnswerArrives, First, Typed, TypeOK,
         group, history
<1>2. ToSet(out) = {h} \union ToSet(q)
  BY <1>1, ToSetMore
<1>3. /\ TypeOK /\ version \in Nat /\ told \in [Agents -> Nat]
      /\ members \in Seq(Agents) /\ ToSet(members) \subseteq Agents
  <2>1. /\ TypeOK /\ version \in Nat /\ told \in [Agents -> Nat] /\ members \in Seq(Agents)
    BY DEF Typed, TypeOK
  <2>2. ToSet(members) \subseteq Agents
    BY <2>1 DEF ToSet
  <2> QED BY <2>1, <2>2
<1>4. /\ ~exists => version = 0
      /\ NoneNewer(out, version) /\ \A a \in Agents : told[a] <= version
      /\ \A a \in ToSet(members) : Reached(a)
      /\ ~cut /\ ~lost
  <2>1. ~lost
    BY DEF Deliver, PutLands, PutFails, GetAnswered, GetFails, AnnouncementLands,
           AnnouncementFails, PushArrives, NoticeLeaves, AnswerArrives, history
  <2> QED BY <1>1, <2>1 DEF Reaches
<1> HIDE DEF q, h
<1>5. CASE PutLands
  <2> DEFINE s == Head(out).subject
             r == work[s].request
  <2>1. First("put") /\ AfterPut(s) /\ UNCHANGED <<version, told, untold>>
    BY <1>5 DEF PutLands, agents
  <2>2. /\ h.do = "put" /\ s \in Subjects /\ work[s] # None /\ r \in Request /\ r.agent \in Agents
        /\ Fits(h, work)
    BY <2>1, FirstOut DEF h
  <2>3. AfterPutForm(s, q)
    BY <2>1, AfterPutForms DEF q
  <2>4. /\ \A action \in {"added", "removed"} :
              Notice(r.agent, action) \in Item /\ Notice(r.agent, action).do # "push"
        /\ \A result \in Results : Answer(r, result) \in Item /\ Answer(r, result).do # "push"
        /\ Get(s) \in Item /\ Get(s).do # "push"
    BY <2>2, ItemType
  <2>5. \A a : Coming(work, a) => Coming(work', a)
    <3>1. CASE s = "join" /\ work[s].stage = "admit" /\ Await(s, r, "get")
      <4>1. /\ work'["join"] # None /\ work'["join"].stage = "get" /\ work'["join"].request = r
            /\ work'["approve"] = work["approve"]
        BY <1>3, <2>2, <3>1, AwaitType DEF Subjects
      <4> QED BY <3>1, <4>1 DEF Coming, At
    <3>2. CASE Ends(s) /\ (s = "join" => work[s].stage = "save")
      <4>1. \A t \in Subjects \ {s} : work'[t] = work[t]
        BY <1>3, <2>2, <3>2, EndsType
      <4>2. s = "approve" => work[s].stage = "save"
        BY <2>2 DEF Fits, h
      <4> QED BY <3>2, <4>1, <4>2 DEF Coming, At, Subjects
    <3> QED BY <2>1, <3>1, <3>2 DEF AfterPut
  <2> DEFINE Ok(z) == /\ z \in Seq(Item) /\ ToSet(q) \subseteq ToSet(z)
                      /\ \A x \in ToSet(z) : x.do = "push" => x \in ToSet(q)
  <2>6. \A z, y : Ok(z) /\ y \in Item /\ y.do # "push" => Ok(Append(z, y))
    <3> SUFFICES ASSUME NEW z, NEW y, Ok(z), y \in Item, y.do # "push" PROVE Ok(Append(z, y))
      OBVIOUS
    <3>1. z \in Seq(Item) /\ Append(z, y) \in Seq(Item)
      OBVIOUS
    <3>2. ToSet(Append(z, y)) = ToSet(z) \union {y}
      BY <3>1, ToSetMore
    <3> QED BY <3>1, <3>2
  <2>7. Ok(q)
    BY <1>1
  <2> HIDE DEF Ok, r, s
  <2>8. Ok(out')
    BY <2>3, <2>4, <2>6, <2>7 DEF AfterPutForm, Results, r
  <2>9. NoneNewer(out', version)
    BY <1>2, <1>4, <2>8 DEF Ok, NoneNewer
  <2>10. \A a : Push(a, version) \in ToSet(out) => Push(a, version) \in ToSet(out')
    <3>1. \A a : Push(a, version) # h
      BY <2>2 DEF Push
    <3> QED BY <1>2, <2>8, <3>1 DEF Ok
  <2> QED BY <1>1, <1>4, <2>1, <2>5, <2>9, <2>10 DEF Reaches, Reached
<1>6. CASE GetAnswered
  <2> DEFINE s == Head(out).subject
             r == work[s].request
             p == Pushed(r.agent)
  <2>1. First("get") /\ AfterGet(s) /\ UNCHANGED <<version, told, untold>>
    BY <1>6 DEF GetAnswered, store, agents, history
  <2>2. /\ h.do = "get" /\ s \in Subjects /\ work[s] # None /\ r \in Request /\ r.agent \in Agents
    BY <2>1, FirstOut DEF h
  <2>3. AfterGetForm(s, q)
    BY <2>1, AfterGetForms DEF q
  <2>4. /\ \A result \in {"joined", "approved"} :
              Answer(r, result) \in Item /\ Answer(r, result).do # "push"
        /\ p \in Seq(Item)
    BY <1>3, <2>2, ItemType, PushedType DEF Results
  <2>5. /\ \A x \in ToSet(p) : x.do = "push" => x.version <= version
        /\ version # 0 => Push(r.agent, version) \in ToSet(p)
    <3>1. CASE version = 0
      BY <3>1 DEF Pushed, ToSet
    <3>2. CASE version # 0
      BY <1>3, <3>2 DEF Pushed, ToSet, Push
    <3> QED BY <3>1, <3>2
  <2>6. \A a : Push(a, version) # h
    BY <2>2 DEF Push
  <2> HIDE DEF p
  <2>7. /\ ToSet(q) \union ToSet(p) \subseteq ToSet(out')
        /\ \A x \in ToSet(out') : x.do = "push" => x \in ToSet(q) \union ToSet(p)
    <3>1. CASE s = "join" /\ out' = Append(q \o p, Answer(r, "joined"))
      <4>1. q \o p \in Seq(Item) /\ ToSet(q \o p) = ToSet(q) \union ToSet(p)
        BY <1>1, <2>4, ToSetMore, ConcatProperties
      <4>2. ToSet(out') = ToSet(q \o p) \union {Answer(r, "joined")}
        BY <2>4, <3>1, <4>1, ToSetMore
      <4> QED BY <2>4, <4>1, <4>2
    <3>2. CASE /\ s = "approve"
               /\ out' = Append(Append(q, PutGroup(s, members, pending)) \o p,
                                Answer(r, "approved"))
      <4> DEFINE x == PutGroup(s, members, pending)
                 e == Append(q, x)
      <4>1. x \in Item /\ x.do # "push"
        <5>1. pending \in [Agents -> Statuses]
          BY <1>3 DEF TypeOK
        <5> QED BY <1>3, <2>2, <5>1, ItemType DEF Statuses, Texts
      <4> HIDE DEF x
      <4>2. e \in Seq(Item) /\ ToSet(e) = ToSet(q) \union {x}
        BY <1>1, <4>1, ToSetMore
      <4>3. out' = Append(e \o p, Answer(r, "approved"))
        BY <3>2 DEF e, x
      <4> HIDE DEF e
      <4>4. e \o p \in Seq(Item) /\ ToSet(e \o p) = ToSet(e) \union ToSet(p)
        BY <2>4, <4>2, ToSetMore, ConcatProperties
      <4>5. ToSet(out') = ToSet(e \o p) \union {Answer(r, "approved")}
        BY <2>4, <4>3, <4>4, ToSetMore
      <4> QED BY <2>4, <4>1, <4>2, <4>4, <4>5
    <3> QED BY <2>3, <3>1, <3>2 DEF AfterGetForm, p
  <2>8. NoneNewer(out', version)
    BY <1>2, <1>4, <2>5, <2>7 DEF NoneNewer
  <2>9. ASSUME NEW a \in ToSet(members)
        PROVE  \/ told[a] = version \/ Push(a, version) \in ToSet(out') \/ Coming(work', a)
               \/ <<a, version>> \in untold
    <3>1. CASE r.agent = a
      <4>1. version = 0 => told[a] = version
        BY <1>3, <1>4, <2>9
      <4> QED BY <2>5, <2>7, <3>1, <4>1
    <3>2. CASE r.agent # a
      <4>1. Coming(work, a) => Coming(work', a)
        <5>1. \A t \in Subjects \ {s} : work'[t] = work[t]
          <6>1. Ends(s) \/ Await(s, r, "save")
            BY <2>1 DEF AfterGet
          <6> QED BY <1>3, <2>2, <6>1, EndsType, AwaitType
        <5>2. \A t \in Subjects : At(work, t, "get", a) \/ At(work, t, "admit", a) => t # s
          BY <3>2 DEF At
        <5> HIDE DEF s
        <5> QED BY <5>1, <5>2 DEF Coming, At, Subjects
      <4> QED BY <1>2, <1>4, <2>6, <2>7, <2>9, <4>1 DEF Reached
    <3> QED BY <3>1, <3>2
  <2> QED BY <1>1, <1>4, <2>1, <2>8, <2>9 DEF Reaches, Reached
<1>7. CASE AnnouncementLands
  <2> DEFINE p == ToAll(members)
             y == Answer(work["announce"].request, "set")
  <2>1. First("announce") /\ AfterAnnouncement /\ version' = version + 1 /\ UNCHANGED told
    BY <1>7 DEF AnnouncementLands, agents
  <2>2. p \in Seq(Item) /\ work["announce"].request \in Request /\ out' = Append(q \o p, y)
    BY <2>1, AfterAnnouncementForm DEF q
  <2>3. y \in Item /\ y.do # "push"
    BY <2>2, ItemType DEF Results
  <2>4. \A a \in ToSet(members) : Push(a, version + 1) \in ToSet(p)
    BY DEF ToSet, ToAll
  <2>5. \A x \in ToSet(p) : x.version = version + 1
    BY DEF ToSet, ToAll, Push
  <2> HIDE DEF p, y
  <2>6. ToSet(out') = (ToSet(q) \union ToSet(p)) \union {y}
    <3>1. q \o p \in Seq(Item) /\ ToSet(q \o p) = ToSet(q) \union ToSet(p)
      BY <1>1, <2>2, ToSetMore, ConcatProperties
    <3>2. ToSet(out') = ToSet(q \o p) \union {y}
      BY <2>2, <2>3, <3>1, ToSetMore
    <3> QED BY <3>1, <3>2
  <2>7. exists
    <3>1. work["announce"] # None /\ "announce" \in Subjects
      BY <2>1, FirstOut DEF Fits, Subjects
    <3> QED BY <3>1 DEF Typed, NotYet, Idle
  <2>8. \A x \in ToSet(out) : x.do = "push" => x.version <= version'
    <3>1. \A x \in ToSet(out) : x.do = "push" => x.version \in Nat
      BY <1>1, HeadType DEF ToSet
    <3> QED BY <1>3, <1>4, <2>1, <3>1 DEF NoneNewer
  <2>9. NoneNewer(out', version')
    <3>1. \A x \in ToSet(q) : x.do = "push" => x.version <= version'
      BY <1>2, <2>8
    <3>2. \A x \in ToSet(p) : x.version <= version'
      BY <1>3, <2>1, <2>5
    <3> QED BY <2>3, <2>6, <3>1, <3>2 DEF NoneNewer
  <2>10. \A a \in Agents : told'[a] <= version'
    BY <1>3, <1>4, <2>1
  <2>11. \A a \in ToSet(members) : Push(a, version') \in ToSet(out')
    BY <2>1, <2>4, <2>6
  <2> QED BY <1>1, <2>7, <2>9, <2>10, <2>11 DEF Reaches, Reached
<1>8. CASE AnnouncementFails
  <2>1. First("announce") /\ Ends("announce") /\ out' = q /\ UNCHANGED told
    BY <1>8 DEF AnnouncementFails, agents, q
  <2>2. h.do = "announce"
    BY <2>1, FirstOut DEF h
  <2>3. work'["join"] = work["join"] /\ work'["approve"] = work["approve"]
    BY <1>3, <2>1, EndsType DEF Subjects
  <2>4. \A a : Push(a, version) # h
    BY <2>2 DEF Push
  <2>5. CASE UNCHANGED <<version, untold>>
    BY <1>1, <1>2, <1>4, <2>1, <2>3, <2>4, <2>5 DEF Reaches, Reached, NoneNewer, Coming, At
  <2>6. CASE /\ version' = version + 1
             /\ untold' = untold \union (ToSet(members) \X {version + 1})
    <3>1. exists
      <4>1. work["announce"] # None /\ "announce" \in Subjects
        BY <2>1, FirstOut DEF Fits, Subjects
      <4> QED BY <4>1 DEF Typed, NotYet, Idle
    <3>2. NoneNewer(out', version')
      <4>1. \A z \in ToSet(out) : z.do = "push" => z.version \in Nat
        BY <1>1, HeadType DEF ToSet
      <4> QED BY <1>2, <1>3, <1>4, <2>1, <2>6, <4>1 DEF NoneNewer
    <3>3. \A a \in Agents : told'[a] <= version'
      BY <1>3, <1>4, <2>1, <2>6
    <3>4. \A a \in ToSet(members) : <<a, version'>> \in untold'
      BY <2>6
    <3> QED BY <1>1, <3>1, <3>2, <3>3, <3>4 DEF Reaches, Reached
  <2> QED BY <1>8, <2>5, <2>6 DEF AnnouncementFails
<1>9. CASE PushArrives
  <2> DEFINE b == h.to
  <2>1. /\ h.do = "push" /\ out' = q /\ UNCHANGED <<version, untold, work>>
        /\ told' = [told EXCEPT ![b] = IF @ < h.version THEN h.version ELSE @]
    BY <1>9 DEF PushArrives, First, store, history, q, h
  <2>2. b \in Agents /\ h.version \in Nat /\ h.version <= version
    BY <1>1, <1>2, <1>4, <2>1, HeadType DEF NoneNewer
  <2>3. \A a \in Agents : told'[a] <= version /\ (told[a] = version => told'[a] = version)
    BY <1>3, <1>4, <2>1, <2>2
  <2>4. \A a \in Agents : Push(a, version) = h => told'[a] = version
    <3> SUFFICES ASSUME NEW a \in Agents, Push(a, version) = h PROVE told'[a] = version
      OBVIOUS
    <3>1. b = a /\ h.version = version
      BY DEF Push
    <3> QED BY <1>3, <1>4, <2>1, <2>2, <3>1
  <2>5. NoneNewer(out', version)
    BY <1>2, <1>4, <2>1 DEF NoneNewer
  <2>6. \A a \in ToSet(members) :
           \/ told'[a] = version \/ Push(a, version) \in ToSet(out') \/ Coming(work', a)
           \/ <<a, version>> \in untold
    BY <1>2, <1>3, <1>4, <2>1, <2>3, <2>4 DEF Reached
  <2> QED BY <1>1, <1>4, <2>1, <2>3, <2>5, <2>6 DEF Reaches, Reached
<1>10. CASE NoticeLeaves \/ AnswerArrives
  <2>1. h.do # "push" /\ out' = q /\ UNCHANGED <<version, work, told, untold>>
    BY <1>10 DEF NoticeLeaves, AnswerArrives, First, store, history, q, h
  <2>2. \A a : Push(a, version) # h
    BY <2>1 DEF Push
  <2> QED BY <1>1, <1>2, <1>4, <2>1, <2>2 DEF Reaches, Reached, NoneNewer
<1>11. ~PutFails
  BY DEF PutFails
<1>12. CASE GetFails
  <2> DEFINE s == Head(out).subject
             r == work[s].request
  <2>1. /\ First("get") /\ Await(s, r, "unread") /\ out' = q
        /\ UNCHANGED <<version, told>>
        /\ untold' = untold \union {<<r.agent, version>>}
    BY <1>12 DEF GetFails, store, agents, q
  <2>2. h.do = "get" /\ s \in Subjects /\ work[s] # None /\ r \in Request
    BY <2>1, FirstOut DEF h
  <2>3. \A t \in Subjects \ {s} : work'[t] = work[t]
    BY <1>3, <2>1, <2>2, AwaitType
  <2>4. \A a : Push(a, version) # h
    BY <2>2 DEF Push
  <2> HIDE DEF s
  <2>5. ASSUME NEW a \in ToSet(members)
        PROVE  \/ told[a] = version \/ Push(a, version) \in ToSet(out') \/ Coming(work', a)
               \/ <<a, version>> \in untold'
    <3>1. CASE r.agent = a
      BY <2>1, <3>1
    <3>2. CASE r.agent # a
      <4>1. Coming(work, a) => Coming(work', a)
        <5>1. \A t \in Subjects : At(work, t, "get", a) \/ At(work, t, "admit", a) => t # s
          BY <3>2 DEF At
        <5> QED BY <2>3, <5>1 DEF Coming, At, Subjects
      <4> QED BY <1>2, <1>4, <2>1, <2>4, <2>5, <4>1 DEF Reached
    <3> QED BY <3>1, <3>2
  <2>6. NoneNewer(out', version)
    BY <1>2, <1>4, <2>1 DEF NoneNewer
  <2> QED BY <1>1, <1>4, <2>1, <2>5, <2>6 DEF Reaches, Reached
<1> QED BY <1>5, <1>6, <1>7, <1>8, <1>9, <1>10, <1>11, <1>12 DEF Deliver

LEMMA NextReaches == Typed /\ Latest /\ Reaches /\ [Next]_vars => Reaches'
<1> SUFFICES ASSUME Typed, Latest, Reaches, [Next]_vars PROVE Reaches'
  OBVIOUS
<1>1. CASE Serve
  <2>1. CASE Crash
    <3> SUFFICES ASSUME ~cut', ~lost' PROVE Reaches'
      BY DEF Reaches
    <3>1. /\ ~cut /\ ~lost /\ Idle /\ out = <<>> /\ out' = <<>>
          /\ UNCHANGED <<saved, version, told, untold>>
          /\ exists' = (saved # None) /\ members' = Loaded.members
      BY <2>1 DEF Crash, store, agents
    <3>2. \A a : ~Coming(work, a)
      BY <3>1 DEF Coming, At, Idle, Subjects
    <3>3. exists => saved = Record /\ saved # None
      <4>1. exists => saved = Record
        BY <3>1 DEF Latest, LatestIn, WillPut, Idle, Subjects
      <4>2. Record # None
        BY RecordType DEF Typed
      <4> QED BY <4>1, <4>2
    <3>4. ~exists => saved = None
      BY DEF Typed, NotYet
    <3>5. members' = members /\ (exists' <=> exists)
      <4>1. CASE exists
        <5>1. Loaded = saved /\ saved.members = members
          BY <3>3, <4>1, RecordType DEF Loaded, Typed
        <5> QED BY <3>1, <3>3, <4>1, <5>1
      <4>2. CASE ~exists
        <5>1. Loaded.members = <<>> /\ members = <<>>
          BY <3>4, <4>2 DEF Loaded, Typed, NotYet
        <5> QED BY <3>1, <3>4, <4>2, <5>1
      <4> QED BY <4>1, <4>2
    <3>6. \A a \in ToSet(members) : told[a] = version \/ <<a, version>> \in untold
      BY <3>1, <3>2 DEF Reaches, Reached, ToSet
    <3>7. NoneNewer(out', version)
      BY <3>1 DEF NoneNewer, ToSet
    <3> QED BY <3>1, <3>5, <3>6, <3>7 DEF Reaches, Reached
  <2> QED BY <1>1, <2>1, HandleReaches, DeliverReaches DEF Serve
<1>2. CASE (\E c \in Commands : Ask(c)) \/ Follow \/ UNCHANGED vars
  <2>1. UNCHANGED <<members, exists, version, told, untold, work, out, cut, lost>>
    BY <1>2 DEF Ask, Send, Follow, TimeOut, OnNotification, StartClient,
                SubscribeNotification, vars, admission, group, store, service, agents, history
  <2> QED BY <2>1 DEF Reaches, Reached
<1> QED BY <1>1, <1>2 DEF Next

(* Every member has been sent the announcement in force once nothing is    *)
(* under way, however joining, approving and setting it interleave: who    *)
(* joins before it is stored is among those it goes to                     *)
(* (_handle_announce), who joins after is sent what is read                *)
(* (_push_announcement_on_join).  A crash that cuts a handler short is     *)
(* excluded, and a put of the record that got no answer: who left in       *)
(* memory only would be back after a restart.  So are the announcements in *)
(* `untold': stored, but their put got no answer, or the reading for the   *)
(* new member got none.                                                    *)
THEOREM AnnouncedToMembers == Spec => []AnnouncementReaches
<1>1. Init => Reaches
  <2> SUFFICES ASSUME Init PROVE Reaches
    OBVIOUS
  <2>1. /\ version = 0 /\ out = <<>> /\ told = [a \in Agents |-> 0]
        /\ members = <<Owner>> \/ members = <<>>
    BY DEF Init, AdmissionInit
  <2>2. ToSet(members) \subseteq Agents
    BY <2>1, AdmissionAssumption DEF ToSet
  <2> QED BY <2>1, <2>2 DEF Reaches, Reached, NoneNewer, ToSet
<1>2. Reaches => AnnouncementReaches
  <2> SUFFICES ASSUME Reaches, Quiet, ~cut, ~lost, NEW a \in ToSet(members)
               PROVE  told[a] = version \/ <<a, version>> \in untold
    BY DEF AnnouncementReaches
  <2>1. ~Coming(work, a) /\ out = <<>>
    BY DEF Quiet, Idle, Coming, At, Subjects
  <2> QED BY <2>1 DEF Reaches, Reached, ToSet
<1>3. Init => Latest
  BY DEF Init, AdmissionInit, Latest, LatestIn
<1> QED BY <1>1, <1>2, <1>3, InitTyped, NextTyped, NextLatest, NextReaches, PTL DEF Spec

-----------------------------------------------------------------------------
(* Who hears the group. *)

Once(list, a) == \A i, j \in DOMAIN list : list[i] = a /\ list[j] = a => i = j

PutBy(y, s) == IsPut(y) /\ y.subject = s

(* A leave under way is on its way, and before the join that follows it. *)
LeaveOn(q) == \E y \in ToSet(q) : PutBy(y, "leave")
LeaveFirst(q) ==
    \A i, j \in DOMAIN q : PutBy(q[i], "leave") /\ PutBy(q[j], "join") => i < j

Leaves(w, a) == w["leave"] # None /\ w["leave"].request.agent = a

(* The agent is in the list and will be told so. *)
Letting(w, a) == At(w, "create", "save", a) \/ At(w, "join", "admit", a)

(* The last of the notices on their way, or the last that waits for the    *)
(* client, or else what it has subscribed, lets it hear the group.         *)
HeardIn(q, box, sub, a) ==
    \/ \E i \in DOMAIN q :
          q[i] = Notice(a, "added") /\ \A k \in DOMAIN q : i < k => q[k] # Notice(a, "removed")
    \/ /\ \A k \in DOMAIN q : q[k] # Notice(a, "removed")
       /\ IF box = <<>> THEN sub > 0 ELSE box[Len(box)] = "added"

(* The record names the agent, and so does what is put from then on.       *)
AllName(q, a) == \A y \in ToSet(q) : IsPut(y) => Names(y, a)
FromPut(q, a) ==
    \A i, j \in DOMAIN q : PutBy(q[i], "approve") /\ IsPut(q[j]) /\ i <= j => Names(q[j], a)

Deciding(w, a) == w["approve"] # None /\ w["approve"].request.agent = a

RecordIn(q, w, known, a) ==
    /\ At(w, "approve", "save", a) => FromPut(q, a)
    /\ Deciding(w, a) \/ (known /\ AllName(q, a))

HearsIn(q, w, box, sub, open, known, a) ==
    /\ Leaves(w, a) => At(w, "join", "admit", a) /\ LeaveFirst(q)
    /\ Letting(w, a) \/ HeardIn(q, box, sub, a)
    /\ open \/ RecordIn(q, w, known, a)

Known(a) == At(work, "create", "save", a) \/ Stored(a)

Hears ==
    ~cut /\ ~lost =>
        /\ work["leave"] # None => LeaveOn(out)
        /\ \A a \in ToSet(members) \ (missed \union disputed) :
              /\ Once(members, a)
              /\ HearsIn(out, work, notices[a], subs[a], isDefault, Known(a), a)

(* Removing an agent takes one place out of the list. *)
LEMMA RemoveFirstPlaces ==
    ASSUME NEW list \in Seq(Agents), NEW a \in ToSet(list)
    PROVE  \E k \in 1 .. Len(list) :
              /\ list[k] = a
              /\ DOMAIN RemoveFirst(list, a) = 1 .. Len(list) - 1
              /\ \A i \in 1 .. Len(list) - 1 :
                    RemoveFirst(list, a)[i] = list[IF i < k THEN i ELSE i + 1]
<1>1. \E i \in 1 .. Len(list) : list[i] = a
  BY DEF ToSet
<1> DEFINE k == SelectInSeq(list, LAMBDA v : v = a)
<1>2. k \in 1 .. Len(list) /\ list[k] = a
  <2> DEFINE I == {i \in 1 .. Len(list) : list[i] = a}
  <2>1. I # {} /\ I \subseteq Nat
    BY <1>1
  <2>2. k = Min(I)
    BY <2>1 DEF SelectInSeq
  <2>3. Min(I) \in I
    <3> HIDE DEF I
    <3> QED BY <2>1, SmallestExists
  <2> QED BY <2>2, <2>3
<1>3. RemoveFirst(list, a) = RemoveAt(list, k)
  BY <1>1 DEF RemoveFirst
<1> HIDE DEF k
<1> DEFINE front == SubSeq(list, 1, k - 1)
           back == SubSeq(list, k + 1, Len(list))
           l == front \o back
<1>4. /\ front \in Seq(Agents) /\ Len(front) = k - 1
      /\ \A i \in 1 .. k - 1 : front[i] = list[i]
      /\ back \in Seq(Agents) /\ Len(back) = Len(list) - k
      /\ \A i \in 1 .. Len(list) - k : back[i] = list[i + k]
  BY <1>2
<1>5. RemoveFirst(list, a) = l
  BY <1>3 DEF RemoveAt
<1> HIDE DEF front, back
<1>6. /\ DOMAIN l = 1 .. Len(list) - 1
      /\ \A i \in 1 .. Len(list) - 1 :
            l[i] = IF i <= k - 1 THEN front[i] ELSE back[i - (k - 1)]
  BY <1>2, <1>4, ConcatProperties
<1>7. ASSUME NEW i \in 1 .. Len(list) - 1
      PROVE  l[i] = list[IF i < k THEN i ELSE i + 1]
  <2>1. CASE i < k
    BY <1>2, <1>4, <1>6, <2>1
  <2>2. CASE i >= k
    <3>1. i - (k - 1) \in 1 .. Len(list) - k /\ (i - (k - 1)) + k = i + 1 /\ ~(i <= k - 1)
      BY <1>2, <2>2
    <3>2. back[i - (k - 1)] = list[(i - (k - 1)) + k]
      BY <1>4, <3>1
    <3>3. ~(i < k)
      BY <1>2, <2>2
    <3>4. l[i] = back[i - (k - 1)]
      BY <1>6, <3>1
    <3> HIDE DEF l
    <3> QED BY <3>1, <3>2, <3>3, <3>4
  <2>3. i \in Int /\ k \in Int
    BY <1>2
  <2>4. i < k \/ i >= k
    BY <2>3
  <2> QED BY <2>1, <2>2, <2>4
<1> QED BY <1>2, <1>5, <1>6, <1>7

(* What is in a list once is gone when it is removed; the others stay as   *)
(* they are.                                                               *)
LEMMA RemoveOnce ==
    ASSUME NEW list \in Seq(Agents), NEW a \in ToSet(list), NEW b, Once(list, b)
    PROVE  /\ Once(RemoveFirst(list, a), b)
           /\ b = a => b \notin ToSet(RemoveFirst(list, a))
<1> DEFINE l == RemoveFirst(list, a)
<1>1. PICK k \in 1 .. Len(list) :
              /\ list[k] = a /\ DOMAIN l = 1 .. Len(list) - 1
              /\ \A i \in 1 .. Len(list) - 1 : l[i] = list[IF i < k THEN i ELSE i + 1]
  BY RemoveFirstPlaces
<1> HIDE DEF l
<1> DEFINE at(i) == IF i < k THEN i ELSE i + 1
<1>2. DOMAIN list = 1 .. Len(list) /\ Len(list) \in Nat
  OBVIOUS
<1>3. \A i, j \in DOMAIN l : /\ at(i) \in DOMAIN list /\ at(i) # k /\ l[i] = list[at(i)]
                             /\ at(i) = at(j) => i = j
  BY <1>1, <1>2
<1> HIDE DEF at
<1>4. Once(l, b)
  BY <1>3 DEF Once
<1>5. b = a => b \notin ToSet(l)
  BY <1>1, <1>2, <1>3 DEF Once, ToSet
<1> QED BY <1>4, <1>5 DEF l

(* An agent that was not in the list is in it once when it is appended. *)
LEMMA AppendOnce ==
    ASSUME NEW list \in Seq(Agents), NEW e \in Agents, NEW b,
           Once(list, b), e = b => b \notin ToSet(list)
    PROVE  Once(Append(list, e), b)
<1> DEFINE l == Append(list, e)
           n == Len(list) + 1
<1>1. /\ DOMAIN l = 1 .. n /\ l[n] = e /\ DOMAIN list = 1 .. Len(list)
      /\ \A i \in DOMAIN l : i = n \/ (i \in DOMAIN list /\ l[i] = list[i])
  OBVIOUS
<1> HIDE DEF l, n
<1>2. e = b => \A i \in DOMAIN list : list[i] # b
  BY DEF ToSet
<1> QED BY <1>1, <1>2 DEF Once, l

LEMMA AbsentOnce == \A list, b : b \notin ToSet(list) => Once(list, b)
BY DEF Once, ToSet

(* What is issued comes after what is on its way. *)
LEMMA ConcatPlaces ==
    ASSUME NEW q \in Seq(Item), NEW p \in Seq(Item)
    PROVE  /\ q \o p \in Seq(Item)
           /\ \A i \in DOMAIN q : i \in DOMAIN (q \o p) /\ (q \o p)[i] = q[i]
           /\ \A i \in DOMAIN (q \o p) :
                 \/ i \in DOMAIN q /\ (q \o p)[i] = q[i]
                 \/ (q \o p)[i] \in ToSet(p) /\ \A k \in DOMAIN q : k < i
           /\ \A y \in ToSet(p) : \E i \in DOMAIN (q \o p) :
                 (q \o p)[i] = y /\ \A k \in DOMAIN q : k < i
<1> DEFINE e == q \o p
<1>1. /\ e \in Seq(Item) /\ DOMAIN e = 1 .. Len(q) + Len(p)
      /\ DOMAIN q = 1 .. Len(q) /\ DOMAIN p = 1 .. Len(p)
      /\ Len(q) \in Nat /\ Len(p) \in Nat
      /\ \A i \in 1 .. Len(q) + Len(p) : e[i] = IF i <= Len(q) THEN q[i] ELSE p[i - Len(q)]
  BY ConcatProperties
<1> HIDE DEF e
<1>2. \A i \in DOMAIN q : i \in DOMAIN e /\ e[i] = q[i]
  BY <1>1
<1>3. \A i \in DOMAIN e : i \notin DOMAIN q =>
         i - Len(q) \in DOMAIN p /\ e[i] = p[i - Len(q)] /\ \A k \in DOMAIN q : k < i
  BY <1>1
<1>4. \A i \in DOMAIN p : /\ i + Len(q) \in DOMAIN e /\ e[i + Len(q)] = p[i]
                          /\ \A k \in DOMAIN q : k < i + Len(q)
  BY <1>1
<1>5. \A i \in DOMAIN e : \/ i \in DOMAIN q /\ e[i] = q[i]
                          \/ e[i] \in ToSet(p) /\ \A k \in DOMAIN q : k < i
  BY <1>2, <1>3 DEF ToSet
<1>6. \A y \in ToSet(p) : \E i \in DOMAIN e : e[i] = y /\ \A k \in DOMAIN q : k < i
  BY <1>4 DEF ToSet
<1> QED BY <1>1, <1>2, <1>5, <1>6 DEF e

LEMMA TailPlaces ==
    ASSUME NEW q \in Seq(Item), q # <<>>
    PROVE  /\ Tail(q) \in Seq(Item) /\ 1 \in DOMAIN q /\ q[1] = Head(q)
           /\ \A i \in DOMAIN Tail(q) :
                 i + 1 \in DOMAIN q /\ Tail(q)[i] = q[i + 1] /\ 1 < i + 1 /\ i \in Int
           /\ \A i \in DOMAIN q : i = 1 \/ (i - 1 \in DOMAIN Tail(q) /\ Tail(q)[i - 1] = q[i])
           /\ \A i, j \in DOMAIN Tail(q) : /\ i + 1 < j + 1 <=> i < j
                                           /\ i + 1 <= j + 1 <=> i <= j
<1>1. /\ Tail(q) \in Seq(Item) /\ DOMAIN q = 1 .. Len(q) /\ DOMAIN Tail(q) = 1 .. Len(q) - 1
      /\ Len(q) \in Nat /\ 1 \in DOMAIN q /\ q[1] = Head(q)
      /\ \A i \in 1 .. Len(q) - 1 : Tail(q)[i] = q[i + 1]
  OBVIOUS
<1>2. \A i \in DOMAIN q : i # 1 => i - 1 \in DOMAIN Tail(q) /\ (i - 1) + 1 = i
  BY <1>1
<1> QED BY <1>1, <1>2

Untold(q, a) == Notice(a, "removed") \notin ToSet(q)

(* Unless the agent is told that it is removed, it goes on hearing. *)
LEMMA HeardMore ==
    ASSUME NEW q \in Seq(Item), NEW p \in Seq(Item), NEW a, Untold(p, a), NEW box, NEW sub,
           HeardIn(q, box, sub, a) \/ Notice(a, "added") \in ToSet(p)
    PROVE  HeardIn(q \o p, box, sub, a)
<1> DEFINE e == q \o p
           added == Notice(a, "added")
           removed == Notice(a, "removed")
<1>1. /\ \A i \in DOMAIN q : i \in DOMAIN e /\ e[i] = q[i]
      /\ \A i \in DOMAIN e : \/ i \in DOMAIN q /\ e[i] = q[i]
                             \/ e[i] # removed /\ \A k \in DOMAIN q : k < i
      /\ added \in ToSet(p) => \E i \in DOMAIN e : e[i] = added /\ \A k \in DOMAIN q : k < i
  BY ConcatPlaces DEF Untold
<1>2. \A i, k \in DOMAIN e : i \in Int /\ k \in Int /\ (i < k => ~(k < i))
  <2>1. e \in Seq(Item)
    BY ConcatPlaces
  <2> HIDE DEF e
  <2> QED BY <2>1
<1> HIDE DEF e, added, removed
<1>3. CASE added \in ToSet(p)
  <2>1. PICK i \in DOMAIN e : e[i] = added /\ \A k \in DOMAIN q : k < i
    BY <1>1, <1>3
  <2>2. \A k \in DOMAIN e : i < k => e[k] # removed
    BY <1>1, <1>2, <2>1
  <2> QED BY <2>1, <2>2 DEF HeardIn, e, added, removed
<1>4. CASE \E i \in DOMAIN q : q[i] = added /\ \A k \in DOMAIN q : i < k => q[k] # removed
  BY <1>1, <1>4 DEF HeardIn, e, added, removed
<1>5. CASE /\ \A k \in DOMAIN q : q[k] # removed
           /\ IF box = <<>> THEN sub > 0 ELSE box[Len(box)] = "added"
  <2>1. \A k \in DOMAIN e : e[k] # removed
    BY <1>1, <1>5
  <2> QED BY <1>5, <2>1 DEF HeardIn, e, removed
<1> QED BY <1>3, <1>4, <1>5 DEF HeardIn, added, removed

(* A notice on its way reaches the client, anything else leaves it alone. *)
LEMMA HeardTail ==
    ASSUME NEW q \in Seq(Item), q # <<>>, NEW a, NEW box \in Seq({"added", "removed"}),
           NEW sub, HeardIn(q, box, sub, a)
    PROVE  /\ Head(q).do # "notify" => HeardIn(Tail(q), box, sub, a)
           /\ Head(q).do = "notify" /\ Head(q).to # a => HeardIn(Tail(q), box, sub, a)
           /\ \A action \in {"added", "removed"} :
                 Head(q) = Notice(a, action) => HeardIn(Tail(q), Append(box, action), sub, a)
<1> DEFINE e == Tail(q)
           h == Head(q)
           added == Notice(a, "added")
           removed == Notice(a, "removed")
<1>1. /\ 1 \in DOMAIN q /\ q[1] = h
      /\ \A i \in DOMAIN e : i + 1 \in DOMAIN q /\ e[i] = q[i + 1] /\ 1 < i + 1 /\ i \in Int
      /\ \A i \in DOMAIN q : i = 1 \/ (i - 1 \in DOMAIN e /\ e[i - 1] = q[i])
      /\ \A i, j \in DOMAIN e : i + 1 < j + 1 <=> i < j
      /\ \A i \in DOMAIN q : i \in Int
  BY TailPlaces
<1>2. added # removed /\ \A x \in {added, removed} : x.do = "notify" /\ x.to = a
  BY DEF Notice
<1> HIDE DEF e, h, added, removed
<1>3. CASE \E i \in DOMAIN q :
              i # 1 /\ q[i] = added /\ \A k \in DOMAIN q : i < k => q[k] # removed
  <2> PICK i \in DOMAIN q :
              i # 1 /\ q[i] = added /\ \A k \in DOMAIN q : i < k => q[k] # removed
    BY <1>3
  <2>1. i - 1 \in DOMAIN e /\ e[i - 1] = added /\ (i - 1) + 1 = i
    BY <1>1
  <2>2. \A k \in DOMAIN e : i - 1 < k => e[k] # removed
    BY <1>1, <2>1
  <2>3. \A b, t : HeardIn(e, b, t, a)
    BY <2>1, <2>2 DEF HeardIn, added, removed
  <2> QED BY <2>3 DEF e
<1>4. CASE q[1] = added /\ \A k \in DOMAIN q : 1 < k => q[k] # removed
  <2>1. \A k \in DOMAIN e : e[k] # removed
    BY <1>1, <1>4
  <2>2. /\ Append(box, "added") # <<>>
        /\ Append(box, "added")[Len(Append(box, "added"))] = "added"
    OBVIOUS
  <2>3. HeardIn(e, Append(box, "added"), sub, a)
    BY <2>1, <2>2 DEF HeardIn, removed
  <2> QED BY <1>1, <1>2, <1>4, <2>3 DEF e, h, added, removed
<1>5. CASE /\ \A k \in DOMAIN q : q[k] # removed
           /\ IF box = <<>> THEN sub > 0 ELSE box[Len(box)] = "added"
  <2>1. \A k \in DOMAIN e : e[k] # removed
    BY <1>1, <1>5
  <2>2. HeardIn(e, box, sub, a)
    BY <1>5, <2>1 DEF HeardIn, removed
  <2>3. /\ Append(box, "added") # <<>>
        /\ Append(box, "added")[Len(Append(box, "added"))] = "added"
    OBVIOUS
  <2>4. HeardIn(e, Append(box, "added"), sub, a)
    BY <2>1, <2>3 DEF HeardIn, removed
  <2>5. h # removed
    BY <1>1, <1>5
  <2> QED BY <2>2, <2>4, <2>5 DEF e, h, removed
<1> QED BY <1>1, <1>3, <1>4, <1>5 DEF HeardIn, added, removed

NoneBy(q, s) == \A y \in ToSet(q) : ~PutBy(y, s)

LEMMA PutsMore ==
    ASSUME NEW q \in Seq(Item), NEW p \in Seq(Item), NEW a
    PROVE  /\ LeaveOn(q) \/ LeaveOn(p) => LeaveOn(q \o p)
           /\ AllName(q, a) /\ AllName(p, a) => AllName(q \o p, a)
           /\ LeaveFirst(q) /\ NoneBy(p, "leave") => LeaveFirst(q \o p)
           /\ FromPut(q, a) /\ AllName(p, a) => FromPut(q \o p, a)
<1> DEFINE e == q \o p
<1>1. ToSet(e) = ToSet(q) \union ToSet(p)
  BY ToSetMore
<1>2. \A i \in DOMAIN e : \/ i \in DOMAIN q /\ e[i] = q[i]
                          \/ e[i] \in ToSet(p) /\ \A k \in DOMAIN q : k < i
  BY ConcatPlaces
<1>3. \A i, k \in DOMAIN e : i <= k => ~(k < i)
  <2>1. e \in Seq(Item)
    BY ConcatPlaces
  <2> HIDE DEF e
  <2> QED BY <2>1
<1> HIDE DEF e
<1>4. LeaveFirst(q) /\ NoneBy(p, "leave") => LeaveFirst(e)
  BY <1>2 DEF LeaveFirst, NoneBy
<1>5. FromPut(q, a) /\ AllName(p, a) => FromPut(e, a)
  BY <1>2, <1>3 DEF FromPut, AllName
<1> QED BY <1>1, <1>4, <1>5 DEF LeaveOn, AllName, e

LEMMA PutsTail ==
    ASSUME NEW q \in Seq(Item), q # <<>>, NEW a
    PROVE  /\ ToSet(q) = {Head(q)} \union ToSet(Tail(q))
           /\ LeaveOn(q) /\ ~PutBy(Head(q), "leave") => LeaveOn(Tail(q))
           /\ AllName(q, a) => AllName(Tail(q), a) /\ (IsPut(Head(q)) => Names(Head(q), a))
           /\ LeaveFirst(q) => LeaveFirst(Tail(q))
           /\ LeaveFirst(q) /\ PutBy(Head(q), "join") => ~LeaveOn(q)
           /\ FromPut(q, a) => FromPut(Tail(q), a)
           /\ FromPut(q, a) /\ PutBy(Head(q), "approve") => AllName(q, a)
<1> DEFINE e == Tail(q)
           h == Head(q)
<1>1. ToSet(q) = {h} \union ToSet(e)
  BY ToSetMore
<1>2. /\ 1 \in DOMAIN q /\ q[1] = h
      /\ \A i \in DOMAIN e : i + 1 \in DOMAIN q /\ e[i] = q[i + 1]
      /\ \A i, j \in DOMAIN e : /\ i + 1 < j + 1 <=> i < j
                                /\ i + 1 <= j + 1 <=> i <= j
  BY TailPlaces
<1>3. \A i \in DOMAIN q : i \in Int /\ 1 <= i /\ ~(i < 1)
  OBVIOUS
<1> HIDE DEF e, h
<1>4. LeaveFirst(q) => LeaveFirst(e)
  BY <1>2 DEF LeaveFirst
<1>5. LeaveFirst(q) /\ PutBy(h, "join") => ~LeaveOn(q)
  BY <1>2, <1>3 DEF LeaveFirst, LeaveOn, ToSet
<1>6. FromPut(q, a) => FromPut(e, a)
  BY <1>2 DEF FromPut
<1>7. FromPut(q, a) /\ PutBy(h, "approve") => AllName(q, a)
  BY <1>2, <1>3 DEF FromPut, AllName, ToSet
<1> QED BY <1>1, <1>4, <1>5, <1>6, <1>7 DEF LeaveOn, AllName, e, h

(* No put of a handler is on its way that has none under way. *)
LEMMA FreeNone == \A q, s : Free(s, q) => NoneBy(q, s)
BY DEF Free, NoneBy, PutBy, IsPut, Awaited, ToSet

LEMMA FreeFrom == \A q, a : NoneBy(q, "approve") => FromPut(q, a)
BY DEF NoneBy, FromPut, ToSet

(* What has arrived no longer matters: a record names the agent if it did  *)
(* in all that was on its way.                                             *)
LEMMA HearsTail ==
    ASSUME NEW q \in Seq(Item), q # <<>>, Head(q).do # "notify", NEW a,
           NEW w, NEW box \in Seq({"added", "removed"}), NEW sub, NEW open,
           NEW known, NEW more,
           HearsIn(q, w, box, sub, open, known, a),
           IF IsPut(Head(q)) THEN Names(Head(q), a) => more ELSE known => more
    PROVE  HearsIn(Tail(q), w, box, sub, open, more, a)
<1>1. HeardIn(q, box, sub, a) => HeardIn(Tail(q), box, sub, a)
  BY HeardTail
<1>2. RecordIn(q, w, known, a) => RecordIn(Tail(q), w, more, a)
  BY PutsTail DEF RecordIn
<1>3. LeaveFirst(q) => LeaveFirst(Tail(q))
  BY PutsTail
<1> QED BY <1>1, <1>2, <1>3 DEF HearsIn

(* What is issued keeps the agent's notices and names it in what is put;   *)
(* a handler that lets it in, or saves its approval, may end when that is  *)
(* done.                                                                   *)
LEMMA HearsMore ==
    ASSUME NEW q \in Seq(Item), NEW p \in Seq(Item), NEW a, AllName(p, a),
           NEW w, NEW v, Untold(p, a) \/ Letting(v, a), NEW box, NEW sub, NEW open,
           NEW known, NEW more,
           HearsIn(q, w, box, sub, open, known, a),
           Leaves(v, a) => Leaves(w, a) /\ NoneBy(p, "leave")
                           /\ (At(w, "join", "admit", a) => At(v, "join", "admit", a)),
           Letting(w, a) => Letting(v, a) \/ Notice(a, "added") \in ToSet(p),
           At(v, "approve", "save", a) => At(w, "approve", "save", a) \/ NoneBy(q, "approve"),
           Deciding(w, a) => Deciding(v, a) \/ (more /\ AllName(q, a)) \/ open,
           known => more
    PROVE  HearsIn(q \o p, v, box, sub, open, more, a)
<1>1. Untold(p, a) /\ HeardIn(q, box, sub, a) => HeardIn(q \o p, box, sub, a)
  BY HeardMore
<1>2. Untold(p, a) /\ Notice(a, "added") \in ToSet(p) => HeardIn(q \o p, box, sub, a)
  BY HeardMore
<1>3. RecordIn(q, w, known, a) /\ ~open => RecordIn(q \o p, v, more, a)
  <2>1. NoneBy(q, "approve") => FromPut(q, a)
    BY FreeFrom
  <2>2. FromPut(q, a) => FromPut(q \o p, a)
    BY PutsMore
  <2>3. AllName(q, a) => AllName(q \o p, a)
    BY PutsMore
  <2> QED BY <2>1, <2>2, <2>3 DEF RecordIn
<1>4. LeaveFirst(q) /\ NoneBy(p, "leave") => LeaveFirst(q \o p)
  BY PutsMore
<1> QED BY <1>1, <1>2, <1>3, <1>4 DEF HearsIn

LEMMA Few ==
    \A x, y \in Item : /\ <<x>> \in Seq(Item) /\ ToSet(<<x>>) = {x}
                       /\ <<x, y>> \in Seq(Item) /\ ToSet(<<x, y>>) = {x, y}
<1> TAKE x \in Item, y \in Item
<1>1. DOMAIN <<x, y>> = {1, 2} /\ DOMAIN <<x>> = {1}
  OBVIOUS
<1>2. ToSet(<<x>>) = {x}
  BY <1>1 DEF ToSet
<1>3. ToSet(<<x, y>>) = {x, y}
  <2>1. <<x, y>>[1] = x /\ <<x, y>>[2] = y
    OBVIOUS
  <2>2. \A z : z \in ToSet(<<x, y>>) <=> z = x \/ z = y
    BY <1>1, <2>1 DEF ToSet
  <2> QED BY <2>2
<1> QED BY <1>2, <1>3

(* A handler begins: whoever is in the list already is named by what it    *)
(* puts; it is for the caller to show who has just been enters in.            *)
LEMMA BeginHears ==
    ASSUME Typed, Hears, NEW s \in Subjects, NEW r, Begins(s, r),
           NEW stage \in {"save", "admit"}, Await(s, r, stage),
           NEW p \in Seq(Item), Issue(p),
           s = "leave" => LeaveOn(p), s # "leave" => NoneBy(p, "leave"),
           \A a : Untold(p, a), disputed \subseteq disputed',
           UNCHANGED <<cut, lost, saved, notices, subs, missed, isDefault>>,
           \A a \in ToSet(members') \ (missed \union disputed') :
              ~cut /\ ~lost =>
              /\ Once(members', a) /\ AllName(p, a)
              /\ \/ a \in ToSet(members) /\ ~(s = "leave" /\ r.agent = a)
                 \/ HearsIn(out \o p, work', notices[a], subs[a], isDefault, Known(a)', a)
    PROVE  Hears'
<1> SUFFICES ASSUME ~cut', ~lost'
             PROVE  /\ work'["leave"] # None => LeaveOn(out')
                    /\ \A a \in ToSet(members') \ (missed \union disputed') :
                          /\ Once(members', a)
                          /\ HearsIn(out', work', notices[a], subs[a], isDefault, Known(a)', a)
  BY DEF Hears
<1>1. out \in Seq(Item) /\ r \in Request /\ TypeOK /\ out' = out \o p /\ ~cut /\ ~lost
  BY ConsumeType DEF Begins, Typed, TypeOK, Issue
<1>2. /\ work'[s] # None /\ work'[s].stage = stage /\ work'[s].request = r
      /\ \A t \in Subjects \ {s} : work'[t] = work[t]
      /\ work[s] = None
  BY <1>1, AwaitType DEF Begins
<1>3. work'["leave"] # None => LeaveOn(out')
  <2>1. LeaveOn(out) \/ LeaveOn(p) => LeaveOn(out')
    BY <1>1, PutsMore
  <2> QED BY <1>1, <1>2, <2>1 DEF Hears, Subjects
<1>4. NoneBy(out, s)
  BY <1>1, <1>2, FreeOfIdle, FreeNone DEF Typed, Awaits
<1>5. ASSUME NEW a \in ToSet(members') \ (missed \union disputed')
      PROVE  HearsIn(out \o p, work', notices[a], subs[a], isDefault, Known(a)', a)
  <2> SUFFICES ASSUME a \in ToSet(members), ~(s = "leave" /\ r.agent = a)
               PROVE  HearsIn(out \o p, work', notices[a], subs[a], isDefault, Known(a)', a)
    BY <1>1, <1>5
  <2>1. HearsIn(out, work, notices[a], subs[a], isDefault, Known(a), a) /\ AllName(p, a) /\ Untold(p, a)
    BY <1>1, <1>5 DEF Hears
  <2>2. \A t \in Subjects : \A st : At(work, t, st, a) => At(work', t, st, a)
    BY <1>2 DEF At
  <2>3. Leaves(work', a) => Leaves(work, a) /\ NoneBy(p, "leave")
    BY <1>2 DEF Leaves, Subjects
  <2>4. Deciding(work, a) => Deciding(work', a)
    BY <1>2 DEF Deciding, Subjects
  <2>5. At(work', "approve", "save", a) =>
           At(work, "approve", "save", a) \/ NoneBy(out, "approve")
    BY <1>2, <1>4 DEF At, Subjects
  <2>6. Known(a) => Known(a)'
    BY <2>2 DEF Known, Stored, At, Subjects
  <2>7. Letting(work, a) => Letting(work', a)
    BY <2>2 DEF Letting, Subjects
  <2>8. At(work, "join", "admit", a) => At(work', "join", "admit", a)
    BY <2>2 DEF Subjects
  <2> QED BY <1>1, <2>1, <2>3, <2>4, <2>5, <2>6, <2>7, <2>8, HearsMore
<1> QED BY <1>1, <1>3, <1>5

LEMMA RefuseHears ==
    ASSUME Typed, Hears, NEW s \in Subjects, NEW r, NEW result \in Results, Begins(s, r),
           Refuse(s, r, result), UNCHANGED <<subs, missed>>
    PROVE  Hears'
<1> DEFINE y == Answer(r, result)
           p == <<y>>
<1>1. r \in Request /\ out \in Seq(Item)
  BY ConsumeType DEF Begins, Typed, TypeOK
<1>2. y \in Item /\ y.do = "answer"
  BY <1>1, ItemType
<1>3. p \in Seq(Item) /\ ToSet(p) = {y}
  BY <1>2, Few
<1>4. out' = out \o p /\ UNCHANGED <<members, work, saved, cut, lost, notices, disputed, isDefault>>
  BY DEF Refuse, group, store, agents, history, Issue
<1> HIDE DEF y, p
<1>5. \A a : Untold(p, a) /\ AllName(p, a) /\ NoneBy(p, "leave")
  BY <1>2, <1>3 DEF Untold, AllName, NoneBy, PutBy, IsPut, Notice
<1>6. \A a : Known(a)' <=> Known(a)
  BY <1>4 DEF Known, Stored, At
<1> SUFFICES ASSUME ~cut, ~lost
             PROVE  /\ work["leave"] # None => LeaveOn(out \o p)
                    /\ \A a \in ToSet(members) \ (missed \union disputed) :
                          /\ Once(members, a)
                          /\ HearsIn(out \o p, work, notices[a], subs[a], isDefault, Known(a), a)
  BY <1>4, <1>6 DEF Hears
<1>7. LeaveOn(out) => LeaveOn(out \o p)
  BY <1>1, <1>3, PutsMore
<1>8. ASSUME NEW a, HearsIn(out, work, notices[a], subs[a], isDefault, Known(a), a)
      PROVE  HearsIn(out \o p, work, notices[a], subs[a], isDefault, Known(a), a)
  <2>1. Leaves(work, a) => Leaves(work, a) /\ NoneBy(p, "leave")
                           /\ (At(work, "join", "admit", a) => At(work, "join", "admit", a))
    BY <1>5
  <2>2. Untold(p, a) /\ AllName(p, a)
    BY <1>5
  <2>3. /\ Letting(work, a) => Letting(work, a) \/ Notice(a, "added") \in ToSet(p)
        /\ At(work, "approve", "save", a) =>
              At(work, "approve", "save", a) \/ NoneBy(out, "approve")
        /\ Deciding(work, a) =>
              Deciding(work, a) \/ (Known(a) /\ AllName(out, a)) \/ isDefault
        /\ Known(a) => Known(a)
    OBVIOUS
  <2> QED BY <1>1, <1>3, <1>8, <2>1, <2>2, <2>3, HearsMore, Zenon
<1> QED BY <1>7, <1>8 DEF Hears

LEMMA HandleHears ==
    Typed /\ Hears /\ Handle /\ UNCHANGED client => Hears'
<1> SUFFICES ASSUME Typed, Hears, Handle, UNCHANGED client PROVE Hears'
  OBVIOUS
<1> PICK s \in Subjects : inbox[s] # <<>>
                          /\ LET r == Head(inbox[s]) IN
                             \/ HandleCreate(r) \/ HandleJoin(r) \/ HandleApprove(r)
                             \/ HandleLeave(r) \/ HandleAnnounce(r)
  BY DEF Handle
<1> DEFINE r == Head(inbox[s])
<1>r. \/ HandleCreate(r) \/ HandleJoin(r) \/ HandleApprove(r)
      \/ HandleLeave(r) \/ HandleAnnounce(r)
  OBVIOUS
<1> HIDE DEF r
<1>0. /\ members \in Seq(Agents) /\ pending \in [Agents -> Statuses] /\ TypeOK
      /\ out \in Seq(Item) /\ AwaitsIn(out, work)
  BY DEF Typed, TypeOK, Awaits
<1>t. \A t \in {"create", "join", "approve", "leave", "announce"} :
         /\ t \in Subjects
         /\ Begins(t, r) => r \in Request /\ r.agent \in Agents
  BY <1>0, ConsumeType DEF Begins, Request, Subjects
<1>u. UNCHANGED <<subs, missed>>
  BY DEF client
<1>m. \A t \in Subjects, m \in Seq(Agents), p \in [Agents -> Statuses] :
         LET x == PutGroup(t, m, p) IN
         /\ x \in Item /\ x.do = "put" /\ x.subject = t
         /\ \A a \in ToSet(m) : Names(x, a)
  BY ItemType DEF Names, Statuses, Texts
(* One put, by itself or with an answer, of a list the agent is in. *)
<1>p. \A t \in Subjects, m \in Seq(Agents), f \in [Agents -> Statuses], y \in Item :
         LET x == PutGroup(t, m, f) IN
         y.do = "answer" =>
         \A p \in {<<x>>, <<x, y>>} :
            /\ p \in Seq(Item) /\ \A a : Untold(p, a)
            /\ \A a \in ToSet(m) : AllName(p, a)
            /\ IF t = "leave" THEN LeaveOn(p) ELSE NoneBy(p, "leave")
  <2> SUFFICES ASSUME NEW t \in Subjects, NEW m \in Seq(Agents), NEW f \in [Agents -> Statuses],
                      NEW y \in Item, y.do = "answer",
                      NEW x, x = PutGroup(t, m, f), NEW p \in {<<x>>, <<x, y>>}
               PROVE  /\ p \in Seq(Item) /\ \A a : Untold(p, a)
                      /\ \A a \in ToSet(m) : AllName(p, a)
                      /\ IF t = "leave" THEN LeaveOn(p) ELSE NoneBy(p, "leave")
    OBVIOUS
  <2>1. x \in Item /\ x.do = "put" /\ x.subject = t /\ \A a \in ToSet(m) : Names(x, a)
    BY <1>m
  <2>2. p \in Seq(Item) /\ x \in ToSet(p) /\ ToSet(p) \subseteq {x, y}
    <3>1. /\ <<x>> \in Seq(Item) /\ ToSet(<<x>>) = {x}
          /\ <<x, y>> \in Seq(Item) /\ ToSet(<<x, y>>) = {x, y}
      BY <2>1, Few, Zenon
    <3>2. p = <<x>> \/ p = <<x, y>>
      OBVIOUS
    <3> QED BY <3>1, <3>2, Zenon
  <2> QED BY <2>1, <2>2 DEF Untold, Notice, AllName, IsPut, LeaveOn, NoneBy, PutBy
<1>y. \A q \in Request : /\ Answer(q, "rejected") \in Item /\ Answer(q, "rejected").do = "answer"
                         /\ q.agent \in Agents
  BY ItemType DEF Results, Request
<1>o. ~cut /\ ~lost => \A a \in ToSet(members) \ (missed \union disputed) : Once(members, a)
  BY DEF Hears
<1>1. CASE HandleCreate(r)
  <2>1. Begins("create", r)
    BY <1>1 DEF HandleCreate
  <2>2. CASE exists /\ Refuse("create", r, "exists")
    BY <1>t, <1>u, <2>1, <2>2, RefuseHears DEF Results
  <2>3. CASE /\ ~exists /\ members' = <<r.agent>>
             /\ UNCHANGED <<store, agents, history, isDefault>>
             /\ Issue(<<PutGroup("create", <<r.agent>>, pending)>>)
             /\ Await("create", r, "save")
    <3> DEFINE m == <<r.agent>>
               x == PutGroup("create", m, pending)
               p == <<x>>
    <3>1. /\ m \in Seq(Agents) /\ \A a : a \in ToSet(m) <=> a = r.agent
          /\ \A a : Once(m, a)
      BY <1>t, <2>1, ToSetOne DEF Once
    <3>2. /\ members' = m /\ Issue(p)
          /\ UNCHANGED <<cut, lost, saved, notices, subs, missed, isDefault, disputed>>
      BY <1>u, <2>3 DEF store, agents, history
    <3> HIDE DEF m
    <3>3. /\ p \in Seq(Item) /\ \A a : Untold(p, a)
          /\ \A a \in ToSet(m) : AllName(p, a)
          /\ NoneBy(p, "leave")
      BY <1>0, <1>t, <1>p, <1>y, <2>1, <3>1
    <3> HIDE DEF p
    <3>4. Idle /\ \A t \in Subjects : work[t] = None
      BY <2>3 DEF Typed, NotYet, Idle
    <3>5. \A a : AllName(out, a)
      BY <1>0, <3>4, HeadType DEF AwaitsIn, Fits, Awaited, AllName, IsPut, ToSet
    <3>6. /\ work'["create"] # None /\ work'["create"].stage = "save"
          /\ work'["create"].request = r /\ work'["leave"] = None
          /\ work'["approve"] = None
      BY <1>0, <1>t, <2>1, <2>3, <3>4, AwaitType DEF Subjects
    <3>7. ASSUME NEW a \in ToSet(members')
          PROVE  HearsIn(out \o p, work', notices[a], subs[a], isDefault, Known(a)', a)
      <4>1. r.agent = a
        BY <3>1, <3>2, <3>7
      <4>2. At(work', "create", "save", a) /\ Known(a)'
        BY <3>6, <4>1 DEF At, Known
      <4>3. AllName(out \o p, a)
        BY <1>0, <3>1, <3>2, <3>3, <3>5, <3>7, PutsMore
      <4> QED BY <3>6, <4>2, <4>3 DEF HearsIn, RecordIn, Leaves, Letting, At
    <3> QED BY <1>t, <2>1, <2>3, <3>1, <3>2, <3>3, <3>7, BeginHears
  <2> QED BY <1>1, <2>2, <2>3 DEF HandleCreate
<1>2. CASE HandleJoin(r)
  <2>1. Begins("join", r)
    BY <1>2 DEF HandleJoin
  <2>2. CASE ~exists /\ Refuse("join", r, "not_found")
    BY <1>t, <1>u, <2>1, <2>2, RefuseHears DEF Results
  <2>3. CASE exists /\ r.agent \in ToSet(members) /\ Refuse("join", r, "already_member")
    BY <1>t, <1>u, <2>1, <2>3, RefuseHears DEF Results
  <2>4. CASE /\ JoinDefault(r) \/ AskToJoin(r)
             /\ r.agent \notin ToSet(members)
             /\ UNCHANGED <<isDefault, store, agents, disputed, cut, lost>>
    <3>1. UNCHANGED <<cut, lost, saved, notices, subs, missed, isDefault, disputed>>
      BY <1>u, <2>4 DEF store, agents
    <3>2. CASE JoinDefault(r)
      <4> DEFINE m == Append(members, r.agent)
                 x == PutGroup("join", m, pending)
                 p == <<x>>
      <4>1. m \in Seq(Agents) /\ \A b : b \in ToSet(m) <=> b \in ToSet(members) \/ b = r.agent
        BY <1>0, <1>t, <2>1, ToSetAppend
      <4>2. members' = m /\ Issue(p) /\ Await("join", r, "admit") /\ isDefault
        BY <3>2 DEF JoinDefault
      <4>3. \A a : Once(members, a) => Once(m, a)
        BY <1>0, <1>t, <2>1, <2>4, AppendOnce
      <4> HIDE DEF m
      <4>4. /\ p \in Seq(Item) /\ \A a : Untold(p, a)
            /\ \A a \in ToSet(m) : AllName(p, a)
            /\ NoneBy(p, "leave")
        BY <1>0, <1>t, <1>p, <1>y, <2>1, <4>1
      <4> HIDE DEF p
      <4>5. work'["join"] # None /\ work'["join"].stage = "admit" /\ work'["join"].request = r
        BY <1>0, <1>t, <2>1, <4>2, AwaitType
      <4>6. ASSUME NEW a, a = r.agent
            PROVE  HearsIn(out \o p, work', notices[a], subs[a], isDefault, Known(a)', a)
        <5>1. NoneBy(out, "join")
          BY <1>0, <2>1, FreeOfIdle, FreeNone DEF Begins
        <5>2. LeaveFirst(out)
          BY <5>1 DEF LeaveFirst, NoneBy, ToSet
        <5>3. LeaveFirst(out \o p)
          BY <1>0, <4>4, <5>2, PutsMore
        <5>4. At(work', "join", "admit", a)
          BY <4>5, <4>6 DEF At
        <5> QED BY <4>2, <5>3, <5>4 DEF HearsIn, Letting
      <4>7. \A a \in ToSet(members') \ (missed \union disputed) :
               ~cut /\ ~lost => Once(members', a)
        BY <1>o, <2>4, <4>1, <4>2, <4>3, AbsentOnce
      <4> QED BY <1>t, <2>1, <3>1, <4>1, <4>2, <4>4, <4>6, <4>7, BeginHears
    <3>3. CASE AskToJoin(r)
      <4> DEFINE f == [pending EXCEPT ![r.agent] = "pending"]
                 x == PutGroup("join", members, f)
                 p == <<x>>
      <4>1. f \in [Agents -> Statuses]
        BY <1>0 DEF Statuses, Texts
      <4>2. members' = members /\ Issue(p) /\ Await("join", r, "save")
        BY <3>3 DEF AskToJoin
      <4> HIDE DEF f
      <4>3. /\ p \in Seq(Item) /\ \A a : Untold(p, a)
            /\ \A a \in ToSet(members) : AllName(p, a)
            /\ NoneBy(p, "leave")
        BY <1>0, <1>t, <1>p, <1>y, <2>1, <4>1
      <4> HIDE DEF p
      <4> QED BY <1>0, <1>t, <1>o, <2>1, <3>1, <4>2, <4>3, BeginHears
    <3> QED BY <2>4, <3>2, <3>3
  <2> QED BY <1>2, <2>2, <2>3, <2>4 DEF HandleJoin
<1>3. CASE HandleApprove(r)
  <2>1. Begins("approve", r)
    BY <1>3 DEF HandleApprove
  <2>2. CASE ~exists /\ Refuse("approve", r, "not_found")
    BY <1>t, <1>u, <2>1, <2>2, RefuseHears DEF Results
  <2>3. CASE exists /\ ~MayDecide(r.from) /\ Refuse("approve", r, "unauthorized")
    BY <1>t, <1>u, <2>1, <2>3, RefuseHears DEF Results
  <2>4. CASE /\ Approve(r) \/ Reject(r)
             /\ UNCHANGED <<isDefault, store, agents, cut, lost>>
    <3>1. UNCHANGED <<cut, lost, saved, notices, subs, missed, isDefault>>
      BY <1>u, <2>4 DEF store, agents
    <3>2. CASE Approve(r)
      <4> DEFINE m == Append(members, r.agent)
                 x == Get("approve")
                 y == Notice(r.agent, "added")
                 p == <<x, y>>
      <4>1. m \in Seq(Agents) /\ \A b : b \in ToSet(m) <=> b \in ToSet(members) \/ b = r.agent
        BY <1>0, <1>t, <2>1, ToSetAppend
      <4>2. /\ members' = m /\ Issue(p) /\ Await("approve", r, "admit")
            /\ disputed \subseteq disputed'
            /\ Leaving(r.agent) \/ r.agent \in ToSet(members) => r.agent \in disputed'
        BY <3>2 DEF Approve
      <4>3. \A a : Once(members, a) /\ (r.agent = a => a \notin ToSet(members)) => Once(m, a)
        BY <1>0, <1>t, <2>1, AppendOnce
      <4> HIDE DEF m
      <4>4. x \in Item /\ x.do = "get" /\ y \in Item /\ y.do = "notify" /\ y.action = "added"
        BY <1>t, <2>1, ItemType DEF Notice
      <4> HIDE DEF x, y
      <4>5. p \in Seq(Item) /\ ToSet(p) = {x, y}
        BY <4>4, Few
      <4> HIDE DEF p
      <4>6. /\ \A a : Untold(p, a) /\ AllName(p, a) /\ NoneBy(p, "leave")
        BY <4>4, <4>5 DEF Untold, AllName, NoneBy, PutBy, IsPut, Notice
      <4>7. /\ work'["approve"] # None /\ work'["approve"].stage = "admit"
            /\ work'["approve"].request = r /\ work'["leave"] = work["leave"]
        BY <1>0, <1>t, <2>1, <4>2, AwaitType DEF Subjects
      <4>8. ASSUME NEW a \in ToSet(members') \ (missed \union disputed'), a = r.agent
            PROVE  HearsIn(out \o p, work', notices[a], subs[a], isDefault, Known(a)', a)
        <5>1. ~Leaves(work', a)
          BY <4>2, <4>7, <4>8 DEF Leaving, Leaves
        <5>2. HeardIn(out \o p, notices[a], subs[a], a)
          BY <1>0, <4>5, <4>6, <4>8, HeardMore DEF y
        <5>3. Deciding(work', a) /\ ~At(work', "approve", "save", a)
          BY <4>7, <4>8 DEF Deciding, At
        <5> QED BY <5>1, <5>2, <5>3 DEF HearsIn, RecordIn
      <4>9. \A a \in ToSet(members') \ (missed \union disputed') :
               ~cut /\ ~lost => Once(members', a)
        BY <1>o, <4>1, <4>2, <4>3, AbsentOnce
      <4> QED BY <1>t, <2>1, <3>1, <4>1, <4>2, <4>5, <4>6, <4>8, <4>9, BeginHears
    <3>3. CASE Reject(r)
      <4> DEFINE f == [pending EXCEPT ![r.agent] = "rejected"]
                 x == PutGroup("approve", members, f)
                 y == Answer(r, "rejected")
                 p == <<x, y>>
      <4>1. f \in [Agents -> Statuses]
        BY <1>0 DEF Statuses, Texts
      <4>2. members' = members /\ Issue(p) /\ Await("approve", r, "save") /\ UNCHANGED disputed
        BY <3>3 DEF Reject
      <4> HIDE DEF f
      <4>3. y \in Item /\ y.do = "answer"
        BY <1>t, <1>y, <2>1
      <4> HIDE DEF y
      <4>4. /\ p \in Seq(Item) /\ \A a : Untold(p, a)
            /\ \A a \in ToSet(members) : AllName(p, a)
            /\ NoneBy(p, "leave")
        BY <1>0, <1>t, <1>p, <4>1, <4>3
      <4> HIDE DEF p
      <4> QED BY <1>0, <1>t, <1>o, <2>1, <3>1, <4>2, <4>4, BeginHears
    <3> QED BY <2>4, <3>2, <3>3
  <2> QED BY <1>3, <2>2, <2>3, <2>4 DEF HandleApprove
<1>4. CASE HandleLeave(r)
  <2>1. Begins("leave", r)
    BY <1>4 DEF HandleLeave
  <2>2. CASE ~exists /\ Refuse("leave", r, "not_found")
    BY <1>t, <1>u, <2>1, <2>2, RefuseHears DEF Results
  <2>3. CASE exists /\ r.agent \notin ToSet(members) /\ Refuse("leave", r, "not_member")
    BY <1>t, <1>u, <2>1, <2>3, RefuseHears DEF Results
  <2>4. CASE /\ exists /\ r.agent \in ToSet(members) /\ Forbidden(r)
             /\ Refuse("leave", r, "unauthorized")
    BY <1>t, <1>u, <2>1, <2>4, RefuseHears DEF Results
  <2>5. CASE /\ r.agent \in ToSet(members)
             /\ members' = RemoveFirst(members, r.agent)
             /\ pending' = [pending EXCEPT ![r.agent] = "none"]
             /\ Issue(<<PutGroup("leave", members', pending')>>)
             /\ Await("leave", r, "save")
             /\ UNCHANGED <<isDefault, store, agents, disputed, cut, lost>>
    <3> DEFINE m == members'
               f == pending'
               x == PutGroup("leave", m, f)
               p == <<x>>
    <3>1. /\ m \in Seq(Agents) /\ f \in [Agents -> Statuses] /\ ToSet(m) \subseteq ToSet(members)
      BY <1>0, <2>5, RemoveFirstKeeps, RemoveFirstOnly DEF Statuses, Texts
    <3>2. \A a : Once(members, a) => Once(m, a) /\ (a = r.agent => a \notin ToSet(m))
      BY <1>0, <2>5, RemoveOnce
    <3>3. Issue(p) /\ UNCHANGED <<cut, lost, saved, notices, subs, missed, isDefault, disputed>>
      BY <1>u, <2>5 DEF store, agents
    <3>4. /\ p \in Seq(Item) /\ \A a : Untold(p, a)
          /\ \A a \in ToSet(m) : AllName(p, a)
          /\ LeaveOn(p)
      BY <1>t, <1>p, <1>y, <2>1, <3>1
    <3> HIDE DEF p
    <3> QED BY <1>t, <1>o, <2>1, <2>5, <3>1, <3>2, <3>3, <3>4, BeginHears
  <2> QED BY <1>4, <2>2, <2>3, <2>4, <2>5 DEF HandleLeave
<1>5. CASE HandleAnnounce(r)
  <2>1. Begins("announce", r)
    BY <1>5 DEF HandleAnnounce
  <2>2. CASE ~exists /\ Refuse("announce", r, "not_found")
    BY <1>t, <1>u, <2>1, <2>2, RefuseHears DEF Results
  <2>3. CASE exists /\ r.from # Owner /\ Refuse("announce", r, "unauthorized")
    BY <1>t, <1>u, <2>1, <2>3, RefuseHears DEF Results
  <2>4. CASE /\ Issue(<<PutAnnouncement>>) /\ Await("announce", r, "save")
             /\ UNCHANGED <<group, store, agents, history>>
    <3> DEFINE x == PutAnnouncement
               p == <<x>>
    <3>1. x \in Item /\ x.do = "announce"
      BY ItemType
    <3>2. /\ Issue(p) /\ UNCHANGED members
          /\ UNCHANGED <<cut, lost, saved, notices, subs, missed, isDefault, disputed>>
      BY <1>u, <2>4 DEF group, store, agents, history
    <3> HIDE DEF x
    <3>3. p \in Seq(Item) /\ ToSet(p) = {x}
      BY <3>1, Few
    <3> HIDE DEF p
    <3>4. \A a : Untold(p, a) /\ AllName(p, a) /\ NoneBy(p, "leave")
      BY <3>1, <3>3 DEF Untold, AllName, NoneBy, PutBy, IsPut, Notice
    <3> QED BY <1>0, <1>t, <1>o, <2>1, <2>4, <3>2, <3>3, <3>4, BeginHears
  <2> QED BY <1>5, <2>2, <2>3, <2>4 DEF HandleAnnounce
<1> QED BY <1>r, <1>1, <1>2, <1>3, <1>4, <1>5

(* Nothing that is issued after an answer takes an agent out. *)
LEMMA AfterItems ==
    ASSUME Typed, NEW r \in Request
    PROVE  /\ \A result \in Results : LET p == <<Answer(r, result)>> IN
                 p \in Seq(Item) /\ \A a : Untold(p, a) /\ AllName(p, a) /\ NoneBy(p, "leave")
           /\ \A result \in Results : LET p == <<Notice(r.agent, "added"), Answer(r, result)>> IN
                 /\ p \in Seq(Item) /\ Notice(r.agent, "added") \in ToSet(p)
                 /\ \A a : Untold(p, a) /\ AllName(p, a) /\ NoneBy(p, "leave")
           /\ \A s \in Subjects : LET p == <<Get(s), Notice(r.agent, "added")>> IN
                 /\ p \in Seq(Item) /\ Notice(r.agent, "added") \in ToSet(p)
                 /\ \A a : Untold(p, a) /\ AllName(p, a) /\ NoneBy(p, "leave")
           /\ \A result \in Results : LET p == <<Notice(r.agent, "removed"), Answer(r, result)>> IN
                 /\ p \in Seq(Item)
                 /\ \A a : (a # r.agent => Untold(p, a)) /\ AllName(p, a) /\ NoneBy(p, "leave")
           /\ <<>> \in Seq(Item)
           /\ \A a : Untold(<<>>, a) /\ AllName(<<>>, a) /\ NoneBy(<<>>, "leave")
<1>1. r.agent \in Agents
  BY DEF Request
<1> DEFINE Silent(y, a) == y # Notice(a, "removed") /\ ~IsPut(y)
<1>2. /\ \A result \in Results : Answer(r, result) \in Item /\ \A a : Silent(Answer(r, result), a)
      /\ \A s \in Subjects : Get(s) \in Item /\ \A a : Silent(Get(s), a)
      /\ Notice(r.agent, "added") \in Item /\ \A a : Silent(Notice(r.agent, "added"), a)
      /\ Notice(r.agent, "removed") \in Item
      /\ \A a : ~IsPut(Notice(r.agent, "removed"))
                /\ (a # r.agent => Silent(Notice(r.agent, "removed"), a))
  BY <1>1, ItemType DEF Notice, IsPut
<1> HIDE DEF Silent
<1>3. \A q, a : (\A y \in ToSet(q) : Silent(y, a)) =>
                   Untold(q, a) /\ AllName(q, a) /\ NoneBy(q, "leave")
  BY DEF Silent, Untold, AllName, NoneBy, PutBy
<1>4. \A q : (\A y \in ToSet(q) : ~IsPut(y)) => (\A a : AllName(q, a)) /\ NoneBy(q, "leave")
  BY DEF AllName, NoneBy, PutBy
<1>5. ASSUME NEW result \in Results
      PROVE  LET p == <<Answer(r, result)>> IN
             p \in Seq(Item) /\ \A a : Untold(p, a) /\ AllName(p, a) /\ NoneBy(p, "leave")
  <2> DEFINE p == <<Answer(r, result)>>
  <2>1. p \in Seq(Item) /\ ToSet(p) = {Answer(r, result)}
    BY <1>2, Few, Zenon
  <2> HIDE DEF p
  <2>2. p \in Seq(Item) /\ \A a : Untold(p, a) /\ AllName(p, a) /\ NoneBy(p, "leave")
    BY <1>2, <1>3, <2>1
  <2> QED BY <2>2 DEF p
<1>6. ASSUME NEW x \in Item, NEW y \in Item
      PROVE  <<x, y>> \in Seq(Item) /\ ToSet(<<x, y>>) = {x, y}
  BY Few, Zenon
<1>7. ASSUME NEW result \in Results
      PROVE  LET p == <<Notice(r.agent, "added"), Answer(r, result)>> IN
             /\ p \in Seq(Item) /\ Notice(r.agent, "added") \in ToSet(p)
             /\ \A a : Untold(p, a) /\ AllName(p, a) /\ NoneBy(p, "leave")
  <2> DEFINE p == <<Notice(r.agent, "added"), Answer(r, result)>>
  <2>1. p \in Seq(Item) /\ ToSet(p) = {Notice(r.agent, "added"), Answer(r, result)}
    BY <1>2, <1>6, Zenon
  <2> HIDE DEF p
  <2>2. /\ p \in Seq(Item) /\ Notice(r.agent, "added") \in ToSet(p)
        /\ \A a : Untold(p, a) /\ AllName(p, a) /\ NoneBy(p, "leave")
    BY <1>2, <1>3, <2>1
  <2> QED BY <2>2 DEF p
<1>8. ASSUME NEW s \in Subjects
      PROVE  LET p == <<Get(s), Notice(r.agent, "added")>> IN
             /\ p \in Seq(Item) /\ Notice(r.agent, "added") \in ToSet(p)
             /\ \A a : Untold(p, a) /\ AllName(p, a) /\ NoneBy(p, "leave")
  <2> DEFINE p == <<Get(s), Notice(r.agent, "added")>>
  <2>1. p \in Seq(Item) /\ ToSet(p) = {Get(s), Notice(r.agent, "added")}
    BY <1>2, <1>6, Zenon
  <2> HIDE DEF p
  <2>2. /\ p \in Seq(Item) /\ Notice(r.agent, "added") \in ToSet(p)
        /\ \A a : Untold(p, a) /\ AllName(p, a) /\ NoneBy(p, "leave")
    BY <1>2, <1>3, <2>1
  <2> QED BY <2>2 DEF p
<1>9. ASSUME NEW result \in Results
      PROVE  LET p == <<Notice(r.agent, "removed"), Answer(r, result)>> IN
             /\ p \in Seq(Item)
             /\ \A a : (a # r.agent => Untold(p, a)) /\ AllName(p, a) /\ NoneBy(p, "leave")
  <2> DEFINE p == <<Notice(r.agent, "removed"), Answer(r, result)>>
  <2>1. p \in Seq(Item) /\ ToSet(p) = {Notice(r.agent, "removed"), Answer(r, result)}
    BY <1>2, <1>6, Zenon
  <2> HIDE DEF p
  <2>2. \A y \in ToSet(p) : ~IsPut(y)
    BY <1>2, <2>1 DEF Silent
  <2>3. \A a : a # r.agent => Untold(p, a)
    BY <1>2, <1>3, <2>1
  <2>4. /\ p \in Seq(Item)
        /\ \A a : (a # r.agent => Untold(p, a)) /\ AllName(p, a) /\ NoneBy(p, "leave")
    BY <1>4, <2>1, <2>2, <2>3
  <2> QED BY <2>4 DEF p
<1>10. <<>> \in Seq(Item) /\ \A a : Untold(<<>>, a) /\ AllName(<<>>, a) /\ NoneBy(<<>>, "leave")
  BY DEF Untold, AllName, NoneBy, ToSet
<1> QED BY <1>5, <1>7, <1>8, <1>9, <1>10

(* Something other than a notice arrives, and what comes next is issued:   *)
(* it is for the caller to show what becomes of the handlers.              *)
LEMMA StepHears ==
    ASSUME Typed, Hears, out # <<>>, Head(out).do # "notify", NEW p \in Seq(Item),
           out' = Tail(out) \o p,
           UNCHANGED <<members, isDefault, cut, lost, missed, disputed, subs, notices>>,
           work'["leave"] # None => work["leave"] # None /\ ~PutBy(Head(out), "leave"),
           \A a \in ToSet(members) :
              HearsIn(out, work, notices[a], subs[a], isDefault, Known(a), a)
              /\ (work["leave"] # None => LeaveOn(out)) =>
                 /\ AllName(p, a) /\ (Untold(p, a) \/ Letting(work', a))
                 /\ Leaves(work', a) => Leaves(work, a) /\ NoneBy(p, "leave")
                                        /\ At(work', "join", "admit", a)
                 /\ Letting(work, a) => Letting(work', a) \/ Notice(a, "added") \in ToSet(p)
                 /\ At(work', "approve", "save", a) =>
                       At(work, "approve", "save", a) \/ NoneBy(Tail(out), "approve")
                 /\ \/ Deciding(work, a) => Deciding(work', a)
                    \/ IsPut(Head(out)) /\ AllName(out, a)
                    \/ isDefault
                 /\ IF IsPut(Head(out)) THEN Names(Head(out), a) => Known(a)'
                                        ELSE Known(a) => Known(a)'
    PROVE  Hears'
<1> SUFFICES ASSUME ~cut, ~lost
             PROVE  /\ work'["leave"] # None => LeaveOn(out')
                    /\ \A a \in ToSet(members) \ (missed \union disputed) :
                          /\ Once(members, a)
                          /\ HearsIn(Tail(out) \o p, work', notices[a], subs[a],
                                     isDefault, Known(a)', a)
  BY DEF Hears
<1>1. out \in Seq(Item) /\ Tail(out) \in Seq(Item)
  BY HeadTailProperties DEF Typed, TypeOK
<1>2. work["leave"] # None => LeaveOn(out)
  BY DEF Hears
<1>3. work'["leave"] # None => LeaveOn(out')
  <2>1. LeaveOn(out) /\ ~PutBy(Head(out), "leave") => LeaveOn(Tail(out))
    BY <1>1, PutsTail
  <2>2. LeaveOn(Tail(out)) => LeaveOn(out')
    BY <1>1, PutsMore
  <2> QED BY <1>2, <2>1, <2>2
<1>4. ASSUME NEW a \in ToSet(members) \ (missed \union disputed)
      PROVE  HearsIn(Tail(out) \o p, work', notices[a], subs[a], isDefault, Known(a)', a)
  <2>1. HearsIn(out, work, notices[a], subs[a], isDefault, Known(a), a)
    BY <1>4 DEF Hears
  <2>2. notices[a] \in Seq({"added", "removed"})
    <3>1. a \in Agents
      BY <1>4 DEF Typed, TypeOK, Record, GroupRecord, ToSet
    <3> QED BY <3>1 DEF Typed, TypeOK
  <2>3. HearsIn(Tail(out), work, notices[a], subs[a], isDefault, Known(a)', a)
    BY <1>1, <1>2, <1>4, <2>1, <2>2, HearsTail
  <2>4. IsPut(Head(out)) /\ AllName(out, a) => Known(a)' /\ AllName(Tail(out), a)
    BY <1>1, <1>2, <1>4, <2>1, PutsTail
  <2> DEFINE known == Known(a)'
  <2>5. HearsIn(Tail(out), work, notices[a], subs[a], isDefault, known, a)
    BY <2>3
  <2>6. /\ AllName(p, a) /\ (Untold(p, a) \/ Letting(work', a))
        /\ Leaves(work', a) => Leaves(work, a) /\ NoneBy(p, "leave")
                               /\ At(work', "join", "admit", a)
        /\ Letting(work, a) => Letting(work', a) \/ Notice(a, "added") \in ToSet(p)
        /\ At(work', "approve", "save", a) =>
              At(work, "approve", "save", a) \/ NoneBy(Tail(out), "approve")
        /\ Deciding(work, a) =>
              Deciding(work', a) \/ (known /\ AllName(Tail(out), a)) \/ isDefault
    BY <1>2, <1>4, <2>1, <2>4
  <2> HIDE DEF known
  <2>7. HearsIn(Tail(out) \o p, work', notices[a], subs[a], isDefault, known, a)
    <3>1. known => known
      OBVIOUS
    <3>2. Leaves(work', a) => Leaves(work, a) /\ NoneBy(p, "leave")
                      /\ (At(work, "join", "admit", a) => At(work', "join", "admit", a))
      BY <2>6
    <3> QED BY <1>1, <2>5, <2>6, <3>1, <3>2, HearsMore, Zenon
  <2> QED BY <2>7 DEF known
<1> QED BY <1>3, <1>4 DEF Hears

LEMMA PutHears == Typed /\ Hears /\ PutLands /\ UNCHANGED client => Hears'
<1> SUFFICES ASSUME Typed, Hears, PutLands, UNCHANGED client PROVE Hears'
  OBVIOUS
<1> DEFINE h == Head(out)
           q == Tail(out)
           s == Head(out).subject
           r == work[s].request
<1>1. First("put") /\ AfterPut(s) /\ saved' = h.rec
  BY DEF PutLands
<1>2. /\ h.do = "put" /\ h.rec \in GroupRecord /\ out # <<>> /\ q \in Seq(Item)
      /\ s \in Subjects /\ work[s] # None /\ r \in Request
      /\ Fits(h, work) /\ Free(s, q) /\ TypeOK
  BY <1>1, FirstOut, HeadType DEF First, Typed
<1>3. UNCHANGED <<members, isDefault, cut, lost, missed, disputed, subs, notices>>
  BY DEF PutLands, group, agents, history, client
<1>4. IsPut(h) /\ h.do # "notify" /\ \A a : Names(h, a) => Known(a)'
  <2>1. saved' # None
    BY <1>1, <1>2, ManagerAssumption
  <2> QED BY <1>1, <1>2, <2>1 DEF IsPut, Names, Known, Stored
<1>5. \A t : PutBy(h, t) <=> s = t
  BY <1>4 DEF PutBy
<1>6. \A a : /\ LeaveFirst(out) /\ s = "join" => ~LeaveOn(out)
             /\ FromPut(out, a) /\ s = "approve" => AllName(out, a)
  <2>1. out \in Seq(Item)
    BY DEF Typed, TypeOK
  <2> QED BY <1>2, <1>5, <2>1, PutsTail
<1> DEFINE Goal(p) ==
             /\ p \in Seq(Item) /\ out' = q \o p
             /\ work'["leave"] # None => work["leave"] # None /\ s # "leave"
             /\ \A a \in ToSet(members) :
                   HearsIn(out, work, notices[a], subs[a], isDefault, Known(a), a)
                   /\ (work["leave"] # None => LeaveOn(out)) =>
                      /\ AllName(p, a) /\ (Untold(p, a) \/ Letting(work', a))
                      /\ Leaves(work', a) => Leaves(work, a) /\ NoneBy(p, "leave")
                                             /\ At(work', "join", "admit", a)
                      /\ Letting(work, a) => Letting(work', a) \/ Notice(a, "added") \in ToSet(p)
                      /\ At(work', "approve", "save", a) =>
                            At(work, "approve", "save", a) \/ NoneBy(q, "approve")
                      /\ \/ Deciding(work, a) => Deciding(work', a)
                         \/ AllName(out, a)
                         \/ isDefault
<1>g. ASSUME NEW p, Goal(p) PROVE Hears'
  BY <1>2, <1>3, <1>4, <1>5, <1>g, StepHears
<1> DEFINE made == <<Notice(r.agent, "added"), Answer(r, "created")>>
           waits == <<Answer(r, "pending")>>
           enters == <<Get(s), Notice(r.agent, "added")>>
           goes == <<Notice(r.agent, "removed"), Answer(r, "left")>>
<1>7. \/ s = "create" /\ Ends(s) /\ out' = q \o made
      \/ s = "join" /\ work[s].stage = "save" /\ Ends(s) /\ out' = q \o waits
      \/ s = "join" /\ work[s].stage = "admit" /\ Await(s, r, "get") /\ out' = q \o enters
      \/ s = "approve" /\ Ends(s) /\ out' = q
      \/ s = "leave" /\ Ends(s) /\ out' = q \o goes
  <2>1. \A items : Goes(items) <=> out' = q \o items
    BY DEF Goes
  <2> HIDE DEF q
  <2> QED BY <1>1, <2>1, Zenon DEF AfterPut, q
<1>8. /\ made \in Seq(Item) /\ Notice(r.agent, "added") \in ToSet(made)
      /\ \A a : Untold(made, a) /\ AllName(made, a) /\ NoneBy(made, "leave")
      /\ waits \in Seq(Item)
      /\ \A a : Untold(waits, a) /\ AllName(waits, a) /\ NoneBy(waits, "leave")
      /\ enters \in Seq(Item) /\ Notice(r.agent, "added") \in ToSet(enters)
      /\ \A a : Untold(enters, a) /\ AllName(enters, a) /\ NoneBy(enters, "leave")
      /\ goes \in Seq(Item)
      /\ \A a : (a # r.agent => Untold(goes, a)) /\ AllName(goes, a) /\ NoneBy(goes, "leave")
      /\ <<>> \in Seq(Item)
      /\ \A a : Untold(<<>>, a) /\ AllName(<<>>, a) /\ NoneBy(<<>>, "leave")
  <2>1. "created" \in Results /\ "pending" \in Results /\ "left" \in Results
    BY DEF Results
  <2> QED BY <1>2, <2>1, AfterItems, Zenon
<1>9. q \o <<>> = q
  BY <1>2
<1> HIDE DEF made, waits, enters, goes, q, h, Goal
<1>10. Ends(s) => work'[s] = None /\ \A t \in Subjects \ {s} : work'[t] = work[t]
  BY <1>2, EndsType
<1>11. Await(s, r, "get") => /\ work'[s] # None /\ work'[s].stage = "get"
                             /\ \A t \in Subjects \ {s} : work'[t] = work[t]
  BY <1>2, AwaitType
<1> HIDE DEF r, s
<1> USE DEF Subjects
<1>12. CASE s = "create" /\ Ends(s) /\ out' = q \o made
  <2>1. Goal(made)
    BY <1>8, <1>10, <1>12 DEF Goal, HearsIn, Leaves, Letting, At, Deciding, r
  <2> QED BY <1>g, <2>1
<1>13. CASE s = "join" /\ work[s].stage = "save" /\ Ends(s) /\ out' = q \o waits
  <2>1. Goal(waits)
    BY <1>8, <1>10, <1>13 DEF Goal, HearsIn, Leaves, Letting, At, Deciding
  <2> QED BY <1>g, <2>1
<1>14. CASE s = "join" /\ work[s].stage = "admit" /\ Await(s, r, "get") /\ out' = q \o enters
  <2>1. Goal(enters)
    BY <1>6, <1>8, <1>11, <1>14 DEF Goal, HearsIn, Leaves, Letting, At, Deciding, r
  <2> QED BY <1>g, <2>1
<1>15. CASE s = "approve" /\ Ends(s) /\ out' = q
  <2>1. work["approve"].stage = "save"
    BY <1>2, <1>15 DEF Fits, h, s, IsPut
  <2>2. Goal(<<>>)
    BY <1>6, <1>8, <1>9, <1>10, <1>15, <2>1
       DEF Goal, HearsIn, RecordIn, Leaves, Letting, At, Deciding
  <2> QED BY <1>g, <2>2
<1>16. CASE s = "leave" /\ Ends(s) /\ out' = q \o goes
  <2>1. /\ work'["leave"] = None
        /\ work'["join"] = work["join"] /\ work'["approve"] = work["approve"]
        /\ work'["create"] = work["create"]
    BY <1>10, <1>16
  <2>2. \A a : Leaves(work, a) <=> a = r.agent
    BY <1>2, <1>16 DEF Leaves, r
  <2>3. \A a : HearsIn(out, work, notices[a], subs[a], isDefault, Known(a), a) =>
               Untold(goes, a) \/ Letting(work', a)
    BY <1>8, <2>1, <2>2 DEF HearsIn, Letting, At
  <2>4. \A a : Letting(work, a) => Letting(work', a)
    BY <2>1 DEF Letting, At
  <2>5. Goal(goes)
    BY <1>8, <1>16, <2>1, <2>3, <2>4 DEF Goal, Leaves, At, Deciding
  <2> QED BY <1>g, <2>5
<1> QED BY <1>7, <1>12, <1>13, <1>14, <1>15, <1>16

(* Announcements and the answer after them change nothing for the agent. *)
LEMMA PushedItems ==
    ASSUME NEW p \in Seq(Item), Pushes(p), NEW r \in Request, NEW result \in Results
    PROVE  LET e == p \o <<Answer(r, result)>> IN
           e \in Seq(Item) /\ \A y \in ToSet(e) : y.do \in {"push", "answer"}
<1> DEFINE z == Answer(r, result)
           t == <<z>>
<1>1. z \in Item /\ z.do = "answer"
  BY ItemType
<1> HIDE DEF z
<1>2. t \in Seq(Item) /\ ToSet(t) = {z}
  BY <1>1, Few, Zenon
<1> HIDE DEF t
<1>3. p \o t \in Seq(Item) /\ ToSet(p \o t) = ToSet(p) \union ToSet(t)
  BY <1>2, ToSetMore, ConcatProperties
<1>4. \A y \in ToSet(p) : y.do = "push"
  BY DEF Pushes, ToSet
<1>5. p \o t \in Seq(Item) /\ \A y \in ToSet(p \o t) : y.do \in {"push", "answer"}
  BY <1>1, <1>2, <1>3, <1>4
<1> QED BY <1>5 DEF t, z

LEMMA SilentItems ==
    ASSUME NEW p, \A y \in ToSet(p) : y.do \in {"push", "answer"}, NEW a
    PROVE  Untold(p, a) /\ AllName(p, a) /\ NoneBy(p, "leave")
BY DEF Untold, AllName, NoneBy, PutBy, IsPut, Notice

LEMMA GetHears == Typed /\ Hears /\ GetAnswered /\ UNCHANGED client => Hears'
<1> SUFFICES ASSUME Typed, Hears, GetAnswered, UNCHANGED client PROVE Hears'
  OBVIOUS
<1> DEFINE h == Head(out)
           q == Tail(out)
           s == Head(out).subject
           r == work[s].request
           f == Pushed(r.agent)
<1>1. First("get") /\ AfterGet(s)
  BY DEF GetAnswered
<1>2. /\ h.do = "get" /\ out # <<>> /\ q \in Seq(Item)
      /\ s \in Subjects /\ work[s] # None /\ r \in Request /\ r.agent \in Agents
      /\ Fits(h, work) /\ Free(s, q) /\ TypeOK
  BY <1>1, FirstOut DEF First, Typed
<1>3. UNCHANGED <<members, isDefault, cut, lost, missed, disputed, subs, notices, saved>>
  BY DEF GetAnswered, group, store, agents, history, client
<1>4. ~IsPut(h) /\ h.do # "notify" /\ \A t : ~PutBy(h, t)
  BY <1>2 DEF IsPut, PutBy
<1>5. members \in Seq(Agents) /\ pending \in [Agents -> Statuses]
  BY <1>2 DEF TypeOK
<1>6. f \in Seq(Item) /\ Pushes(f)
  BY <1>2, PushedType
<1>7. "joined" \in Results /\ "approved" \in Results
  BY DEF Results
<1>8. s = "join" => work[s].stage = "get"
  BY <1>2 DEF Fits
<1> HIDE DEF f
<1>9. CASE s = "join" /\ Ends(s) /\ Goes(f \o <<Answer(r, "joined")>>)
  <2> DEFINE p == f \o <<Answer(r, "joined")>>
  <2>1. p \in Seq(Item) /\ \A y \in ToSet(p) : y.do \in {"push", "answer"}
    BY <1>2, <1>6, <1>7, PushedItems
  <2>2. out' = q \o p
    BY <1>9 DEF Goes
  <2>3. /\ work'["join"] = None /\ work'["leave"] = work["leave"]
        /\ work'["approve"] = work["approve"] /\ work'["create"] = work["create"]
    BY <1>2, <1>9, EndsType DEF Subjects
  <2>4. \A a : ~At(work, "join", "admit", a) /\ (Known(a) => Known(a)')
    BY <1>3, <1>8, <1>9, <2>3 DEF At, Known, Stored
  <2> HIDE DEF p, q, h, s, r
  <2>5. \A a : Untold(p, a) /\ AllName(p, a)
    BY <2>1, SilentItems
  <2> QED BY <1>2, <1>3, <1>4, <2>1, <2>2, <2>3, <2>4, <2>5, StepHears
          DEF HearsIn, Leaves, Letting, At, Deciding, q, h
<1>10. CASE s = "approve" /\ Await(s, r, "save")
            /\ Goes((<<PutGroup(s, members, pending)>> \o f) \o <<Answer(r, "approved")>>)
  <2> DEFINE x == PutGroup(s, members, pending)
             t == <<x>>
             e == f \o <<Answer(r, "approved")>>
             p == t \o e
  <2>1. x \in Item /\ x.do = "put" /\ x.subject = s /\ \A a \in ToSet(members) : Names(x, a)
    BY <1>2, <1>5, ItemType DEF Names, Statuses, Texts
  <2>2. e \in Seq(Item) /\ \A y \in ToSet(e) : y.do \in {"push", "answer"}
    BY <1>2, <1>6, <1>7, PushedItems
  <2>3. out' = q \o p
    <3>1. (t \o f) \o <<Answer(r, "approved")>> = p
      <4>1. t \in Seq(Item) /\ <<Answer(r, "approved")>> \in Seq(Item)
        BY <1>2, <1>7, <2>1, ItemType
      <4> QED BY <1>6, <4>1, ConcatAssociative
    <3> QED BY <1>10, <3>1 DEF Goes
  <2> HIDE DEF x
  <2>4. t \in Seq(Item) /\ ToSet(t) = {x}
    BY <2>1, Few, Zenon
  <2> HIDE DEF t, e
  <2>5. p \in Seq(Item) /\ ToSet(p) = {x} \union ToSet(e)
    BY <2>2, <2>4, ToSetMore, ConcatProperties
  <2>6. /\ work'["approve"] # None /\ work'["approve"].request = r
        /\ work'["join"] = work["join"] /\ work'["leave"] = work["leave"]
        /\ work'["create"] = work["create"]
    BY <1>2, <1>10, AwaitType DEF Subjects
  <2>7. \A a : Deciding(work, a) => Deciding(work', a)
    BY <1>10, <2>6 DEF Deciding
  <2>8. \A a : Known(a) => Known(a)'
    BY <1>3, <2>6 DEF At, Known, Stored
  <2>9. NoneBy(q, "approve")
    BY <1>2, <1>10, FreeNone
  <2>10. NoneBy(p, "leave")
    BY <1>10, <2>1, <2>2, <2>5 DEF NoneBy, PutBy, IsPut
  <2> HIDE DEF p, q, h, s, r
  <2>11. \A a \in ToSet(members) : Untold(p, a) /\ AllName(p, a)
    BY <2>1, <2>2, <2>5 DEF Untold, AllName, IsPut, Notice
  <2> QED BY <1>2, <1>3, <1>4, <2>3, <2>5, <2>6, <2>7, <2>8, <2>9, <2>10, <2>11, StepHears
          DEF HearsIn, Leaves, Letting, At, q, h
<1> QED BY <1>1, <1>9, <1>10, Zenon DEF AfterGet, f

(* An announcement is stored or not, a push or an answer arrives. *)
LEMMA OtherHears ==
    /\ Typed /\ Hears /\ UNCHANGED client
    /\ AnnouncementLands \/ AnnouncementFails \/ PushArrives \/ AnswerArrives
    => Hears'
<1> SUFFICES ASSUME Typed, Hears, UNCHANGED client,
                    AnnouncementLands \/ AnnouncementFails \/ PushArrives \/ AnswerArrives
             PROVE  Hears'
  OBVIOUS
<1> DEFINE h == Head(out)
           q == Tail(out)
<1>1. /\ h.do \in {"announce", "push", "answer"} /\ out # <<>>
      /\ UNCHANGED <<members, isDefault, cut, lost, missed, disputed, subs, notices, saved>>
  BY DEF AnnouncementLands, AnnouncementFails, PushArrives, AnswerArrives, First,
         group, store, agents, history, client
<1>2. ~IsPut(h) /\ h.do # "notify" /\ \A t : ~PutBy(h, t)
  BY <1>1 DEF IsPut, PutBy
<1>3. \E p : /\ p \in Seq(Item) /\ out' = q \o p
             /\ \A y \in ToSet(p) : y.do \in {"push", "answer"}
  <2>1. CASE AnnouncementLands
    <3> DEFINE r == work["announce"].request
               f == ToAll(members)
    <3>1. f \in Seq(Item) /\ Pushes(f) /\ r \in Request
      BY <2>1, AfterAnnouncementForm DEF AnnouncementLands
    <3>2. out' = q \o (f \o <<Answer(r, "set")>>)
      BY <2>1, Zenon DEF AnnouncementLands, AfterAnnouncement, Goes, ToAll
    <3> HIDE DEF f, r
    <3> QED BY <3>1, <3>2, PushedItems DEF Results
  <2>2. CASE AnnouncementFails \/ PushArrives \/ AnswerArrives
    <3>1. out' = q /\ q \in Seq(Item)
      BY <1>1, <2>2, HeadTailProperties
         DEF AnnouncementFails, PushArrives, AnswerArrives, Typed, TypeOK
    <3>2. q \o <<>> = q /\ <<>> \in Seq(Item) /\ ToSet(<<>>) = {}
      BY <3>1 DEF ToSet
    <3> QED BY <3>1, <3>2
  <2> QED BY <2>1, <2>2
<1>4. \A t \in {"create", "join", "approve", "leave"} : work'[t] = work[t]
  <2>1. Ends("announce") \/ UNCHANGED work
    BY DEF AnnouncementLands, AfterAnnouncement, AnnouncementFails, PushArrives, AnswerArrives
  <2> QED BY <2>1, EndsType DEF Subjects, Typed
<1>5. \A a : Known(a) => Known(a)'
  BY <1>1, <1>4 DEF Known, Stored, At
<1> PICK p \in Seq(Item) : out' = q \o p /\ \A y \in ToSet(p) : y.do \in {"push", "answer"}
  BY <1>3
<1>6. \A a : Untold(p, a) /\ AllName(p, a) /\ NoneBy(p, "leave")
  BY SilentItems
<1> HIDE DEF h, q
<1> QED BY <1>1, <1>2, <1>4, <1>5, <1>6, StepHears
        DEF HearsIn, Leaves, Letting, At, Deciding, h, q

(* A notice reaches the client it is for. *)
LEMMA NoticeHears == Typed /\ Hears /\ NoticeLeaves /\ UNCHANGED client => Hears'
<1> SUFFICES ASSUME Typed, Hears, NoticeLeaves, UNCHANGED client PROVE Hears'
  OBVIOUS
<1> DEFINE h == Head(out)
           q == Tail(out)
<1>1. /\ h.do = "notify" /\ out # <<>> /\ out' = q
      /\ notices' = [notices EXCEPT ![h.to] = Append(@, h.action)]
      /\ UNCHANGED <<members, isDefault, cut, lost, missed, disputed, subs, work, saved>>
  BY DEF NoticeLeaves, First, group, store, history, client
<1>2. /\ out \in Seq(Item) /\ h \in Item /\ q \in Seq(Item)
      /\ notices \in [Agents -> Seq({"added", "removed"})] /\ TypeOK
  BY <1>1, HeadTailProperties DEF Typed, TypeOK
<1>3. h.to \in Agents /\ h.action \in {"added", "removed"} /\ h = Notice(h.to, h.action)
  BY <1>1, <1>2 DEF Item, Notice
<1>4. ~IsPut(h) /\ \A t : ~PutBy(h, t)
  BY <1>1 DEF IsPut, PutBy
<1>5. \A a : Known(a)' <=> Known(a)
  BY <1>1 DEF Known, Stored, At
<1> SUFFICES ASSUME ~cut, ~lost
             PROVE  /\ work["leave"] # None => LeaveOn(q)
                    /\ \A a \in ToSet(members) \ (missed \union disputed) :
                          /\ Once(members, a)
                          /\ HearsIn(q, work, notices'[a], subs[a], isDefault, Known(a), a)
  BY <1>1, <1>5 DEF Hears
<1>6. LeaveOn(out) => LeaveOn(q)
  BY <1>1, <1>2, <1>4, PutsTail
<1>7. ASSUME NEW a \in ToSet(members) \ (missed \union disputed)
      PROVE  HearsIn(q, work, notices'[a], subs[a], isDefault, Known(a), a)
  <2>1. HearsIn(out, work, notices[a], subs[a], isDefault, Known(a), a) /\ a \in Agents
    <3>1. a \in Agents
      BY <1>2, <1>7 DEF TypeOK, Record, GroupRecord, ToSet
    <3> QED BY <1>7, <3>1 DEF Hears
  <2>2. HeardIn(out, notices[a], subs[a], a) => HeardIn(q, notices'[a], subs[a], a)
    <3> DEFINE box == notices[a]
               sub == subs[a]
    <3>1. box \in Seq({"added", "removed"})
      BY <1>2, <2>1
    <3>2. CASE h.to = a
      <4>1. notices'[a] = Append(box, h.action)
        BY <1>1, <1>2, <2>1, <3>2
      <4> HIDE DEF box, sub
      <4>2. HeardIn(out, box, sub, a) => HeardIn(q, Append(box, h.action), sub, a)
        BY <1>1, <1>2, <1>3, <3>1, <3>2, HeardTail
      <4> QED BY <4>1, <4>2 DEF box, sub
    <3>3. CASE h.to # a
      <4>1. notices'[a] = box
        BY <1>1, <1>2, <2>1, <3>3
      <4> HIDE DEF box, sub
      <4>2. HeardIn(out, box, sub, a) => HeardIn(q, box, sub, a)
        BY <1>1, <1>2, <3>1, <3>3, HeardTail
      <4> QED BY <4>1, <4>2 DEF box, sub
    <3> QED BY <3>2, <3>3
  <2>3. /\ LeaveFirst(out) => LeaveFirst(q)
        /\ FromPut(out, a) => FromPut(q, a)
        /\ AllName(out, a) => AllName(q, a)
    BY <1>1, <1>2, PutsTail
  <2> QED BY <2>1, <2>2, <2>3 DEF HearsIn, RecordIn
<1> QED BY <1>6, <1>7 DEF Hears

(* The announcement cannot be read, and the handler waits on. *)
LEMMA GetFailsHears == Typed /\ Hears /\ GetFails /\ UNCHANGED client => Hears'
<1> SUFFICES ASSUME Typed, Hears, GetFails, UNCHANGED client PROVE Hears'
  OBVIOUS
<1> DEFINE h == Head(out)
           q == Tail(out)
           s == h.subject
           r == work[s].request
<1>1. First("get") /\ Await(s, r, "unread") /\ out' = q
  BY DEF GetFails
<1>2. /\ h.do = "get" /\ out # <<>> /\ q \in Seq(Item)
      /\ s \in {"join", "approve"} /\ s \in Subjects /\ work[s] # None /\ r \in Request
      /\ Fits(h, work) /\ TypeOK
  BY <1>1, FirstOut DEF First, Typed, Fits
<1>3. UNCHANGED <<members, isDefault, cut, lost, missed, disputed, subs, notices, saved>>
  BY DEF GetFails, group, store, agents, client
<1>4. ~IsPut(h) /\ h.do # "notify" /\ \A t : ~PutBy(h, t)
  BY <1>2 DEF IsPut, PutBy
<1>5. work[s].stage = IF s = "join" THEN "get" ELSE "admit"
  BY <1>2 DEF Fits
<1>6. /\ work'[s] # None /\ work'[s].request = r /\ work'[s].stage = "unread"
      /\ \A t \in Subjects \ {s} : work'[t] = work[t]
  BY <1>1, <1>2, AwaitType
<1>7. /\ <<>> \in Seq(Item) /\ out' = q \o <<>>
      /\ \A a : Untold(<<>>, a) /\ AllName(<<>>, a) /\ NoneBy(<<>>, "leave")
  BY <1>1, <1>2 DEF Untold, AllName, NoneBy, ToSet
<1> HIDE DEF h, q, s, r
<1>8. work'["leave"] = work["leave"] /\ work'["create"] = work["create"]
  BY <1>2, <1>6 DEF Subjects
<1>9. \A a : Letting(work', a) <=> Letting(work, a)
  BY <1>2, <1>5, <1>6, <1>8 DEF Letting, At, Subjects
<1>10. \A a : At(work', "join", "admit", a) <=> At(work, "join", "admit", a)
  BY <1>2, <1>5, <1>6 DEF At, Subjects
<1>11. \A a : At(work', "approve", "save", a) => At(work, "approve", "save", a)
  BY <1>2, <1>5, <1>6 DEF At, Subjects
<1>12. \A a : Deciding(work, a) => Deciding(work', a)
  BY <1>2, <1>6 DEF Deciding, Subjects, r
<1>13. \A a : Known(a) => Known(a)'
  BY <1>3, <1>8 DEF Known, Stored, At
<1> QED BY <1>2, <1>3, <1>4, <1>7, <1>8, <1>9, <1>10, <1>11, <1>12, <1>13, StepHears
        DEF HearsIn, Leaves, h, q

(* The handler goes on without the announcement. *)
LEMMA GetTimesOutHears ==
    ASSUME Typed, Hears, NEW s \in Subjects, GetTimesOut(s), UNCHANGED client
    PROVE  Hears'
<1> DEFINE r == work[s].request
           x == PutGroup(s, members, pending)
           y == Answer(r, "approved")
<1>1. /\ work[s] # None /\ work[s].stage = "unread" /\ s \in {"join", "approve"}
      /\ UNCHANGED <<members, isDefault, cut, lost, missed, disputed, subs, notices, saved>>
  BY DEF GetTimesOut, group, store, agents, history, client
<1>2. /\ out \in Seq(Item) /\ TypeOK /\ r \in Request
      /\ members \in Seq(Agents) /\ pending \in [Agents -> Statuses]
  BY <1>1, WorkType DEF Typed, TypeOK
<1>3. \E p \in Seq(Item) :
         /\ out' = out \o p
         /\ \A a : Untold(p, a) /\ NoneBy(p, "leave")
         /\ \A a \in ToSet(members) : AllName(p, a)
  <2>1. CASE Issue(<<Answer(r, "joined")>>)
    <3>1. "joined" \in Results
      BY DEF Results
    <3> QED BY <1>2, <2>1, <3>1, AfterItems DEF Issue
  <2>2. CASE s = "approve" /\ Issue(<<x, y>>)
    <3>1. x \in Item /\ x.do = "put" /\ x.subject = s /\ \A a \in ToSet(members) : Names(x, a)
      BY <1>2, ItemType, WrittenType DEF Names, PutGroup
    <3>2. y \in Item /\ y.do = "answer"
      BY <1>2, ItemType DEF Results
    <3> HIDE DEF x, y
    <3>3. <<x, y>> \in Seq(Item) /\ ToSet(<<x, y>>) = {x, y}
      BY <3>1, <3>2, Few, Zenon
    <3> DEFINE p == <<x, y>>
    <3>4. p \in Seq(Item) /\ ToSet(p) = {x, y} /\ out' = out \o p
      BY <2>2, <3>3 DEF Issue
    <3> HIDE DEF p
    <3>5. /\ \A a : Untold(p, a) /\ NoneBy(p, "leave")
          /\ \A a \in ToSet(members) : AllName(p, a)
      BY <2>2, <3>1, <3>2, <3>4 DEF Untold, Notice, AllName, NoneBy, PutBy, IsPut
    <3> QED BY <3>4, <3>5
  <2> QED BY <2>1, <2>2 DEF GetTimesOut, x, y
<1> PICK p \in Seq(Item) :
            /\ out' = out \o p
            /\ \A a : Untold(p, a) /\ NoneBy(p, "leave")
            /\ \A a \in ToSet(members) : AllName(p, a)
  BY <1>3
<1>4. \A t \in Subjects \ {s} : work'[t] = work[t]
  <2>1. Ends(s) \/ Await(s, r, "save")
    BY DEF GetTimesOut
  <2> QED BY <1>2, <2>1, EndsType, AwaitType
<1>5. /\ s = "join" => work'[s] = None
      /\ s = "approve" => work'[s] # None /\ work'[s].request = r
  BY <1>2, EndsType, AwaitType DEF GetTimesOut
<1>6. NoneBy(out, s)
  BY <1>1, UnreadIsFree, FreeNone
<1> HIDE DEF x, y
<1>7. work'["leave"] = work["leave"] /\ work'["create"] = work["create"]
  BY <1>1, <1>4 DEF Subjects
<1>8. \A a : Letting(work, a) => Letting(work', a)
  BY <1>1, <1>4, <1>7 DEF Letting, At, Subjects
<1>9. \A a : At(work, "join", "admit", a) => At(work', "join", "admit", a)
  BY <1>1, <1>4 DEF At, Subjects
<1>10. \A a : At(work', "approve", "save", a) =>
                 At(work, "approve", "save", a) \/ NoneBy(out, "approve")
  BY <1>1, <1>4, <1>6 DEF At, Subjects
<1>11. \A a : Deciding(work, a) => Deciding(work', a)
  BY <1>1, <1>4, <1>5 DEF Deciding, Subjects
<1>12. \A a : Known(a) => Known(a)'
  BY <1>1, <1>7 DEF Known, Stored, At
<1> SUFFICES ASSUME ~cut, ~lost
             PROVE  /\ work'["leave"] # None => LeaveOn(out \o p)
                    /\ \A a \in ToSet(members) \ (missed \union disputed) :
                          /\ Once(members, a)
                          /\ HearsIn(out \o p, work', notices[a], subs[a], isDefault,
                                     Known(a)', a)
  BY <1>1 DEF Hears
<1>13. LeaveOn(out) => LeaveOn(out \o p)
  BY <1>2, PutsMore
<1>14. ASSUME NEW a \in ToSet(members),
              HearsIn(out, work, notices[a], subs[a], isDefault, Known(a), a)
       PROVE  HearsIn(out \o p, work', notices[a], subs[a], isDefault, Known(a)', a)
  <2> DEFINE known == Known(a)
             more == Known(a)'
  <2>1. /\ AllName(p, a) /\ Untold(p, a)
        /\ Leaves(work', a) => Leaves(work, a) /\ NoneBy(p, "leave")
              /\ (At(work, "join", "admit", a) => At(work', "join", "admit", a))
    BY <1>7, <1>9 DEF Leaves
  <2>2. Letting(work, a) => Letting(work', a) \/ Notice(a, "added") \in ToSet(p)
    BY <1>8
  <2>3. Deciding(work, a) => Deciding(work', a) \/ (more /\ AllName(out, a)) \/ isDefault
    BY <1>11
  <2>4. known => more
    BY <1>12
  <2>5. HearsIn(out, work, notices[a], subs[a], isDefault, known, a)
    BY <1>14
  <2> HIDE DEF known, more
  <2>6. HearsIn(out \o p, work', notices[a], subs[a], isDefault, more, a)
    BY <1>2, <1>10, <2>1, <2>2, <2>3, <2>4, <2>5, HearsMore, Zenon
  <2> QED BY <2>6 DEF more
<1> QED BY <1>7, <1>13, <1>14 DEF Hears

LEMMA DeliverHears == Typed /\ Hears /\ Deliver /\ UNCHANGED client => Hears'
<1>1. PutFails => Hears'
  BY DEF PutFails, Hears
<1> QED BY <1>1, PutHears, GetHears, GetFailsHears, GetTimesOutHears, OtherHears, NoticeHears
        DEF Deliver

(* A crash that cuts nothing short brings back what was there. *)
LEMMA CrashHears ==
    Typed /\ Latest /\ Hears /\ Crash /\ UNCHANGED client => Hears'
<1> SUFFICES ASSUME Typed, Latest, Hears, Crash, UNCHANGED client, ~cut', ~lost' PROVE Hears'
  BY DEF Hears
<1>1. /\ ~cut /\ ~lost /\ Idle /\ out = <<>> /\ out' = <<>>
      /\ exists' = (saved # None) /\ members' = Loaded.members
      /\ work' = [s \in Subjects |-> None]
      /\ UNCHANGED <<saved, isDefault, notices, disputed, subs, missed>>
  BY DEF Crash, store, agents, client
<1>2. \A s \in Subjects : work[s] = None /\ work'[s] = None
  BY <1>1 DEF Idle
<1>3. members' = members
  <2>1. CASE exists
    <3>1. saved = Record
      BY <1>1, <1>2, <2>1 DEF Latest, LatestIn, WillPut, Subjects
    <3>2. Loaded = saved /\ saved.members = members
      BY <3>1, RecordType DEF Loaded, Typed
    <3> QED BY <1>1, <3>2
  <2>2. CASE ~exists
    BY <1>1, <2>2 DEF Loaded, Typed, NotYet
  <2> QED BY <2>1, <2>2
<1>4. \A a : Known(a)' <=> Known(a)
  BY <1>1, <1>2 DEF Known, Stored, At, Subjects
<1>5. ASSUME NEW a, NEW box, NEW sub, NEW open, NEW known, HearsIn(<<>>, work, box, sub, open, known, a)
      PROVE  HearsIn(<<>>, work', box, sub, open, known, a)
  BY <1>2, <1>5 DEF HearsIn, RecordIn, Leaves, Letting, Deciding, At, Subjects
<1>6. ASSUME NEW a, HearsIn(out, work, notices[a], subs[a], isDefault, Known(a), a)
      PROVE  HearsIn(out', work', notices'[a], subs'[a], isDefault', Known(a)', a)
  <2>1. HearsIn(<<>>, work', notices[a], subs[a], isDefault, Known(a), a)
    BY <1>1, <1>5, <1>6
  <2> QED BY <1>1, <1>4, <2>1
<1>7. work'["leave"] = None
  BY <1>2 DEF Subjects
<1> QED BY <1>1, <1>3, <1>6, <1>7 DEF Hears

(* What the client does. *)
LEMMA ClientHears == Typed /\ Hears /\ Follow => Hears'
<1> SUFFICES ASSUME Typed, Hears, NEW b \in Agents,
                    TimeOut(b) \/ OnNotification(b) \/ StartClient(b) \/ SubscribeNotification(b)
             PROVE  Hears'
  BY DEF Follow
<1>1. /\ UNCHANGED <<members, out, work, saved, isDefault, cut, lost, disputed>>
      /\ missed \subseteq missed'
  BY DEF TimeOut, Send, OnNotification, StartClient, SubscribeNotification,
         admission, group, store, service, history, client
<1>2. /\ notices \in [Agents -> Seq({"added", "removed"})] /\ subs \in [Agents -> Nat]
      /\ \A a \in ToSet(members) : a \in Agents
  BY DEF Typed, TypeOK, Record, GroupRecord, ToSet
<1>3. \A a : Known(a)' <=> Known(a)
  BY <1>1 DEF Known, Stored, At
<1>4. ASSUME NEW a \in ToSet(members) \ (missed' \union disputed),
             HearsIn(out, work, notices[a], subs[a], isDefault, Known(a), a)
      PROVE  Letting(work, a) \/ HeardIn(out, notices'[a], subs'[a], a)
  <2> SUFFICES ASSUME ~Letting(work, a)
               PROVE  HeardIn(out, notices'[a], subs'[a], a)
    OBVIOUS
  <2>1. HeardIn(out, notices[a], subs[a], a) /\ a \in Agents
    BY <1>2, <1>4 DEF HearsIn
  <2>2. CASE notices'[a] = notices[a] /\ subs'[a] = subs[a]
    BY <2>1, <2>2
  <2>3. CASE OnNotification(b) /\ a = b
    <3> DEFINE box == notices[a]
    <3>1. /\ box \in Seq({"added", "removed"}) /\ box # <<>>
          /\ notices'[a] = Tail(box) /\ listening[b]
          /\ Head(box) = "added" => subs'[a] = subs[a] + 1
      BY <1>2, <1>4, <2>1, <2>3 DEF OnNotification, SubscribeGrp
    <3>2. /\ Tail(box) # <<>> => Tail(box)[Len(Tail(box))] = box[Len(box)]
          /\ Tail(box) = <<>> => Head(box) = box[Len(box)]
      <4> HIDE DEF box
      <4>1. /\ Len(box) \in Nat \ {0} /\ Len(Tail(box)) = Len(box) - 1 /\ Head(box) = box[1]
            /\ \A i \in 1 .. Len(box) - 1 : Tail(box)[i] = box[i + 1]
            /\ Tail(box) # <<>> => Len(Tail(box)) # 0
        BY <3>1, HeadTailProperties
      <4>2. Tail(box) = <<>> => Len(Tail(box)) = 0
        <5>1. Len(<<>>) = 0
          OBVIOUS
        <5> QED BY <5>1
      <4>3. Len(box) # 1 => Len(box) - 1 \in 1 .. Len(box) - 1 /\ (Len(box) - 1) + 1 = Len(box)
        BY <4>1
      <4>4. Tail(box) # <<>> => Len(box) # 1
        BY <4>1
      <4>5. Tail(box) = <<>> => Len(box) = 1
        BY <4>1, <4>2
      <4> QED BY <4>1, <4>3, <4>4, <4>5
    <3>3. subs[a] \in Nat
      BY <1>2, <2>1
    <3> HIDE DEF box
    <3> QED BY <2>1, <3>1, <3>2, <3>3 DEF HeardIn, box
  <2>4. CASE StartClient(b) /\ a = b
    <3>1. notices'[a] = notices[a] /\ ~Admitting(a) /\ (Stored(a) \/ isDefault => subs'[a] = 1)
      BY <1>2, <1>4, <2>1, <2>4 DEF StartClient
    <3>2. Stored(a) \/ isDefault
      BY <1>4, <3>1 DEF HearsIn, RecordIn, Admitting, Deciding, Letting, Known, Stored
    <3> QED BY <2>1, <3>1, <3>2 DEF HeardIn
  <2> QED BY <1>2, <2>1, <2>2, <2>3, <2>4
          DEF TimeOut, Send, OnNotification, StartClient, SubscribeNotification,
              SubscribeGrp, UnsubscribeGrp, admission, agents, client
<1>5. ASSUME NEW a \in ToSet(members) \ (missed' \union disputed),
             HearsIn(out, work, notices[a], subs[a], isDefault, Known(a), a)
      PROVE  HearsIn(out, work, notices'[a], subs'[a], isDefault, Known(a), a)
  BY <1>4, <1>5 DEF HearsIn
<1> QED BY <1>1, <1>3, <1>5 DEF Hears

LEMMA NextHears == Typed /\ Latest /\ Hears /\ [Next]_vars => Hears'
<1> SUFFICES ASSUME Typed, Latest, Hears, [Next]_vars PROVE Hears'
  OBVIOUS
<1>1. CASE Serve
  BY <1>1, HandleHears, DeliverHears, CrashHears DEF Serve
<1>2. CASE (\E c \in Commands : Ask(c)) \/ UNCHANGED vars
  <2>1. UNCHANGED <<members, out, work, saved, isDefault, cut, lost, disputed, missed,
                    notices, subs>>
    BY <1>2 DEF Ask, Send, vars, admission, group, store, service, agents, history, client
  <2>2. \A a : Known(a)' <=> Known(a)
    BY <2>1 DEF Known, Stored, At
  <2> QED BY <2>1, <2>2 DEF Hears
<1>3. CASE Follow
  BY <1>3, ClientHears
<1> QED BY <1>1, <1>2, <1>3 DEF Next

LEMMA InitHears == Init => Hears
<1> SUFFICES ASSUME Init PROVE Hears
  OBVIOUS
<1>1. /\ out = <<>> /\ \A s \in Subjects : work[s] = None
      /\ notices = [a \in Agents |-> <<>>]
      /\ subs = [a \in Agents |-> IF exists /\ a = Owner THEN 1 ELSE 0]
      /\ members = IF exists THEN <<Owner>> ELSE <<>>
      /\ saved = IF exists THEN Record ELSE None
  BY DEF Init, AdmissionInit
<1>2. ASSUME NEW a \in ToSet(members)
      PROVE  exists /\ a = Owner /\ a \in Agents /\ Stored(a) /\ Once(members, a)
  <2>1. exists /\ members = <<Owner>> /\ a = Owner /\ a \in Agents
    BY <1>1, <1>2, AdmissionAssumption DEF ToSet
  <2>2. saved # None /\ saved.members = members
    <3>1. TypeOK
      BY InitTyped DEF Typed
    <3> QED BY <1>1, <2>1, <3>1, RecordType
  <2>3. Once(members, a)
    BY <2>1 DEF Once
  <2> QED BY <1>2, <2>1, <2>2, <2>3 DEF Stored
<1>3. ASSUME NEW a \in ToSet(members)
      PROVE  HearsIn(<<>>, work, notices[a], subs[a], isDefault, Known(a), a)
  <2>1. notices[a] = <<>> /\ subs[a] > 0
    BY <1>1, <1>2, <1>3
  <2>2. HeardIn(<<>>, notices[a], subs[a], a)
    BY <2>1 DEF HeardIn
  <2>3. Known(a) /\ AllName(<<>>, a)
    BY <1>2, <1>3 DEF Known, AllName, ToSet
  <2> QED BY <1>1, <2>2, <2>3 DEF HearsIn, RecordIn, Leaves, At, Subjects
<1> QED BY <1>1, <1>2, <1>3 DEF Hears, Subjects

(* A member hears the group once its notices are handled: its subscription *)
(* follows the notices (_on_notification), and a client that starts finds  *)
(* itself in the stored record (_resolve_and_subscribe_groups).  Who       *)
(* started between its approval and the save, missed a notice, or was      *)
(* approved while it was a member or was leaving is excluded, and so are a *)
(* crash that cuts a handler short and a put that fails.                   *)
THEOREM MembersHear == Spec => []MemberHears
<1>1. Hears => MemberHears
  <2> SUFFICES ASSUME Hears, Quiet, ~cut, ~lost,
                      NEW a \in ToSet(members) \ (missed \union disputed),
                      listening[a], notices[a] = <<>>
               PROVE  subs[a] > 0
    BY DEF MemberHears
  <2>1. HearsIn(out, work, notices[a], subs[a], isDefault, Known(a), a)
    BY DEF Hears
  <2>2. ~Letting(work, a) /\ out = <<>>
    BY DEF Quiet, Idle, Letting, At, Subjects
  <2> QED BY <2>1, <2>2 DEF HearsIn, HeardIn
<1>2. Init => Latest
  BY DEF Init, AdmissionInit, Latest, LatestIn
<1> QED BY <1>1, <1>2, InitTyped, NextTyped, NextLatest, InitHears, NextHears, PTL DEF Spec

=============================================================================
