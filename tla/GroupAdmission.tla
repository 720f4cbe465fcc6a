--------------------------- MODULE GroupAdmission ---------------------------
(***************************************************************************)
(* The admission service of one group, aim-client/group_admission.py, and  *)
(* the requests clients have open with it.                                 *)
(*                                                                         *)
(* NATS runs one request of a subject at a time; requests of different     *)
(* subjects interleave where their handlers await the KV store.  All that  *)
(* the service publishes goes over one connection, `out', in the order in  *)
(* which it is issued: within one run of a handler the put or get it       *)
(* awaits first, then the notices and the answer, which are scheduled with *)
(* ensure_future.  What is still in `out' is lost when the service dies.   *)
(***************************************************************************)
EXTENDS Naturals, SequencesExt

CONSTANTS
    Agents,
    Owner,        \* GroupInfo.owner
    MaxFaults,    \* bound: crashes of the service, puts and gets without answer
    None

ASSUME AdmissionAssumption ==
    /\ Owner \in Agents /\ None \notin Agents /\ None \notin Nat
    /\ MaxFaults \in Nat

Subjects == {"create", "join", "approve", "leave", "announce"}

VARIABLES
    isDefault,   \* GroupInfo.is_default: who asks is in
    exists,      \* the group is in _groups
    members,     \* GroupInfo.members, a list
    pending,     \* GroupInfo.pending_joins
    saved,       \* the group's record in the bucket aim-kv-groups, or None
    version,     \* the announcement stored beside it, 0 for none
    inbox,       \* per subject, the requests received
    work,        \* per subject, the request under way and what it awaits
    out,         \* what the service has issued and the server not yet seen
    asked,       \* per agent, the request it waits for, or None
    turn,        \* per agent, the number of requests it has sent
    told,        \* per agent, the newest announcement sent to it
    notices,     \* per agent, the group.update notices sent to it
    faults,      \* counter for the bound
    granted,     \* history: agents told that they are in
    early,       \* history: agents told so from memory, before it was stored
    gone,        \* history: agents that have left or were removed once
    left,        \* history: agents whose leave was carried out, not admitted since
    disputed,    \* history: agents approved as members, or while they left
    cut,         \* history: a crash has cut a handler short
    lost,        \* history: a put of the record got no answer
    untold       \* history: announcements that a fault kept from a member

group == <<isDefault, exists, members, pending>>
store == <<saved, version>>
service == <<inbox, work, out>>
agents == <<asked, turn, told, notices>>
answers == <<granted, early>>
history == <<answers, gone, left, disputed, cut, lost, untold>>
admission == <<group, store, service, agents, faults, history>>

(* json.dumps writes a JoinStatus as text (default=str), and text as is.   *)
Text(status) ==
    CASE status = "pending" -> "JoinStatus.PENDING"
      [] status = "rejected" -> "JoinStatus.REJECTED"
      [] OTHER -> status

Written(m, p) == [members |-> m, pending |-> [a \in Agents |-> Text(p[a])]]

(* The group's record as it would be saved now. *)
Record == Written(members, pending)

Stored(a) == saved # None /\ a \in ToSet(saved.members)

Idle == \A s \in Subjects : work[s] = None

(* The announcement is read for a new member and sent to members. *)
Get(s) == [do |-> "get", subject |-> s]
PutGroup(s, m, p) == [do |-> "put", subject |-> s,
                      rec |-> Written(m, p)]
PutAnnouncement == [do |-> "announce", subject |-> "announce"]
Notice(a, action) == [do |-> "notify", to |-> a, action |-> action]
Push(a, v) == [do |-> "push", to |-> a, version |-> v]
Answer(r, result) == [do |-> "answer", request |-> r, result |-> result]

Issue(items) == out' = out \o items

(* The request a handler starts with, and the end of its run. *)
Begins(s, r) == work[s] = None /\ inbox[s] # <<>> /\ r = Head(inbox[s])
Consume(s) == inbox' = [inbox EXCEPT ![s] = Tail(@)]
Await(s, r, stage) ==
    work' = [work EXCEPT ![s] = [request |-> r, stage |-> stage]]

(* An early return: the answer is all that happens. *)
Refuse(s, r, result) ==
    /\ Consume(s) /\ Issue(<<Answer(r, result)>>)
    /\ UNCHANGED <<group, store, work, agents, faults, history>>

AdmissionInit ==
    /\ isDefault \in BOOLEAN
    /\ exists \in BOOLEAN /\ (isDefault => exists)
    /\ members = IF exists THEN <<Owner>> ELSE <<>>
    /\ pending = [a \in Agents |-> "none"]
    /\ saved = IF exists THEN Record ELSE None
    /\ version = 0
    /\ inbox = [s \in Subjects |-> <<>>] /\ work = [s \in Subjects |-> None]
    /\ out = <<>>
    /\ asked = [a \in Agents |-> None] /\ turn = [a \in Agents |-> 0]
    /\ told = [a \in Agents |-> 0] /\ notices = [a \in Agents |-> <<>>]
    /\ faults = 0
    /\ granted = {} /\ early = {} /\ gone = {} /\ left = {} /\ disputed = {}
    /\ cut = FALSE /\ lost = FALSE /\ untold = {}

-----------------------------------------------------------------------------
(* The handlers, up to their first await. *)
HandleCreate(r) ==
    /\ Begins("create", r)
    /\ \/ exists /\ Refuse("create", r, "exists")
       \/ /\ ~exists
          /\ exists' = TRUE /\ members' = <<r.agent>>
          /\ Issue(<<PutGroup("create", <<r.agent>>, pending)>>)
          /\ Consume("create") /\ Await("create", r, "save")
          /\ UNCHANGED <<isDefault, pending, store, agents, faults, history>>

JoinDefault(r) ==
    /\ isDefault
    /\ members' = Append(members, r.agent)
    /\ left' = left \ {r.agent}
    /\ Issue(<<PutGroup("join", Append(members, r.agent), pending)>>)
    /\ Await("join", r, "admit")
    /\ UNCHANGED pending

AskToJoin(r) ==
    /\ ~isDefault
    /\ pending' = [pending EXCEPT ![r.agent] = "pending"]
    /\ Issue(<<PutGroup("join", members, [pending EXCEPT ![r.agent] = "pending"])>>)
    /\ Await("join", r, "save")
    /\ UNCHANGED <<members, left>>

HandleJoin(r) ==
    /\ Begins("join", r)
    /\ \/ ~exists /\ Refuse("join", r, "not_found")
       \/ exists /\ r.agent \in ToSet(members) /\ Refuse("join", r, "already_member")
       \/ /\ exists /\ r.agent \notin ToSet(members)
          /\ JoinDefault(r) \/ AskToJoin(r)
          /\ Consume("join")
          /\ UNCHANGED <<isDefault, exists, store, agents, faults,
                         answers, gone, disputed, cut, lost, untold>>

MayDecide(a) == a = Owner \/ a \in ToSet(members)

Leaving(a) == work["leave"] # None /\ work["leave"].request.agent = a

(* The list of members is extended whether or not the agent is in it, and  *)
(* the notice leaves before the record is saved.                           *)
Approve(r) ==
    /\ r.op = "approve"
    /\ members' = Append(members, r.agent)
    /\ pending' = [pending EXCEPT ![r.agent] = "none"]
    /\ Issue(<<Get("approve"), Notice(r.agent, "added")>>)
    /\ Await("approve", r, "admit")
    /\ left' = left \ {r.agent}
    /\ disputed' = IF Leaving(r.agent) \/ r.agent \in ToSet(members)
                   THEN disputed \union {r.agent} ELSE disputed

(* Fault: a rejection is answered and not saved. *)
RejectUnsaved(r) ==
    /\ r.op = "reject"
    /\ pending' = [pending EXCEPT ![r.agent] = "rejected"]
    /\ Issue(<<Answer(r, "rejected")>>)
    /\ UNCHANGED <<work, members, left, disputed>>

Reject(r) ==
    /\ r.op = "reject"
    /\ pending' = [pending EXCEPT ![r.agent] = "rejected"]
    /\ Issue(<<PutGroup("approve", members, [pending EXCEPT ![r.agent] = "rejected"]),
               Answer(r, "rejected")>>)
    /\ Await("approve", r, "save")
    /\ UNCHANGED <<members, left, disputed>>

HandleApprove(r) ==
    /\ Begins("approve", r)
    /\ \/ ~exists /\ Refuse("approve", r, "not_found")
       \/ exists /\ ~MayDecide(r.from) /\ Refuse("approve", r, "unauthorized")
       \/ /\ exists /\ MayDecide(r.from)
          /\ Approve(r) \/ Reject(r)
          /\ Consume("approve")
          /\ UNCHANGED <<isDefault, exists, store, agents, faults,
                         answers, gone, cut, lost, untold>>

Forbidden(r) == r.from # r.agent /\ (r.agent = Owner \/ r.from # Owner)

HandleLeave(r) ==
    /\ Begins("leave", r)
    /\ \/ ~exists /\ Refuse("leave", r, "not_found")
       \/ exists /\ r.agent \notin ToSet(members) /\ Refuse("leave", r, "not_member")
       \/ exists /\ r.agent \in ToSet(members) /\ Forbidden(r)
          /\ Refuse("leave", r, "unauthorized")
       \/ /\ exists /\ r.agent \in ToSet(members) /\ ~Forbidden(r)
          /\ members' = RemoveFirst(members, r.agent)
          /\ pending' = [pending EXCEPT ![r.agent] = "none"]
          /\ Issue(<<PutGroup("leave", members', pending')>>)
          /\ Consume("leave") /\ Await("leave", r, "save")
          /\ gone' = gone \union {r.agent} /\ left' = left \union {r.agent}
          /\ UNCHANGED <<isDefault, exists, store, agents, faults,
                         answers, disputed, cut, lost, untold>>

HandleAnnounce(r) ==
    /\ Begins("announce", r)
    /\ \/ ~exists /\ Refuse("announce", r, "not_found")
       \/ exists /\ r.from # Owner /\ Refuse("announce", r, "unauthorized")
       \/ /\ exists /\ r.from = Owner
          /\ Issue(<<PutAnnouncement>>)
          /\ Consume("announce") /\ Await("announce", r, "save")
          /\ UNCHANGED <<group, store, agents, faults, history>>

-----------------------------------------------------------------------------
(* The rest of a handler, once what it awaited has been answered. *)
Ends(s) == work' = [work EXCEPT ![s] = None]

(* The head of `out' has arrived and what comes next is issued. *)
Goes(items) == out' = Tail(out) \o items

Pushed(a) == IF version = 0 THEN <<>> ELSE <<Push(a, version)>>

(* Fault: the client of a new member of the default group is not told. *)
AfterPutUntold(s) ==
    LET r == work[s].request IN
    \/ /\ s = "create" /\ Ends(s)
       /\ Goes(<<Notice(r.agent, "added"), Answer(r, "created")>>)
    \/ /\ s = "join" /\ work[s].stage = "save" /\ Ends(s)
       /\ Goes(<<Answer(r, "pending")>>)
    \/ /\ s = "join" /\ work[s].stage = "admit" /\ Await(s, r, "get")
       /\ Goes(<<Get(s)>>)
    \/ s = "approve" /\ Ends(s) /\ out' = Tail(out)
    \/ /\ s = "leave" /\ Ends(s)
       /\ Goes(<<Notice(r.agent, "removed"), Answer(r, "left")>>)

(* The put of subject s has been answered; a failure is only logged. *)
AfterPut(s) ==
    LET r == work[s].request IN
    \/ /\ s = "create" /\ Ends(s)
       /\ Goes(<<Notice(r.agent, "added"), Answer(r, "created")>>)
    \/ /\ s = "join" /\ work[s].stage = "save" /\ Ends(s)
       /\ Goes(<<Answer(r, "pending")>>)
    \/ /\ s = "join" /\ work[s].stage = "admit" /\ Await(s, r, "get")
       /\ Goes(<<Get(s), Notice(r.agent, "added")>>)
    \/ s = "approve" /\ Ends(s) /\ out' = Tail(out)
    \/ /\ s = "leave" /\ Ends(s)
       /\ Goes(<<Notice(r.agent, "removed"), Answer(r, "left")>>)

(* Fault: the approval is answered first and saved then. *)
AfterGetAnswered(s) ==
    LET r == work[s].request IN
    \/ /\ s = "join" /\ Ends(s)
       /\ Goes(Pushed(r.agent) \o <<Answer(r, "joined")>>)
    \/ /\ s = "approve" /\ Await(s, r, "save")
       /\ Goes(Pushed(r.agent)
                \o <<Answer(r, "approved"), PutGroup(s, members, pending)>>)

(* The announcement has been read: the new member is sent it.  Approving   *)
(* saves the record only now, with all that has happened meanwhile.        *)
AfterGet(s) ==
    LET r == work[s].request IN
    \/ /\ s = "join" /\ Ends(s)
       /\ Goes(Pushed(r.agent) \o <<Answer(r, "joined")>>)
    \/ /\ s = "approve" /\ Await(s, r, "save")
       /\ Goes(<<PutGroup(s, members, pending)>>
                \o Pushed(r.agent) \o <<Answer(r, "approved")>>)

(* Fault: it goes to the members the record names. *)
AfterAnnouncementSaved ==
    LET r == work["announce"].request
        named == IF saved = None THEN <<>> ELSE saved.members IN
    /\ Ends("announce")
    /\ Goes([i \in DOMAIN named |-> Push(named[i], version + 1)]
               \o <<Answer(r, "set")>>)

(* The announcement is stored: it goes to those who are members now. *)
AfterAnnouncement ==
    LET r == work["announce"].request IN
    /\ Ends("announce")
    /\ Goes([i \in DOMAIN members |-> Push(members[i], version + 1)]
               \o <<Answer(r, "set")>>)

First(do) == out # <<>> /\ Head(out).do = do

PutLands ==
    /\ First("put")
    /\ saved' = Head(out).rec
    /\ early' = early \ ToSet(Head(out).rec.members)
    /\ AfterPut(Head(out).subject)
    /\ UNCHANGED <<group, version, inbox, agents, faults, granted, gone, left,
                   disputed, cut, lost, untold>>

(* The put is lost, or stored and its answer is lost. *)
PutFails ==
    /\ First("put") /\ faults < MaxFaults
    /\ faults' = faults + 1 /\ lost' = TRUE
    /\ saved' \in {saved, Head(out).rec}
    /\ AfterPut(Head(out).subject)
    /\ UNCHANGED <<group, version, inbox, agents, answers, gone, left,
                   disputed, cut, untold>>

GetAnswered ==
    /\ First("get")
    /\ AfterGet(Head(out).subject)
    /\ UNCHANGED <<group, store, inbox, agents, faults, history>>

(* No answer, which is taken for no announcement once the get times out.   *)
GetFails ==
    /\ First("get") /\ faults < MaxFaults
    /\ faults' = faults + 1
    /\ LET s == Head(out).subject
           r == work[s].request IN
       /\ Await(s, r, "unread")
       /\ untold' = untold \union {<<r.agent, version>>}
    /\ out' = Tail(out)
    /\ UNCHANGED <<group, store, inbox, agents, answers, gone, left, disputed,
                   cut, lost>>

GetTimesOut(s) ==
    /\ work[s] # None /\ work[s].stage = "unread"
    /\ LET r == work[s].request IN
       \/ s = "join" /\ Ends(s) /\ Issue(<<Answer(r, "joined")>>)
       \/ /\ s = "approve" /\ Await(s, r, "save")
          /\ Issue(<<PutGroup(s, members, pending), Answer(r, "approved")>>)
    /\ UNCHANGED <<group, store, inbox, agents, faults, history>>

AnnouncementLands ==
    /\ First("announce")
    /\ version' = version + 1
    /\ AfterAnnouncement
    /\ UNCHANGED <<group, saved, inbox, agents, faults, history>>

(* This put is not guarded: without an answer the handler ends, and nobody *)
(* is told of the announcement, which may be stored.                       *)
AnnouncementFails ==
    /\ First("announce") /\ faults < MaxFaults
    /\ faults' = faults + 1
    /\ \/ version' = version /\ UNCHANGED untold
       \/ /\ version' = version + 1
          /\ untold' = untold \union (ToSet(members) \X {version + 1})
    /\ Ends("announce") /\ out' = Tail(out)
    /\ UNCHANGED <<group, saved, inbox, agents, answers, gone, left, disputed,
                   cut, lost>>

PushArrives ==
    /\ First("push")
    /\ told' = [told EXCEPT ![Head(out).to] = IF @ < Head(out).version
                                             THEN Head(out).version ELSE @]
    /\ out' = Tail(out)
    /\ UNCHANGED <<group, store, inbox, work, asked, turn, notices, faults, history>>

NoticeLeaves ==
    /\ First("notify")
    /\ notices' = [notices EXCEPT ![Head(out).to] = Append(@, Head(out).action)]
    /\ out' = Tail(out)
    /\ UNCHANGED <<group, store, inbox, work, asked, turn, told, faults, history>>

(* The answers that say that the agent is in. *)
Positive == {"created", "joined", "approved", "already_member"}

(* An answer reaches a client that still waits for this very request. *)
AnswerArrives ==
    /\ First("answer")
    /\ LET r == Head(out).request
           result == Head(out).result
           awaited == asked[r.from] # None /\ turn[r.from] = r.turn IN
       /\ asked' = IF awaited THEN [asked EXCEPT ![r.from] = None] ELSE asked
       /\ granted' = IF awaited /\ result \in Positive
                     THEN granted \union {r.agent} ELSE granted
       /\ early' = IF awaited /\ result = "already_member" /\ ~Stored(r.agent)
                   THEN early \union {r.agent} ELSE early
    /\ out' = Tail(out)
    /\ UNCHANGED <<group, store, inbox, work, turn, told, notices, faults,
                   gone, left, disputed, cut, lost, untold>>

(* The service dies and starts again from the KV store (_load_from_kv);    *)
(* the status of a request to join stays the text that was saved.          *)
Loaded ==
    IF saved = None THEN [members |-> <<>>, pending |-> [a \in Agents |-> "none"]]
    ELSE saved

Crash ==
    /\ faults < MaxFaults /\ faults' = faults + 1
    /\ exists' = (saved # None)
    /\ members' = Loaded.members /\ pending' = Loaded.pending
    /\ work' = [s \in Subjects |-> None] /\ out' = <<>>
    /\ inbox' = [s \in Subjects |-> <<>>]
    /\ cut' = (cut \/ ~Idle \/ out # <<>>)
    /\ UNCHANGED <<isDefault, store, agents, answers, gone, left,
                   disputed, lost, untold>>

Handle ==
    \E s \in Subjects : inbox[s] # <<>> /\ LET r == Head(inbox[s]) IN
        \/ HandleCreate(r) \/ HandleJoin(r) \/ HandleApprove(r)
        \/ HandleLeave(r) \/ HandleAnnounce(r)

Deliver ==
    \/ PutLands \/ PutFails \/ GetAnswered \/ GetFails
    \/ \E s \in Subjects : GetTimesOut(s)
    \/ AnnouncementLands \/ AnnouncementFails \/ PushArrives \/ NoticeLeaves \/ AnswerArrives
=============================================================================
