------------------------------- MODULE Groups -------------------------------
(***************************************************************************)
(* A group as its agents see it: the admission service, the group managers *)
(* that send it requests (aim-client/modules/group_manager.py), and the    *)
(* clients that follow its notices by subscribing to the group             *)
(* (aim-client/main.py, aim-client/aim_nats_sdk.py).                       *)
(***************************************************************************)
EXTENDS GroupAdmission

CONSTANTS
    Commands,      \* the commands the agents give: who, what, for whom
    Retries,       \* attempts of _nats_request
    MaxRequests,   \* bound: commands given
    MaxTimeouts,   \* bound: attempts that time out
    MaxStarts      \* bound: clients that restart

Ops == {"create", "join", "approve", "reject", "leave", "announce"}

(* Only approvals, rejections and removals are about someone else; the    *)
(* owner of a group is who creates it.                                     *)
Command == [by : Agents, op : Ops, for : Agents]

Results == {"exists", "created", "not_found", "already_member", "pending",
            "joined", "unauthorized", "approved", "rejected", "not_member",
            "left", "set"}

Request == [op : Ops, from : Agents, agent : Agents, turn : Nat]

(* What a handler awaits, what an agent waits for, and a group's record.   *)
Work == [request : Request, stage : {"save", "admit", "get", "unread"}]

Waiting == [op : Ops, agent : Agents, attempt : 1 .. Retries]

Texts == {"none", "JoinStatus.PENDING", "JoinStatus.REJECTED"}

Statuses == Texts \union {"pending", "rejected"}

GroupRecord == [members : Seq(Agents), pending : [Agents -> Texts]]

Item == [do : {"get"}, subject : Subjects]
        \union [do : {"put"}, subject : Subjects, rec : GroupRecord]
        \union [do : {"announce"}, subject : {"announce"}]
        \union [do : {"notify"}, to : Agents, action : {"added", "removed"}]
        \union [do : {"push"}, to : Agents, version : Nat]
        \union [do : {"answer"}, request : Request, result : Results]

ASSUME ManagerAssumption ==
    /\ Commands \subseteq {c \in Command :
                              /\ c.by = c.for \/ c.op \in {"approve", "reject", "leave"}
                              /\ c.op = "create" => c.by = Owner}
    /\ Retries \in Nat \ {0} /\ MaxRequests \in Nat
    /\ MaxTimeouts \in Nat /\ MaxStarts \in Nat
    /\ None \notin Work \union Waiting \union GroupRecord

VARIABLES
    subs,        \* per agent, the subscriptions of the group that deliver
    tracked,     \* _subscriptions holds the last of them
    listening,   \* the agent is subscribed to its notices
    requests, timeouts, starts,   \* counters for the bounds
    missed       \* history: agents whose client started too late for a notice

client == <<subs, tracked, listening, starts, missed>>
budget == <<requests, timeouts>>
vars == <<admission, client, budget>>

Init ==
    /\ AdmissionInit
    /\ subs = [a \in Agents |-> IF exists /\ a = Owner THEN 1 ELSE 0]
    /\ tracked = [a \in Agents |-> subs[a] = 1]
    /\ listening = [a \in Agents |-> TRUE]
    /\ requests = 0 /\ timeouts = 0 /\ starts = 0 /\ missed = {}

-----------------------------------------------------------------------------
(* The group manager.  The service answers approve and reject on one       *)
(* subject.                                                                *)
Subject(op) == IF op = "reject" THEN "approve" ELSE op

Send(c, r) ==
    /\ turn' = [turn EXCEPT ![c] = r.turn]
    /\ inbox' = [inbox EXCEPT ![Subject(r.op)] = Append(@, r)]
    /\ UNCHANGED <<group, store, work, out, told, notices, faults, history, client>>

(* handle_command passes the agent that gives the command on as requester  *)
(* or as the one who joins or leaves.  Announcements and removals by the   *)
(* owner are requests the service knows and no client sends.               *)
Ask(c) ==
    /\ asked[c.by] = None /\ requests < MaxRequests
    /\ requests' = requests + 1 /\ UNCHANGED timeouts
    /\ asked' = [asked EXCEPT ![c.by] = [op |-> c.op, agent |-> c.for, attempt |-> 1]]
    /\ Send(c.by, [op |-> c.op, from |-> c.by, agent |-> c.for, turn |-> turn[c.by] + 1])

(* No answer in time, or no connection: the same request is sent again,    *)
(* until the attempts are used up.                                         *)
TimeOut(c) ==
    /\ asked[c] # None /\ timeouts < MaxTimeouts
    /\ timeouts' = timeouts + 1 /\ UNCHANGED requests
    /\ \/ /\ asked[c].attempt < Retries
          /\ asked' = [asked EXCEPT ![c].attempt = @ + 1]
          /\ Send(c, [op |-> asked[c].op, from |-> c, agent |-> asked[c].agent,
                      turn |-> turn[c] + 1])
       \/ /\ asked[c].attempt >= Retries
          /\ asked' = [asked EXCEPT ![c] = None]
          /\ UNCHANGED <<group, store, service, turn, told, notices, faults,
                         history, client>>

-----------------------------------------------------------------------------
(* The client.  Subscribing again replaces the entry in _subscriptions and *)
(* leaves the older subscription alone; unsubscribing ends the one that is *)
(* in there.                                                               *)
SubscribeGrp(a) ==
    /\ subs' = [subs EXCEPT ![a] = @ + 1]
    /\ tracked' = [tracked EXCEPT ![a] = TRUE]

UnsubscribeGrp(a) ==
    /\ subs' = IF tracked[a] THEN [subs EXCEPT ![a] = @ - 1] ELSE subs
    /\ tracked' = [tracked EXCEPT ![a] = FALSE]

OnNotification(a) ==
    /\ notices[a] # <<>>
    /\ notices' = [notices EXCEPT ![a] = Tail(@)]
    /\ \/ /\ listening[a] /\ Head(notices[a]) = "added"
          /\ SubscribeGrp(a) /\ UNCHANGED missed
       \/ /\ listening[a] /\ Head(notices[a]) = "removed"
          /\ UnsubscribeGrp(a) /\ UNCHANGED missed
       \/ /\ ~listening[a]
          /\ missed' = missed \union {a} /\ UNCHANGED <<subs, tracked>>
    /\ UNCHANGED <<group, store, service, asked, turn, told, faults, history,
                   listening, starts, budget>>

(* A client that starts subscribes to the groups whose stored record names *)
(* it, to the default group if there are none, and to the notices after    *)
(* that.                                                                   *)
(* Its approval has been announced to it and is not saved yet. *)
Admitting(a) == work["approve"] # None /\ work["approve"].request.agent = a

StartClient(a) ==
    /\ starts < MaxStarts /\ starts' = starts + 1
    /\ subs' = [subs EXCEPT ![a] = IF Stored(a) \/ isDefault THEN 1 ELSE 0]
    /\ tracked' = [tracked EXCEPT ![a] = Stored(a) \/ isDefault]
    /\ listening' = [listening EXCEPT ![a] = FALSE]
    /\ asked' = [asked EXCEPT ![a] = None]
    /\ missed' = IF Admitting(a) THEN missed \union {a} ELSE missed
    /\ UNCHANGED <<group, store, service, turn, told, notices, faults, history, budget>>

SubscribeNotification(a) ==
    /\ ~listening[a]
    /\ listening' = [listening EXCEPT ![a] = TRUE]
    /\ UNCHANGED <<admission, subs, tracked, starts, missed, budget>>

-----------------------------------------------------------------------------
Serve == (Handle \/ Deliver \/ Crash) /\ UNCHANGED <<client, budget>>

Follow == \E a \in Agents :
            TimeOut(a) \/ OnNotification(a) \/ StartClient(a) \/ SubscribeNotification(a)

Next == Serve \/ (\E c \in Commands : Ask(c)) \/ Follow

Spec == Init /\ [][Next]_vars

-----------------------------------------------------------------------------
TypeOK ==
    /\ isDefault \in BOOLEAN /\ exists \in BOOLEAN
    /\ members \in Seq(Agents) /\ pending \in [Agents -> Statuses]
    /\ saved \in GroupRecord \union {None} /\ version \in Nat
    /\ inbox \in [Subjects -> Seq(Request)]
    /\ work \in [Subjects -> Work \union {None}]
    /\ out \in Seq(Item)
    /\ asked \in [Agents -> Waiting \union {None}]
    /\ turn \in [Agents -> Nat] /\ told \in [Agents -> Nat]
    /\ notices \in [Agents -> Seq({"added", "removed"})]
    /\ subs \in [Agents -> Nat] /\ tracked \in [Agents -> BOOLEAN]
    /\ listening \in [Agents -> BOOLEAN]

(* Nothing is under way in the service or on its way out of it. *)
Quiet == Idle /\ out = <<>>

(* An agent that was told it is in stays so unless it leaves or is removed,*)
(* whatever requests the service handles meanwhile and whenever it         *)
(* crashes: the record is put before the answer.  The exceptions: nothing  *)
(* is claimed once a put of the record got no answer, nor of an agent that *)
(* was told already_member, which the service answers from memory, while   *)
(* its approval was not stored.                                            *)
AnsweredIsMember == lost \/ granted \ (gone \union early) \subseteq ToSet(members)

(* Handlers of several subjects change and save one record: when all are   *)
(* done, the store holds what the service knows, the status of a request   *)
(* to join as the text it is written as, unless a put got no answer.       *)
QuietIsSaved == (exists /\ Quiet /\ ~lost) => saved = Record

(* Who asks for the members is told the status of each request to join     *)
(* (group_admission.py:403); text, which a restart loads, has no value.    *)
MembersListed == \A a \in Agents : pending[a] \in {"none", "pending", "rejected"}

(* Every member has been sent the announcement in force, whether it joined *)
(* before, while or after it was set.  The exceptions: a crash cut the     *)
(* sending short, a put of the record got no answer (a member may be back  *)
(* whose leave was not stored), or this very announcement was stored but   *)
(* its put got no answer, or its reading for the new member got none.      *)
AnnouncementReaches ==
    Quiet /\ ~cut /\ ~lost =>
        \A a \in ToSet(members) : told[a] = version \/ <<a, version>> \in untold

(* A member hears the group once its notices are handled, unless its       *)
(* client started between its approval and the save, or missed a notice    *)
(* while starting, a crash kept one from it, a put of the record got no    *)
(* answer, or it was approved while it was a member or while its leave was *)
(* being saved.                                                            *)
MemberHears ==
    Quiet /\ ~cut /\ ~lost =>
        \A a \in ToSet(members) \ (missed \union disputed) :
            listening[a] /\ notices[a] = <<>> => subs[a] > 0

(* "left" (group_manager.py:459) means that the agent is no member.  An    *)
(* approval that is sent again enters it twice, and one leave ends one.    *)
LeftMeansGone == left \cap ToSet(members) = {}
=============================================================================
