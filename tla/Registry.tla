------------------------------ MODULE Registry ------------------------------
(***************************************************************************)
(* The registry service, aim-client/registry.py: serial numbers, presence  *)
(* and their copy in the KV store.                                         *)
(*                                                                         *)
(* NATS runs the callback of one subject for one message at a time; the    *)
(* callbacks of different subjects and the health monitor interleave where *)
(* they await a put.  Puts travel on one connection, so they reach the     *)
(* store in the order they are issued, with the record as it was then.     *)
(* Each has a time-out of its own: if a put is lost, or its answer is, the *)
(* callback that awaits it goes on five seconds later, after callbacks     *)
(* whose puts were issued later and answered at once.  A tick is           *)
(* HEALTH_INTERVAL, which no put outlasts.  Clocks stop where the code no  *)
(* longer tells their values apart.                                        *)
(***************************************************************************)
EXTENDS Naturals, Sequences

CONSTANTS
    Anons,        \* agents that register without a number
    Named,        \* the numbers of agents that register by number
    Reporters,    \* the numbers of agents that report their health
    MaxId,        \* bound: the largest number
    Timeout,      \* HEARTBEAT_TIMEOUT, in ticks
    Grace,        \* GRACE_PERIOD of the monitor
    StalledTime,  \* STALLED_TIME_THRESHOLD
    MaxCount,     \* bound: counted offline periods of one agent
    MaxFaults,    \* bound: restarts of the service and unanswered puts
    None

Ids == 1 .. MaxId

(* What is saved of an AgentRecord. *)
Record == [count : 0 .. MaxCount, gap : 0 .. Timeout + 1,
           backlog : (0 .. StalledTime + 1) \union {None}]

ASSUME RegistryAssumption ==
    /\ MaxId \in Nat \ {0} /\ Named \subseteq Ids /\ Reporters \subseteq Ids
    /\ Timeout \in Nat /\ Grace \in Nat /\ StalledTime \in Nat
    /\ MaxCount \in Nat /\ MaxFaults \in Nat
    /\ None \notin Nat /\ None \notin Anons /\ None \notin Record

VARIABLES
    known,        \* the numbers in _agents
    status,       \* AgentRecord.status
    gap,          \* ticks since AgentRecord.last_seen
    count,        \* AgentRecord._offline_count
    backlog,      \* None, or ticks since a report of a full queue
    nextSerial,   \* _next_serial
    saved,        \* the records in the bucket aim-kv-registry
    puts,         \* puts on their way, with the callback that awaits each
    hung,         \* puts that get no answer, awaited until they time out
    todo,         \* the agents the monitor's pass has still to look at
    pass,         \* "idle", "due", "runs" or "saves": the monitor
    uptime,       \* ticks since _startup_ts
    faults,       \* counter for the bound
    used,         \* history: numbers whose registration was confirmed
    given,        \* history: the number an anonymous agent was told
    silent,       \* history: ticks since the agent was last heard
    forgot,       \* history: the service has restarted since then
    lost,         \* history: numbers with a put that got no answer
    announced,    \* history: the last alert about an agent
    belated       \* history: agents whose last alert came after a time-out

records == <<known, status, gap, count, backlog, nextSerial>>
monitor == <<todo, pass, uptime>>
alerts == <<announced, belated>>
history == <<used, given, silent, forgot, lost, alerts>>
vars == <<records, saved, puts, hung, monitor, faults, history>>

Upto(n, max) == IF n >= max THEN max ELSE n + 1

(* The record as asdict writes it; the status is left out, for loading     *)
(* writes "online" over it.                                                *)
Snapshot(a) == [count |-> count[a], gap |-> gap[a], backlog |-> backlog[a]]

(* A record as it is created, and what stands for an agent without one. *)
Blank == [count |-> 0, gap |-> 0, backlog |-> None]

(* The callback by has issued a put of record r for a and awaits it. *)
Put(by, a, r, told, alert) ==
    /\ puts' = Append(puts, [by |-> by, id |-> a, rec |-> r, told |-> told,
                             alert |-> alert])
    /\ UNCHANGED hung

(* The puts that callbacks await. *)
Awaited == {puts[i] : i \in DOMAIN puts} \union hung

(* The callback of a subject has no message under way. *)
Ready(by) == \A p \in Awaited : p.by # by

(* The monitor awaits something, so other tasks may run. *)
Suspended == pass # "runs"

Init ==
    /\ known = {} /\ nextSerial = 0
    /\ status = [a \in Ids |-> "online"]
    /\ gap = [a \in Ids |-> 0] /\ count = [a \in Ids |-> 0]
    /\ backlog = [a \in Ids |-> None]
    /\ saved = [a \in Ids |-> None]
    /\ puts = <<>> /\ hung = {}
    /\ todo = {} /\ pass = "idle" /\ uptime = 0
    /\ faults = 0
    /\ used = {} /\ given = [w \in Anons |-> None]
    /\ silent = [a \in Ids |-> 0] /\ forgot = [a \in Ids |-> FALSE]
    /\ lost = {} /\ announced = [a \in Ids |-> "none"] /\ belated = {}

-----------------------------------------------------------------------------
(* What is heard of an agent: its record is fresh and online. *)
Heard(a) ==
    /\ gap' = [gap EXCEPT ![a] = 0]
    /\ status' = [status EXCEPT ![a] = "online"]
    /\ silent' = [silent EXCEPT ![a] = 0]
    /\ forgot' = [forgot EXCEPT ![a] = FALSE]

RegisterKnown(a) ==
    /\ Suspended /\ Ready("register")
    /\ a \in known \cap (Named \union used)
    /\ Heard(a)
    /\ Put("register", a, [Snapshot(a) EXCEPT !.gap = 0], None,
           IF status[a] = "online" THEN "none" ELSE "online")
    /\ UNCHANGED <<known, count, backlog, nextSerial, saved, monitor, faults,
                   used, given, lost, alerts>>

(* Fault: the registration is confirmed before its put is answered. *)
CreateConfirmed(a, told) ==
    /\ known' = known \union {a}
    /\ Heard(a)
    /\ count' = [count EXCEPT ![a] = 0]
    /\ backlog' = [backlog EXCEPT ![a] = None]
    /\ Put("register", a, Blank, told, "none")
    /\ used' = used \union {a}
    /\ UNCHANGED <<saved, monitor, faults, given, lost, alerts>>

(* A record is created, over an existing one if there is one. *)
Create(a, told) ==
    /\ known' = known \union {a}
    /\ Heard(a)
    /\ count' = [count EXCEPT ![a] = 0]
    /\ backlog' = [backlog EXCEPT ![a] = None]
    /\ Put("register", a, Blank, told, "none")
    /\ UNCHANGED <<saved, monitor, faults, used, given, lost, alerts>>

RegisterByNumber(a) ==
    /\ Suspended /\ Ready("register")
    /\ a \in Named \ known
    /\ Create(a, None) /\ UNCHANGED nextSerial

(* _alloc_serial does not look whether the next number is in use. *)
RegisterAnonymous(w) ==
    /\ Suspended /\ Ready("register")
    /\ given[w] = None /\ nextSerial < MaxId
    /\ nextSerial' = nextSerial + 1
    /\ Create(nextSerial + 1, w)

Alert(a, event) ==
    /\ announced' = [announced EXCEPT ![a] = event]
    /\ belated' = belated \ {a}

Heartbeat(a) ==
    /\ Suspended
    /\ a \in known \cap used
    /\ Heard(a)
    /\ IF status[a] = "online" THEN UNCHANGED alerts ELSE Alert(a, "online")
    /\ UNCHANGED <<known, count, backlog, nextSerial, saved, puts, hung,
                   monitor, faults, used, given, lost>>

(* A report tells the length of the queue.  It does not count as a sign of *)
(* life, and only an empty queue ends "stalled".                           *)
HealthReport(a, size) ==
    /\ Suspended /\ Ready("report")
    /\ a \in known \cap used \cap Reporters
    /\ backlog' = [backlog EXCEPT ![a] = IF size = "full" THEN 0 ELSE None]
    /\ \/ /\ size = "empty" /\ status[a] = "stalled"
          /\ status' = [status EXCEPT ![a] = "online"]
          /\ Put("report", a, [Snapshot(a) EXCEPT !.backlog = None], None, "online")
       \/ /\ size # "empty" \/ status[a] # "stalled"
          /\ UNCHANGED <<status, puts, hung>>
    /\ UNCHANGED <<known, gap, count, nextSerial, saved, monitor, faults, history>>

-----------------------------------------------------------------------------
(* The callback that awaited put p goes on.  A failure is only logged      *)
(* (_save_to_kv), so all that follows the put happens too.                 *)
Resume(p) ==
    /\ used' = IF p.by = "register" THEN used \union {p.id} ELSE used
    /\ given' = IF p.told = None THEN given ELSE [given EXCEPT ![p.told] = p.id]
    /\ pass' = IF p.by = "monitor" THEN "runs" ELSE pass
    /\ UNCHANGED <<records, todo, uptime, silent, forgot>>

Save(p) == saved' = [saved EXCEPT ![p.id] = p.rec]

PutLands ==
    /\ Suspended /\ puts # <<>>
    /\ puts' = Tail(puts) /\ Save(Head(puts)) /\ Resume(Head(puts))
    /\ IF Head(puts).alert = "none" THEN UNCHANGED alerts
       ELSE Alert(Head(puts).id, Head(puts).alert)
    /\ UNCHANGED <<hung, faults, lost>>

(* The put is lost, or it is stored and its answer is lost. *)
PutHangs ==
    /\ Suspended /\ puts # <<>> /\ faults < MaxFaults
    /\ faults' = faults + 1
    /\ puts' = Tail(puts) /\ hung' = hung \union {Head(puts)}
    /\ Save(Head(puts)) \/ UNCHANGED saved
    /\ lost' = lost \union {Head(puts).id}
    /\ UNCHANGED <<records, monitor, used, given, silent, forgot, alerts>>

(* The alert of a callback other than the monitor may be out of date when  *)
(* its put times out.                                                      *)
PutTimesOut(p) ==
    /\ Suspended /\ p \in hung
    /\ hung' = hung \ {p} /\ Resume(p)
    /\ IF p.alert = "none" THEN UNCHANGED alerts
       ELSE /\ announced' = [announced EXCEPT ![p.id] = p.alert]
            /\ belated' = IF p.by = "monitor" THEN belated \ {p.id}
                          ELSE belated \union {p.id}
    /\ UNCHANGED <<puts, saved, faults, lost>>

-----------------------------------------------------------------------------
(* What the registry answers: _handle_lookup and _handle_list. *)
Lookup(a) == IF a \in known THEN status[a] ELSE "not_found"

List == [a \in known |-> status[a]]

-----------------------------------------------------------------------------
(* The health monitor, one pass per tick. *)
StartPass ==
    /\ pass = "due"
    /\ pass' = "runs" /\ todo' = known
    /\ UNCHANGED <<records, saved, puts, hung, uptime, faults, history>>

(* Fault: only agents that are online are looked at. *)
OverdueOnline(a) == status[a] = "online" /\ gap[a] > Timeout

Overdue(a) == status[a] \in {"online", "stalled"} /\ gap[a] > Timeout

(* Fault: a registry that has just started trusts what it loaded. *)
NoGrace == FALSE

InGrace == uptime < Grace

(* The offline periods of the agent, this one included, and its record. *)
Counted(a) == count[a] + 1

OfflineRecord(a) == [Snapshot(a) EXCEPT !.count = Counted(a)]

MarkOffline(a) ==
    /\ pass = "runs" /\ a \in todo
    /\ Overdue(a) /\ ~InGrace /\ count[a] < MaxCount
    /\ status' = [status EXCEPT ![a] = "offline"]
    /\ count' = [count EXCEPT ![a] = Counted(a)]
    /\ todo' = todo \ {a} /\ pass' = "saves"
    /\ Put("monitor", a, OfflineRecord(a), None, "offline")
    /\ UNCHANGED <<known, gap, backlog, nextSerial, saved, uptime, faults, history>>

(* backlog is the age of the last report, if that reported a full queue. *)
Stuck(a) == status[a] = "online" /\ backlog[a] # None /\ backlog[a] > StalledTime

(* Fault: nobody is told of a stalled agent. *)
MarkStalledQuietly(a) ==
    /\ pass = "runs" /\ a \in todo
    /\ ~Overdue(a) /\ Stuck(a)
    /\ status' = [status EXCEPT ![a] = "stalled"]
    /\ todo' = todo \ {a} /\ pass' = "saves"
    /\ Put("monitor", a, Snapshot(a), None, "none")
    /\ UNCHANGED <<known, gap, count, backlog, nextSerial, saved, uptime,
                   faults, history>>

MarkStalled(a) ==
    /\ pass = "runs" /\ a \in todo
    /\ ~Overdue(a) /\ Stuck(a)
    /\ status' = [status EXCEPT ![a] = "stalled"]
    /\ todo' = todo \ {a} /\ pass' = "saves"
    /\ Put("monitor", a, Snapshot(a), None, "stalled")
    /\ UNCHANGED <<known, gap, count, backlog, nextSerial, saved, uptime,
                   faults, history>>

(* The agents a pass leaves alone are looked at without a pause, in any    *)
(* order among the others.                                                 *)
Untouched(a) ==
    IF Overdue(a) THEN InGrace \/ count[a] >= MaxCount ELSE ~Stuck(a)

EndPass ==
    /\ pass = "runs" /\ \A a \in todo : Untouched(a)
    /\ pass' = "idle" /\ todo' = {}
    /\ UNCHANGED <<records, saved, puts, hung, uptime, faults, history>>

Older(n) == IF n = None THEN None ELSE Upto(n, StalledTime + 1)

Tick ==
    /\ pass = "idle" /\ puts = <<>> /\ hung = {}
    /\ gap' = [a \in Ids |-> Upto(gap[a], Timeout + 1)]
    /\ backlog' = [a \in Ids |-> Older(backlog[a])]
    /\ saved' = [a \in Ids |-> IF saved[a] = None THEN None
                               ELSE [saved[a] EXCEPT !.gap = Upto(@, Timeout + 1),
                                                     !.backlog = Older(@)]]
    /\ silent' = [a \in Ids |-> Upto(silent[a], Timeout + 1)]
    /\ uptime' = Upto(uptime, Grace)
    /\ pass' = "due"
    /\ UNCHANGED <<known, status, count, nextSerial, puts, hung, todo, faults,
                   used, given, forgot, lost, alerts>>

-----------------------------------------------------------------------------
(* _load_from_kv: every saved record, as online; the counter goes on from  *)
(* the largest number.                                                     *)
Loaded == {a \in Ids : saved[a] # None}

(* Fault: the counter starts afresh. *)
StartAfresh(S) == 0

Largest(S) == IF S = {} THEN 0 ELSE CHOOSE a \in S : \A b \in S : b <= a

Entry(a) == IF saved[a] = None THEN Blank ELSE saved[a]

Restart ==
    /\ faults < MaxFaults
    /\ faults' = faults + 1
    /\ known' = Loaded /\ nextSerial' = Largest(Loaded)
    /\ status' = [a \in Ids |-> "online"]
    /\ gap' = [a \in Ids |-> Entry(a).gap]
    /\ count' = [a \in Ids |-> Entry(a).count]
    /\ backlog' = [a \in Ids |-> Entry(a).backlog]
    /\ puts' = <<>> /\ hung' = {} /\ todo' = {} /\ pass' = "idle" /\ uptime' = 0
    /\ forgot' = [a \in Ids |-> TRUE]
    /\ UNCHANGED <<saved, used, given, silent, lost, alerts>>

Serve ==
    \/ \E a \in Ids : \/ RegisterKnown(a) \/ RegisterByNumber(a) \/ Heartbeat(a)
                      \/ \E size \in {"empty", "some", "full"} : HealthReport(a, size)
    \/ \E w \in Anons : RegisterAnonymous(w)

Answered == PutLands \/ PutHangs

TimesOut == \E p \in hung : PutTimesOut(p)

Work == Answered \/ TimesOut

Watch == StartPass \/ EndPass \/ \E a \in Ids : MarkOffline(a) \/ MarkStalled(a)

Next == Serve \/ Work \/ Watch \/ Tick \/ Restart

Spec == Init /\ [][Next]_vars

(* The event loop runs what is ready, a put is answered or times out, and  *)
(* time passes.                                                            *)
FairSpec ==
    /\ Spec
    /\ WF_vars(Answered) /\ WF_vars(TimesOut) /\ WF_vars(Watch) /\ SF_vars(Tick)

-----------------------------------------------------------------------------
PutOnTheWay ==
    [by : {"register", "report", "monitor"}, id : Ids, rec : Record,
     told : Anons \union {None}, alert : {"none", "online", "offline", "stalled"}]

TypeOK ==
    /\ known \subseteq Ids /\ nextSerial \in 0 .. MaxId
    /\ status \in [Ids -> {"online", "offline", "stalled"}]
    /\ gap \in [Ids -> 0 .. Timeout + 1]
    /\ count \in [Ids -> 0 .. MaxCount]
    /\ backlog \in [Ids -> (0 .. StalledTime + 1) \union {None}]
    /\ saved \in [Ids -> Record \union {None}]
    /\ puts \in Seq(PutOnTheWay) /\ hung \subseteq PutOnTheWay
    /\ todo \subseteq Ids /\ pass \in {"idle", "due", "runs", "saves"}
    /\ uptime \in 0 .. Grace /\ faults \in 0 .. MaxFaults
    /\ used \subseteq Ids /\ lost \subseteq Ids
    /\ given \in [Anons -> Ids \union {None}]
    /\ silent \in [Ids -> 0 .. Timeout + 1] /\ forgot \in [Ids -> BOOLEAN]
    /\ announced \in [Ids -> {"none", "online", "offline", "stalled"}]
    /\ belated \subseteq Ids

(* An agent whose registration was confirmed is found by lookup and list,  *)
(* after any crash too, unless a put for it got no answer: the service     *)
(* answers once its put is done.                                           *)
AnsweredIsFound ==
    \A a \in used \ lost : Lookup(a) # "not_found" /\ a \in DOMAIN List

(* No number is told to two agents that registered without one, whenever   *)
(* the service crashes in between, unless a put for it got no answer.      *)
NumberGivenOnce ==
    \A v, w \in Anons : v # w /\ given[v] # None /\ given[v] = given[w]
                        => given[v] \in lost

(* An agent is called offline only if nothing was heard of it for the      *)
(* timeout, or for the grace period if the registry forgot in a restart    *)
(* when it heard it last: monitor, heartbeats and loading write one record.*)
OfflineMeansSilent ==
    \A a \in Ids : status[a] = "offline" =>
        silent[a] > Timeout \/ (forgot[a] /\ silent[a] >= Grace)

(* Whoever watches the alerts knows which agents are down: the last alert  *)
(* about an agent that is offline or stalled said so, once the monitor's   *)
(* put is done, whatever callbacks announced meanwhile.  The exception:    *)
(* the callback of a registration or report whose put timed out announced  *)
(* "online" after the monitor found the agent down.                        *)
DownIsAnnounced ==
    \A a \in known \ belated : status[a] # "online" =>
        \/ announced[a] = status[a]
        \/ \E p \in Awaited : p.by = "monitor" /\ p.id = a

(* An agent of which nothing is heard any more is called offline in the    *)
(* end, whatever the registry does meanwhile, as often as it is counted.   *)
SilentGoesOffline ==
    \A a \in Ids : (a \in known /\ count[a] < MaxCount)
        ~> (status[a] = "offline" \/ silent[a] = 0 \/ a \notin known)
=============================================================================
