# AIM: a verification development

AIM connects language-model agents over NATS. Every agent runs one *client*
(`aim-client/main.py`), which receives direct and group messages, keeps the
direct ones in a queue, and calls a shell *adapter* that talks to the agent's
runtime. Two services, the registry and the group admission, keep the directory
of agents and groups in a NATS KV store. This directory models the parts of the
system in which order, failure and timing decide, checks the models with TLC and
proves their main invariants with TLAPS. `PROJECT.json` is the index: every
definition with the lines it models, every run, every theorem, every finding.

Paths below are relative to `src/`.

## 1. Inventory

| Component | State | Operations | Hard because |
|---|---|---|---|
| Message queue (`aim_client/queue.py`) | pending deque, one slot, dead deque | enqueue, dequeue, ack, nack, purge_dead | retries go back to the head, a full queue drops from the head |
| Persistence (`aim_client/queue_persist.py`) | write tasks, write queue, JSONL file | write_enqueue/ack/nack, writer loop, compaction, restore, stop | three stages between an operation and the disk, compaction rewrites in the middle, crash, failing writes |
| Scheduler (`aim_client/scheduler.py`, `types.py`) | IDLE/BUSY/OFFLINE, level L0/L1/L2, counters | update_state and seven on_… calls | four parties write one state |
| Circuit breaker (`aim_client/circuit_breaker.py`) | CLOSED/OPEN/HALF_OPEN, time-outs, opening time | on_timeout, on_success, on_empty_response, is_open | group calls report to it without asking it |
| Dispatch (`aim-client/main.py` 560–758, 844–894, 1126–1200, 1273–1471) | event, in-flight and dispatched ids, recovery counter, history of exits | receiver, loop, stall watchdog, health loop | tasks interleave at every await; nine exits of the loop must settle the same five things |
| Group messages (`main.py` 1391–1521) | hot window: clock, counter, exhaustion, grace; reply cooldown | mention filter, direct route | agents hear each other; a task per message |
| Single instance (`main.py` 109–155) | lock file: path, inode, PID, flock | acquire, recover, release | processes interleave between system calls |
| Registry (`aim-client/registry.py`) | agents, serial numbers, last sign of life, KV store | register, heartbeat, health report, monitor, restart | callbacks and the monitor await a put in the middle; a restart knows what the store knows |
| Group admission (`aim-client/group_admission.py`) | members, join requests, announcement, KV store | create, join, approve, reject, leave, announce | a handler saves, notifies and answers one after the other while those of other subjects run |
| Group manager (`aim-client/modules/group_manager.py`), client notification (`main.py` 1556–1617) | requests under way; subscriptions to groups | command, request with repetition; start, notice | a request that timed out may have been carried out; notices overtake the store |
| NATS SDK (`aim_nats_sdk.py`, three copies) | pin: marks in memory and in a file; retries; subscriptions, consumer | send, publish, subscribe, consume, acknowledge, emit_obs | redelivery, lost acknowledgements, buffering while the connection is down, two paths to one handler |
| Hot feed (`aim_client/hot_feed.py`) | cursor and its file, known ids, hits per sender, policy | check, mark_read, get_recent_messages, update_policy | one cursor for several sources, an unacknowledged consumer |
| Watchers (`src/aim-watch.py`, `aim_send_nats.py`) | events shown, subscription | replay, subscribe, display in three modes | every event comes twice, a replay brings it again |
| Other: health probe, group policy, sessions, context, security, archive, issue tools, flood detector, adapters, scripts | little or none | text, files, shell | not concurrent |

How they interact. The NATS callbacks `_on_dm` and `_on_grp` run
`_handle_message`; a direct message is enqueued and sets `_dispatch_event`. The
dispatch loop waits for that event or for the stall time-out, and dispatches
while the scheduler is IDLE and the breaker not OPEN. The health loop writes the
scheduler and may set the event. A group message bypasses queue, scheduler and
breaker: it starts a task that calls the adapter and reports the result to the
breaker. Every queue operation schedules a write task of the persistence. All of
this shares one asyncio event loop, so a step is what runs between two awaits.
The services are processes of their own: a request reaches them over NATS, whose
client runs the callback of one subject for one message at a time and those of
different subjects side by side. What a process publishes, puts and answers
travels in order on its one connection. A client hears of its groups by notices
of the admission service and by the KV store; it tells the messages it already
has by its pin, the stream tells them by the message id, where the publication carries
one. A stream takes in whatever is published on its subjects, with an id or without.

What makes each correct: the queue keeps the order and its bound; the
persistence neither forgets nor resurrects; the scheduler's level follows the
health and nothing else; the breaker keeps its cooldown; the dispatch answers
every message at most once, never stands still while it could work and loses
nothing silently; the hot window lets a bounded number of messages through and
ends a chat of agents; the lock admits one client; the registry gives a number
to one agent, finds whom it confirmed and calls offline only who is silent; the
admission service keeps whom it told that it is in, and its members hear the
group and its announcement; the SDK stores a message that carries an id once, hands
it on once and acknowledges nothing unseen; the hot feed reports a message again only
where `get_recent` or a failed save brings it back; the watcher shows what it heard,
once.

## 2. Modules

| Module | Models | Composed of |
|---|---|---|
| `MessageQueue` | the queue, one operator per method | |
| `QueueSession` | one lifetime of the queue under every legal sequence of calls | `MessageQueue` |
| `DurableQueue` | abstract: what a durable queue promises | |
| `QueuePersist` | queue, write tasks, writer, file, compaction, crash, restart | `MessageQueue`, refines `DurableQueue` |
| `Scheduler` | scheduler and degradation rules as functions of a record | |
| `DispatchBreaker` | the breaker as functions of a record | |
| `DispatchGates` | both gates and everyone who moves them | `Scheduler`, `DispatchBreaker` |
| `AimClient` | the dispatch of direct messages | `MessageQueue`, `Scheduler`, `DispatchBreaker` |
| `GroupWindow` | the hot window as functions of a record | |
| `GroupChat` | agents in a group that answer each other | `GroupWindow` |
| `SingleInstance` | the lock file, system call by system call | |
| `Registry` | the registry service: callbacks, monitor, puts, restart | |
| `GroupAdmission` | the admission service of one group and its connection | |
| `Groups` | the group managers and clients around it | `GroupAdmission` |
| `HotFeed` | the hot feed of one agent over the stream | |
| `Pin` | the pin, its memory and its file | |
| `Receiving` | subscription, durable consumer, handler, restart, in both orders of marking | `Pin` |
| `Sending` | calls with retries over a connection that breaks | |
| `Observing` | status events from `emit_obs` to the display of aim-watch | |
| `OperatorLemmas` | lemmas on the functional modules | |
| `QueueProofs` | theorems on `QueueSession` and `QueuePersist` | |
| `GroupChatProofs`, `SdkProofs` | theorems on `GroupChat` and `HotFeed`; on `Receiving`, `Sending` and `Observing` | |
| `DispatchGatesProofs`, `AimClientProofs`, `RegistryProofs`, `GroupsProofs` | theorems on the module of that name | |
| `MC…` | what TLC needs beyond a `.cfg`: sets of records, symmetry; `MCSdk` puts `Sending` and `Observing`, which share nothing, into one run | |

**From code to model.** Methods of plain objects (queue, scheduler, breaker,
window) are operators; actions are the code between two awaits, or a whole
callback. `pc` in `AimClient` names the await the loop stands at (`wait`,
`sleep`, `adapter`, `trim`, `emit`, `send`, `resend`) and the two points `check`
and `inner` between which nothing else can run: the other tasks require
`Suspended`. A message is a model value; the adapter's answer is one of the exits
that the code tells apart (`AllExits`). Fields that only serve logging or metrics
are left out. Time is counted in ticks; clocks stop at the value above which the
code no longer distinguishes them. Where the code compares two independently
configured times (the queue's `processing_timeout` and the adapter's time-out),
the outcome of the comparison is nondeterministic (`late` in `Nack`).

In the services an action is a handler up to its next await of the store. `Registry`
keeps the puts under way in `puts`, those that get no answer in `hung`, from which each
times out on its own, and what follows each of them (answer, alert) in the put itself;
`pass` and `todo` are the monitor's copy of the agents. In `GroupAdmission` everything
the service issues goes through `out`, in the order of the code: the put first where it
is awaited before the answer, the notice first where it is not (`Approve`). A record is
written as text and loaded as text (`Text`, `Written`, `Loaded`): the status of a join
request is an enumeration until a restart and text after it. A put without an answer may
be stored or not, a get without one is waited for (stage `unread`) while the handlers of
other subjects run. `Groups` adds the requests of the group managers, numbered by `turn`
so that a late answer is not taken for one to the repetition, and the subscriptions. In
`Pin` a mark is its age in ticks; `cache`, `persisted` and `db` are the three places the
code looks at, in its order. `Receiving` chooses in `markFirst` between the copies of
the SDK: `aim_nats_sdk.py` and the one in `aim-client/` mark before the handler, the one
in `src/` after it. `Sending` lets a copy of a message fly per attempt, and hold still
while the connection is down; a copy reaches the stream, the peer, both or neither, and
either may answer it. In `Observing` the stream takes in all that is published, the
plain copies and the transient events too. A text is the set of triggers it fires in
`HotFeed`, and what `check()` has fetched is a set that it takes in the order of the
stream; a hit leaves the count of its sender at the tick in which it leaves the window.
The loops of the persistence over the lines of the file are recursive functions
(`Parsed`, `LastOps`, `Enqueues`).

**History variables** (`fate`, `replies`, `fatal`, `acked`, `settled`, `dropped`,
`lastReport`, `failures`, `openFor`, `routed`, `missed`, `reopened`, `debt`, `given`,
`silent`, `lost`, `belated`, `granted`, `early`, `untold`, `shown`, `unsaved`, `begun`,
`accepted`, `overdue`, `printed`, `spoiled`, `furthest`, `found`, …)
record what happened and guard nothing. Definitions whose comment begins
"Fault" are plausible mistakes in the code, used nowhere in the specification:
replacing the definition after them by one of them must break the property
`PROJECT.json` lists under "mutants".

## 3. Runs

Twelve runs: eleven that pass, one that shows a disagreement between the code and
what it says of itself. Further disagreements are properties of the modules that
TLC refutes; section 5 gives the constants.

| Run | Shows | Bounds |
|---|---|---|
| `queue_session` | order of arrival, backlog ≤ max(capacity, restored)+1 | capacity 2, 4 arrivals, up to 3 restored: a restart may overfill the queue and a nack exceed it |
| `queue_persist` | NothingForgotten, NothingResurrected, OrderSurvives, damage per failure | 4 messages, capacity 2, 1 failing write (nothing or a partial line), 3 lifetimes, compaction from 4 lines (ratio rule from 3), file size arbitrary |
| `queue_faults` | refinement of `DurableQueue`, an acknowledgement becomes durable | 2 messages that may arrive again, capacity 1, 1 failing write, 2 lifetimes, compaction from 3 lines |
| `gates` | L2 ⇔ last conclusive report failed, no flapping, first cooldown, OPEN ends | trigger 3 and back-off up to 4 as in the code, breaker threshold 2, cooldown 2, one group call beside the loop |
| `client` | at most one reply, slot and loop agree, no lost wakeup, restart, every message settles | 2 messages (one operational), capacity 1, all eight exits, one group call, one restart |
| `group_chat` | at most 3 and at least 2 unasked messages per mention; a reply per cooldown that passes, one more and one per task; chat ends | 2 agents, 2 tasks each, window and grace 2 ticks, cooldown 1, one message of a person with any mentions |
| `registry` | a confirmed agent is found, a number is given once, offline means silent and is announced, silence is noticed | 2 agents without and 1 with a number, 2 numbers, time-out 1 tick, grace 2, stalled at once, 1 counted offline period, 1 restart or put without an answer |
| `groups` | who was told it is in stays in, memory and store agree at rest, announcements reach every member, members hear the group | owner and applicant, 7 kinds of command, 3 of them given, 2 attempts each, 1 time-out, 1 start of a client, 1 crash, put or get without an answer (7.2 million states) |
| `hot_feed` | what may be reported twice and why, silence budget, what the cursor passes over | 3 messages of 3 kinds, batch 2, recent 1, 2 known ids cut to 1, 2 unacknowledged deliveries, window of 2 ticks, 2 failing fetches, writes or restarts (13.4 million states) |
| `receiving` | handled once, acknowledged means handled, handled in the end | one direct and one group message, memory for 1 mark, time to live 2, 3 deliveries, 2 faults |
| `sdk` | stored once and handled once by the peer, a call ends; an event is shown once, what was heard is shown | one call of any kind, 3 retries with delays 1, 2, 3, 3 breaks of any length, those beyond 2 ticks noted; 3 events (one transient), all stored, rate 2 in 2 ticks, page 2, 2 seen cut to 1, 2 faults |
| `instance_lock` | finding: a client starts beside one that it finds running | 2 processes, 3 inodes |

**Why the bounds are enough.** In `client` a capacity of one makes every second
arrival a drop, a threshold of one opens the breaker by one time-out, and a
cooldown of two ticks against a stall time-out of none lets the watchdog act
while the breaker is OPEN; one restart brings back a message while the same
message is delivered again, which is what the two sets of ids are for. More
messages add queue positions, and positions are the subject of `queue_session`
and `queue_persist`. In `queue_persist` the thresholds of compaction are scaled so
that all three rules fire within a lifetime. In `gates` the counters are those of
the code; `CountCap` is 4 because the interval is constant from there on. In
`group_chat` a window of two ticks separates the cases inside, at the edge and
outside; two tasks race for one cooldown. `MaxPrompts` bounds the people, not
the agents: their replies are unbounded, and the run shows that they stop.

In `registry` two agents ask for a number while one comes with its own, which is the
least that lets numbers collide; a time-out of one tick against a grace of two separates
"silent" from "the registry cannot know" (the code has about four ticks against two; the
theorems hold for both), and one fault is a crash at any await or a put that gets no
answer and times out after puts issued later. In `groups` three commands, one of them
repeated, let an approval, a leave and a second request overlap at every await; each
property breaks under its mutant within them, and a fourth is more than a run of minutes
bears. In `hot_feed` a batch of two over three messages of both kinds makes the shared
cursor pass one by. In `receiving` a memory of one place makes every second message
evict the first; three deliveries are one more than the faults, so that a redelivery can
make up for a failing handler. In `sdk` the last attempt of a call is made 9 ticks after
the first (four attempts that time out after 1 tick, delays of 1, 2 and 3); held back by
an outage of up to 2, all fall within the 12 ticks in which an id is known. An outage
may last longer: the copies it keeps for more than `Outage` are noted in `overdue`,
which the property excepts. In the code the last attempt is made after about 59 s
against 120 s, which leaves a minute for an outage; finding 13 says what a longer one
does.

**Deadlock.** `CHECK_DEADLOCK FALSE` is set where the model may come to rest: the
bounded arrivals or lifetimes are used up. `gates` never rests and is checked for
deadlock.

**Fairness** and why the code justifies it. `AimClient`: weak fairness of
`LoopStep` (asyncio runs a task that is ready, every await ends: `wait_for`
around the adapter and around the event, a time-out in the SDK's publications)
and strong fairness of `Tick`, which is only possible while the loop is
suspended (time passes however often the loop turns). `DispatchGates`: weak
fairness of `Tick`, of `Dispatch` (the loop looks again every 5 s, line 607) and
of the end of the loop's call. `QueuePersist`: weak fairness of the write tasks
and of the writer. `GroupChat`: weak fairness of the delivery and of each task;
none of `Tick`, since a chat must also end when time passes slowly. `Registry`: weak
fairness of the answers to puts and of the time-outs of those without one (`kv.put` waits
5 s), each by itself, and of the monitor, which is a task that is ready; strong fairness
of `Tick`, which only a put under way delays. `Receiving`: weak fairness of each delivery
(JetStream delivers what is not acknowledged) and of each loop's step; none of the failing
of handlers. `Sending`: weak fairness of the call's steps, of arrival over a connection
that is up, and of time; no connection need come back. `Observing`:
weak fairness of the subscription and of the display. `Groups` and `HotFeed` are
checked for safety only.
No fairness is assumed of arrivals, requests, health reports, group calls, people, faults,
crashes or restarts.

## 4. Theorems

All theorems hold for every value of the constants allowed by the named
assumptions (`CapacityAssumption`, `SessionAssumption`, `PersistAssumption`,
`BreakerAssumption`, `SchedulerAssumption`, `GatesAssumption`, `ClientAssumption`,
`WindowAssumption`, `ChatAssumption`, `HotFeedAssumption`, `RegistryAssumption`,
`AdmissionAssumption`, `ManagerAssumption`, `PinAssumption`, `ReceivingAssumption`,
`SendingAssumption`, `ObservingAssumption`): capacities, thresholds and periods are
naturals, positive where the code divides or waits by them, the special values are
no messages or agents. TLC evaluates them in the passing runs. Three theorems have a
hypothesis besides, named below: `OrderIsKept`, `AcceptedJustOnce` and
`SendingTypeCorrect`.

* `QueueProofs`, one lifetime of the queue: `SessionTypeCorrect`, `FirstInFirstOut`,
  `Bounded`, `NoneLost`. The order is inductive only together with "everything pending
  is at most `arrived`" and the slot being older than the deque, for nack prepends what
  dequeue took; the bound needs that the slot and the deque together were within it
  before the nack. `NoneLost` says that what arrived is in exactly one of six places.
  `InOnePlace` speaks of them as sets that share nothing; a head that is taken away
  leaves the set of the pending only because the deque ascends (`Split`), and the dead
  letters are distinct.
* `QueueProofs`, the persistence: `PersistTypeCorrect`, `NothingIsForgotten`,
  `NothingIsResurrected`, `DamageBounded`, `DurableQueueImplemented`, `OrderIsKept`.
  - `PersistInv` speaks of `Log`, the file, the write queue and the tasks as one
    sequence. `Remembered`: what is in memory is alive in it, unless it is excused;
    `Explained`: what is alive in it is in memory, or excused; `NothingPending`: before
    the persistence is attached nothing is on its way, so that a restored message is
    in the file itself; `SpoiledByFaults`: every spoiled message, and a cut line
    waiting to spoil one, goes back to a failure of its own, which gives the bound on
    the damage.
  - The restore is a loop over the lines. Its recursion equations are not assumed:
    `LoopComputes` shows by induction over the length of a sequence, written as the
    argument of the shortest counterexample, that the function a loop computes exists,
    and the lemmas after it say how one more entry changes the result. A file and its
    compacted form restore to the same messages (`CompactAlive`), whatever is appended.
  - `DurableQueueImplemented` maps what the file restores to the durable messages, the
    write queue and the tasks to the operations waiting, and goes through `Next` action
    by action: every step is one of the abstract queue, or a stutter.
  - `OrderIsKept` has the hypothesis `Redelivery = FALSE`: an id that arrives again
    takes the place of its first entry, and `OrderSurvives` is then false. `OrderInv`
    says that no id is enqueued after another operation on it and that the enqueue
    entries stand in the order of the queue; losing a suffix, tearing a line and
    compacting leave a log that embeds in the old one in the same order (`Embeds`,
    `Thinner`), and both survive that.
* `DispatchGatesProofs`: `TypeCorrect`, `StalledMeansFailed`, `LevelIsSteady`,
  `BackoffBounded`, `FirstCooldown`, `OpenIsRespected`. `FirstCooldownIsKept` is not
  inductive: a failed trial reopens the breaker without touching its clock. `Cooled`
  adds that a HALF_OPEN breaker has cooled down, so the reopened one has no cooldown
  left to keep, which is the very thing finding 5 is about. `LevelIsSteady`
  is an action property; it needs that L1 means that some retry was counted. The interval
  theorem follows from the count (`CountBounded`) and the monotony of `Backoff`.
* `AimClientProofs`: `TypeCorrect`, `OneReply`, `BusyOverMessage`,
  `NoWakeupIsLost`, `RestartBringsBack`, `SlotAgreesWithLoop`. One reply rests on:
  a message that has been answered is dispatched or is the one in the slot whose
  sending failed, and the loop takes up only messages that are neither in flight
  nor dispatched. No lost wakeup rests on: whenever the loop stands at `wait`
  without the event, either nothing can be dispatched or the slot is taken.
* `GroupChatProofs`, the hot window: `TypeCorrect`, `BudgetBounded`, `MentionIsHeard`,
  `RepliesBounded`. The invariant is an account per agent: messages routed since the
  last reopening, those left in the counter and the unused grace never exceed
  three; while the window lasts, routed and left are at least two. `Outcome` lists
  the five ways in which a message may change a window, `AdmitEffect` proves the
  list complete, and every later step works from the list. `RepliesBounded` is an account
  of time: what the published replies have not paid yet, and a cooldown for each reply that
  a task still holds (`Unsent`), is at most a cooldown per task and one more, less the time
  since the last mark.
* `GroupChatProofs`, the hot feed: `RepeatsOnlySo` (`Explains`: whatever was shown lies
  behind the saved cursor, unless `get_recent` brings it or the save of a cursor beyond
  it failed, and so does what a check has in its hands when it begins to look),
  `SilenceIsKept` (`LoudIsCounted`: what was let through is what DedupGuard has counted;
  `Older` drops and never adds), and `OnlyOtherKindHides`. For the last,
  `NothingSkipped` says that whatever the durable consumer or the cursor has passed was
  seen, is the agent's own, or lies before a message of the other kind. The proof showed
  that the cursor falls back when a crash or a failing write loses the file: what hid a
  message then lies beyond the cursor, so the property and the invariant speak of the
  furthest it ever was (`furthest`). `FeedTypeCorrect` needs that the hits of a sender
  stand oldest first (`InOrder`): only then are the ones that `Older` drops from the
  front those that are too old.
* `RegistryProofs`: `TypeCorrect`, `ConfirmedIsFound`, `NumbersDiffer`,
  `OfflineIsSilent`, `DownAnnounced`. `OneEach` says that a callback awaits one put
  at a time, be it on its way or without an answer, and that the monitor stands still for
  its own.
  `Found` relates what was confirmed to what is saved or on its way, `Numbered` the
  numbers told and under way to the counter, which a restart sets to the largest
  saved one; `Aged` says that the registry's clock of an agent is never behind the
  true silence unless a restart made it forget; `Told` that the monitor's alert under
  way announces the state its agent is in, or the agent has been heard since, and that a
  put which announces an agent as back is not followed by the opposite unnoticed. An alert
  issued when the put of a registration or a report times out is the exception
  (`belated`): puts issued later may have been answered before it.
* `SdkProofs`, receiving: `TypeCorrect`, `NothingAckedUnseen`, `NothingTwice`. `Handled`
  relates marks and tasks to what the handler was given. `Marked` is the heart: for
  as long as a message must not be handled again its mark is in memory, or its id
  among those known to be in the file, or in the file with the right age.
* `SdkProofs`, observing and sending: `PrintedOnce` and `AcceptedJustOnce`. The first
  rests on `PrintedIsKnown`: what is printed is among the seen events or was trimmed,
  however many copies the stream replays. The second speaks of the ends that tell copies
  apart: the stream, for what carries an id, and the pin of the peer. It is an account
  of time (`InTime`): each copy that is flying was published at a known time after the
  call began, so it arrives while the end that took the first one knows it, unless an
  outage kept it for longer than `Outage` (`overdue`). The hypothesis `Timely(Total)`
  names that account: `Total[a]` is the sum of time-outs and delays up to attempt `a`,
  and the largest of them and `Outage` stay within the window. It is where the relation
  between the retries and `duplicate_window` enters; finding 13 is what happens without
  it. The sum stands as a given function because no backend computes with powers of two.
  The run's instance has `Total[3] = 9`, `Outage = 2`, `Window = 12`.
* `SdkProofs`, their state: `ObservingTypeCorrect` (what the display remembers never
  outgrows its capacity) and `SendingTypeCorrect`, which needs that a call sleeps only
  before a retry that is left (`RetryLeft`). The hypothesis of the latter is that powers
  of two are natural numbers, which no backend knows.
* `GroupsProofs`: `TypeCorrect`, `AnsweredStaysIn`, `QuietIsStored`, `AnnouncedToMembers`,
  `MembersHear`.
  - `Awaits` says that a handler has exactly one thing on its way, fitting its stage;
    it makes the order on the connection usable. `Chain` follows the records from the
    stored one over the puts on their way to the one in memory: once an agent is in
    one of them it is in all later ones, unless it left; `Enters` says that an answer
    that lets an agent in stands behind a put that names it. With them a crash, which
    goes back to the stored record, cannot undo an answer that has been received. Two
    exceptions are stated: a put without an answer (`lost`), and an `already_member`, which
    is answered from memory while the approval is not stored yet (`early`).
  - `Latest`: the last put on its way, or the stored record if there is none, is the
    one in memory as it would be written, with each status as text, except between
    an approval and its put.
  - `Reaches`: every member has been sent the announcement, or the push is on its way,
    or the handler that lets it in has yet to read it. A put of the record without an
    answer can bring back an older membership after a crash (`~lost`); an announcement
    that is stored without an answer is pushed to nobody, and a member for whom reading it
    got no answer is not sent it (`untold`, version by version).
  - `Hears`: the last notice on its way, or else the last in the client's inbox, or
    else its subscription, lets the member hear the group; and the record it would
    start from, as well as every put behind the approval, names it. `LeaveOn` and
    `LeaveFirst` settle a leave that overlaps the join after it: its put goes
    first.

Each invariant was first checked by TLC, the strengthenings as invariants of the
same instance. The type invariant of every module with a theorem is proved, and no run
repeats it. Proofs have one step per action; what several proofs need
about the functional modules is in `OperatorLemmas`, about one module in the lemmas
before the theorem they serve. `NoneLost`, `BackoffBounded`, `OpenIsRespected` and
`BusyOverMessage` prove properties that no run repeats either.

Only model-checked: the liveness properties (`EveryMessageSettles`,
`EventuallyDurable`, `OpenEnds`, `PromptChatEnds`, `SilentGoesOffline`,
`EventuallyHandled`, `CallEnds`, `HeardIsShown`), since liveness under fairness is out of
the prover's reach. Every invariant, every action property and the refinement that
the passing runs check is also proved. What the code violates (section 5) is refuted
by TLC, which needs one instance only.

## 5. Findings

The first is the violation run `instance_lock`. The next eight are properties that stay in
the modules and that TLC refutes with the constants given here; give them a `.cfg` to
see the trace.

1. `OneInstance` (`instance_lock`) — a process that is started while a client runs, whose
   PID is written, empties that PID with `open(…, "w")` before its `flock` is refused
   (`main.py:125`); the empty file counts as stale and is removed, and the process runs
   beside the client on a new one. Line 115 says that a living owner refuses the start.
   The property leaves aside processes that start at the same time.
2. `WatchdogHeals` (`AimClient`) — an exception of `send_dm` leaves the message in the slot
   (`main.py:751`); `dequeue` returns nothing from then on, also for the watchdog, which
   `main.py:561` says heals the loop. `MCAimClient` with `FairSpec`, `Msgs = {m1, m2}`,
   `Operational = {}`, `Exits = {"reply"}`, `SendMayFail = TRUE`.
3. `NothingLost` (`AimClient`) — after exit 2 or 4 the message goes back to the queue but
   stays in `_in_flight` (`main.py:698`) and is acknowledged unanswered as a duplicate
   (`types.py:19`: none is lost). As before, `Exits = {"reply", "exit4"}`.
4. `FatalStops` (`AimClient`) — "dispatch stopped for good" (`main.py:707`) lasts until
   the next healthy report or watchdog reset (`scheduler.py:205`). `Spec`,
   `Exits = {"reply", "exit3"}`. For 2 to 4: `Capacity`, `Threshold`, `Cooldown` 2,
   `Stall` 1, triggers 3, `MaxGroupCalls`, `MaxRestarts`, `CountCap` 0.
5. `EveryCooldownIsKept` (`DispatchGates`) — a failed trial returns to OPEN with the old
   opening time (`circuit_breaker.py:78`, against line 13): the next look finds it HALF_OPEN
   again. `MCDispatchGates` with `Spec` and the constants of the run.
6. `ChatEnds` (`GroupChat`) — the mention put in front of a late reply (`main.py:1504`)
   renews the sender's hot window, so two slow agents answer each other for ever,
   against lines 314 and 510. `MCGroupChat` with `FairSpec`, one slot,
   `GracePeriod = 3`.
7. `LeftMeansGone` (`Groups`) — an approval appends to the list of members whatever is in it
   (`group_admission.py:334`); sent again after a time-out it enters the agent twice, and
   a leave removes one entry (`list.remove`) and answers "left". `MCGroups` with
   `MaxRequests = 2`, `MaxTimeouts = 1`, `MaxStarts = 0`, `MaxFaults = 0`.
8. `NothingRepeated` (`HotFeed`) — after a restart `get_recent` reports the oldest group
   messages again, although the cursor is past them; `aim_client/HOTFEED.md:306` says that
   a restart repeats nothing. As an action property of `MCHotFeed` with the constants of
   the run.
9. `MembersListed` (`Groups`) — the status of a join request is saved as the text
   `JoinStatus.PENDING` (`group_admission.py:215`, `default=str`) and loaded as such, so
   `v.value` at line 403 raises and a request for the members is not answered. `MCGroups`
   with the constants of the run.

Seen while modelling the services and the SDK; the models show them as the exceptions
their properties name, or they were read beside the modelled code:

10. Hot feed: the cursor passes group messages that are older than a newer direct one, or
   beyond the first 20, unseen (the exception in `OnlyBehindOther`); the consumer of the
   groups starts at the oldest message each time; direct messages are never acknowledged,
   so the durable consumer stops at its limit of unacknowledged deliveries; the cursor
   is saved before the report is made; group overrides of the policy are never read;
   an update of the policy by another process is seen after a restart only;
   `get_recent_messages` moves the cursor; the known ids are cut in arbitrary order, so
   that `get_recent` may bring an old one again without a restart.
11. Receiving: a handler that fails after the mark is not helped by the redelivery, which
   is dropped as a duplicate (the exception in `EventuallyHandled`); the copy under `src/`
   marks last and hands the same message on twice when both paths bring it at once;
   `INSERT OR IGNORE` keeps the old time of a mark, so a message marked anew is forgotten by
   a restart.
12. Sending: the attempts of a request repeat one id, so the peer's pin drops the later
   ones and only the first copy that arrives can be answered by it, though its answer may
   have timed out. The stream takes in `aim.dm.>` (`aim-client/aim_nats_sdk.py:1362`) and so
   the requests too (1611): it stores every attempt, for none carries a `Nats-Msg-Id`, and
   its acknowledgement may be taken for the peer's answer. A call that reports failure
   may have been carried out.
13. An outage longer than the window of the stream minus the retries (the fifth retry
   comes about a minute after the first attempt, the window is 120 s) lets a buffered
   copy be stored or handled twice (the exception `overdue` in `AcceptedOnce`). The
   three copies of the SDK differ in `max_reconnect_attempts`: 5 in `aim-client/`,
   unlimited in the others, so there nothing bounds an outage.
14. aim-watch: the line mode prints only the first event of a message; the compact
   mode's count of parts is always 2; `--history` replays the oldest page and does not
   honour `--since`; what is emitted between the replay and the subscription is missed.
   The stream takes in `aim.obs.>`, so it holds the plain copies and the transient
   events as well and a replay brings both, although `aim-client/aim_nats_sdk.py:1718`
   wants the latter published plain and not kept.
15. Groups: `already_member` is answered from memory (`group_admission.py:294`) before the
   approval is saved (344), so a crash may undo it (the exception `early`); an announcement
   whose put is stored and times out (519) is in force and nobody is told (`untold`); a
   client that starts between an approval and its save, or whose notice comes before its
   own subscription to notices, does not hear the group until it starts again (the
   exceptions in `MemberHears`).
16. Registry: each put times out on its own, so a registration whose put is lost announces
   the agent as online (`registry.py:351`, 711) after the monitor has announced it as
   stalled (the exception `belated` in `DownIsAnnounced`).
17. Group chat: the cooldown is marked at `main.py:1494` and the reply is published at 1508,
   after an await, so two replies that passed a cooldown apart may be published back to
   back; `RepliesThrottled` bounds how many.

Seen while reading the client, without a model: a line cut short spoils the next one
(`queue_persist.py:85`, against line 4); messages between the subscription and
`init_persist` are not recorded (`main.py:795`, `825`); compaction would drop a
message whose last operation is a retry (`queue_persist.py:304`); `on_retry` ends L2
(`scheduler.py:186`); HALF_OPEN admits several trials when their exits report
nothing (`circuit_breaker.py:63`); the watchdog and `on_processing_done` end OFFLINE
(`main.py:593`); a failed message is acknowledged although the log says dead
letters (`main.py:714`); the watchdog discards messages while the breaker is OPEN
(`main.py:586`); dropped messages come back after a restart, since the drop is not
recorded; the recovery from exit 4 (`main.py:742`) cannot be reached; group messages
that carry a task end in an `UnboundLocalError` at line 1448; `AIMClient._my_msg_ids`
is never filled, so the filter at line 1340 drops replies to the agent's own group
messages; `grp_id` is always the default group (line 1387).

## 6. Not modelled, and why

In the modelled components of the client: the filters before the deduplication (texts),
the deduplication by content, the truncation of the id sets beyond 2000 entries, the
reload of the configuration, the loop suppression's pattern (an exit
`suppressed`), metrics. `Restart` in `AimClient` restarts after the writes are
flushed; what a crash before that does is `QueuePersist`. Replies of agents
mention nobody of their own accord in `GroupChat`; the group's messages arrive
in the order they were published and no agent misses one; one tick passes for all agents
alike. `SingleInstance` does not reuse PIDs. In `AimClient` an `Operational` message
is one for which the acknowledgement raises and is swallowed, as it always does
(`main.py:638–645`).

In the services: the event log and the KV handlers of the registry, which pass values
through; queries, which change nothing, except the registry's lookup and list; several
groups, since a group's record is a group's own; requests that do not parse; a service
that loses its own connection; reads of the store that fail when a service or a client
starts; the rate limit of creations and the generated id of a group without a name. One
join request is the state of one agent: who it was sent for is who sends it.

In the SDK and around it: validation of payloads, state reports, the heartbeat, which only
writes a log, the plug-in store and `aim_issue_*`; in aim-watch the channel for group
messages and the colours; `aim_observe` and the second skeleton of an observer, whose event
handling is the same code. A handler of `Receiving` does one thing; what the
client's handler does is `AimClient` and `GroupChat`. `HotFeed` leaves out messages that do
not parse, as the code does, and two calls of `check()` at the same time. `Receiving`
leaves out the default group, which the durable consumer's filter names beside the
agent's own subject: to the pin it is one more message on two paths.

Not planned: formatting, sessions, prompts, security strings, archives, the flood detector,
the issue tools, adapters and scripts, which keep no state that several actors share.

## 7. Plan

Done: the queue and its persistence, the gates, the dispatch, the group window, the
lock, the registry, the groups with their managers and clients, the hot feed, and the
SDK's pin, receiving, sending and observing; theorems for every safety property of the
passing runs and every type invariant, and the refinement of the durable queue.

1. An abstract membership (in after an approval, out after a leave) that `Groups`
   implements where no approval is repeated.
2. The composition of `Receiving` with `AimClient`: what the pin lets through against
   what the queue restores.
3. Group policy and the archive, as pure functions against a reference.

The project keeps to twelve runs; a further run takes the place of one whose properties
a larger one can state as well.
