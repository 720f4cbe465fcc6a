------------------------------ MODULE HotFeed -------------------------------
(***************************************************************************)
(* The hot feed of one agent, aim_client/hot_feed.py: what check() reports *)
(* of the stream of messages, classed by a policy.                         *)
(*                                                                         *)
(* A message is known by its place in the stream; its text is abstracted   *)
(* to the triggers it may fire.  The stream and its consumers belong to    *)
(* JetStream.  Messages that do not parse are left out: no line of the     *)
(* module does anything with them.                                         *)
(***************************************************************************)
EXTENDS Integers, Sequences, FiniteSetsExt

CONSTANTS
    Me,             \* the agent
    Others,         \* the agents that write to it
    Signs,          \* what a text may hold: a mention, a keyword, a reply
    FeedMessages,   \* the messages that may be published
    Policies,       \* policies that may be written
    DefaultPolicy,  \* DEFAULT_POLICY
    Penetrate,      \* mention_penetrate of the silence configuration
    DedupWindow,    \* dedup_window_s, in ticks
    MaxHot,         \* max_hot_per_sender
    Batch,          \* batch_size of pull
    Recent,         \* count of get_recent
    KnownMax,       \* the largest number of known ids, 10000
    KnownKept,      \* how many of them are kept when there are more, 5000
    MaxAckPending,  \* deliveries the server leaves unacknowledged
    MaxMessages,    \* bound: the length of the stream
    MaxFaults,      \* bound: failing fetches, writes of the file and crashes
    None

Kinds == {"dm", "grp"}
FeedMessage == [kind : Kinds, from : Others \union {Me}, signs : SUBSET Signs]
Triggers == Signs \union Kinds
Policy == [hot : SUBSET Triggers, warm : SUBSET Triggers, cold : SUBSET Triggers]

ASSUME HotFeedAssumption ==
    /\ Me \notin Others
    /\ FeedMessages \subseteq FeedMessage
    /\ Policies \subseteq Policy /\ DefaultPolicy \in Policy /\ None \notin Policy
    /\ Penetrate \in BOOLEAN
    /\ DedupWindow \in Nat \ {0} /\ MaxHot \in Nat
    /\ Batch \in Nat \ {0} /\ Recent \in Nat /\ MaxAckPending \in Nat
    /\ KnownMax \in Nat /\ KnownKept \in 0 .. KnownMax
    /\ MaxMessages \in Nat /\ MaxFaults \in Nat

VARIABLES
    stream,      \* the messages of aim-messages, oldest first
    next,        \* the durable consumer: the last message it delivered
    unacked,     \* and what it delivered: nothing is ever acknowledged
    template,    \* the policy under "template" in the bucket, or None
    cursorFile,  \* last_seq in hot_feed_cursor.json
    policy,      \* _policy_cache, or the default
    inForce,     \* the policy a check has begun with; the default between checks
    cursor,      \* MessagePoller._last_seq
    known,       \* _known_msg_ids
    hits,        \* per sender, the ages of the hot hits of DedupGuard, oldest first
    phase,       \* what check() does: "idle", "grp", "recent" or "report"
    batch,       \* the messages it has got and not yet looked at, a set
    silence,     \* in_silence of the check that reports
    faults,      \* counter for the bound
    reported,    \* history: what was reported or looked at in any lifetime
    shown,       \* history: what was reported, in any lifetime
    unsaved,     \* history: the furthest cursor whose save failed
    loud,        \* history: per sender, the ages of hot reports in silence
    strayed,     \* history: what a failing fetch or a crash lost
    furthest     \* history: how far the cursor has been in any lifetime

server == <<stream, next, unacked, template>>
memory == <<policy, inForce, known, hits>>
feedHistory == <<reported, shown, unsaved, loud, strayed, furthest>>
feed == <<server, cursorFile, memory, cursor, phase, batch, silence, faults,
          feedHistory>>

FeedInit ==
    /\ stream = <<>> /\ next = 0 /\ unacked = {}
    /\ template = None /\ policy = DefaultPolicy /\ inForce = DefaultPolicy
    /\ cursorFile = 0 /\ cursor = 0
    /\ known = {} /\ hits = [a \in Others |-> <<>>]
    /\ phase = "idle" /\ batch = {}
    /\ silence = FALSE /\ faults = 0
    /\ reported = {} /\ shown = {} /\ unsaved = 0
    /\ loud = [a \in Others |-> <<>>] /\ strayed = {} /\ furthest = 0

-----------------------------------------------------------------------------
(* The first stage whose triggers the message fires; nobody else's is      *)
(* looked at.                                                              *)
Fires(m, triggers) == triggers \cap (m.signs \union {m.kind}) # {}

Classify(m, p) ==
    CASE Fires(m, p.hot) -> "hot"
      [] ~Fires(m, p.hot) /\ Fires(m, p.warm) -> "warm"
      [] ~Fires(m, p.hot) /\ ~Fires(m, p.warm) /\ Fires(m, p.cold) -> "cold"
      [] OTHER -> "archive"

(* Fault: one hot message more than the budget. *)
GuardedLate(a) == IF Len(hits[a]) > MaxHot THEN "warm" ELSE "hot"

(* DedupGuard.check. *)
Guarded(a) == IF Len(hits[a]) >= MaxHot THEN "warm" ELSE "hot"

(* The stage of a message once the silence has been considered. *)
Stage(m) ==
    LET stage == Classify(m, inForce) IN
    IF ~silence \/ stage # "hot" THEN stage
    ELSE IF Penetrate THEN Guarded(m.from) ELSE "warm"

-----------------------------------------------------------------------------
(* The stream. *)
PublishToFeed(m) ==
    /\ Len(stream) < MaxMessages
    /\ stream' = Append(stream, m)
    /\ UNCHANGED <<next, unacked, template, cursorFile, memory, cursor, phase,
                   batch, silence, faults, feedHistory>>

Of(kind) == {n \in DOMAIN stream : stream[n].kind = kind}

(* The first k of a set of messages. *)
FirstOf(S, k) == {n \in S : Cardinality({i \in S : i < n}) < k}

(* Fault: the cursor is taken for the next message to come. *)
PastNext(S) == {n \in S : n > cursor + 1}

(* Those past the cursor, and where the cursor goes. *)
Past(S) == {n \in S : n > cursor}

Reach(S) == Max(S \union {cursor})

MoveCursor(S) ==
    /\ cursor' = Reach(S)
    /\ furthest' = Max({furthest, Reach(S)})

(* What the durable consumer delivers: k messages again, then new ones. *)
Delivery(k) ==
    LET again == FirstOf(unacked, k)
        room == IF Cardinality(unacked) >= MaxAckPending THEN 0
                ELSE MaxAckPending - Cardinality(unacked)
        fresh == FirstOf({n \in Of("dm") : n > next}, Min({room, Batch - k}))
    IN  again \union fresh

(* A consumer without a name starts with the oldest message. *)
Oldest(kind, k) == FirstOf(Of(kind), k)

Deliver(S) ==
    /\ unacked' = unacked \union S
    /\ next' = Max(S \union {next})

-----------------------------------------------------------------------------
(* check(): pull fetches the dms first, then the messages of groups.       *)
Got(S) ==
    /\ batch' = batch \union Past(S)
    /\ MoveCursor(S)

FetchDm ==
    /\ phase = "idle" /\ phase' = "grp" /\ inForce' = policy
    /\ \/ \E k \in 0 .. Min({Batch, Cardinality(unacked)}) :
            Deliver(Delivery(k)) /\ Got(Delivery(k)) /\ UNCHANGED <<strayed, faults>>
       \/ \* The durable consumer could not be had.
          Got(Oldest("dm", Batch)) /\ UNCHANGED <<next, unacked, strayed, faults>>
       \/ \* What was delivered is not received.
          /\ faults < MaxFaults /\ faults' = faults + 1
          /\ Deliver(Delivery(0)) /\ strayed' = strayed \union Delivery(0)
          /\ UNCHANGED <<batch, cursor, furthest>>
    /\ UNCHANGED <<stream, template, cursorFile, policy, known, hits, silence,
                   reported, shown, unsaved, loud>>

(* Fault: the cursor is saved as it was before the last fetch. *)
SavedBefore(S) == cursorFile' = cursor /\ UNCHANGED <<unsaved, faults>>

(* The cursor is saved if anything came, or else get_recent is asked.  A   *)
(* write that fails may leave an empty file, which is read as 0.           *)
Saved(S) ==
    \/ cursorFile' = Reach(S) /\ UNCHANGED <<unsaved, faults>>
    \/ /\ faults < MaxFaults /\ faults' = faults + 1
       /\ cursorFile' \in {cursorFile, 0}
       /\ unsaved' = Max({unsaved, Reach(S)})

FetchGrp ==
    /\ phase = "grp"
    /\ \E S \in {Oldest("grp", Batch), {}} :
         /\ Got(S)
         /\ IF batch' = {}
            THEN phase' = "recent" /\ UNCHANGED <<cursorFile, silence, unsaved, faults>>
            ELSE phase' = "report" /\ silence' \in BOOLEAN /\ Saved(S)
    /\ UNCHANGED <<server, memory, reported, shown, loud, strayed>>

(* get_recent gives the oldest messages, whether the cursor is past them   *)
(* or not.                                                                 *)
GetRecent ==
    /\ phase = "recent" /\ phase' = "report" /\ silence' \in BOOLEAN
    /\ LET S == Oldest("grp", Recent) IN
       \/ /\ S # {}
          /\ batch' = S /\ MoveCursor(S) /\ Saved(S)
       \/ UNCHANGED <<batch, cursor, furthest, cursorFile, unsaved, faults>>
    /\ UNCHANGED <<server, memory, reported, shown, loud, strayed>>

(* The messages are looked at one by one, without a pause: the dms, which  *)
(* were fetched first, then those of groups, and either in their order.    *)
Before(i, n) ==
    \/ stream[i].kind = "dm" /\ stream[n].kind = "grp"
    \/ stream[i].kind = stream[n].kind /\ i < n

InTurn(n) ==
    /\ phase = "report" /\ n \in batch
    /\ \A i \in batch : ~Before(i, n)

Pop(n) == batch' = batch \ {n}

Skip(n) ==
    /\ InTurn(n)
    /\ n \in known \/ stream[n].from = Me
    /\ Pop(n)
    /\ UNCHANGED <<server, cursorFile, memory, cursor, phase, silence, faults, feedHistory>>

(* The id is remembered; when there are too many, an arbitrary half is.    *)
Remember(n) ==
    IF Cardinality(known \union {n}) > KnownMax
    THEN known' \in kSubset(KnownKept, known \union {n})
    ELSE known' = known \union {n}

Hit(a, stage) ==
    hits' = IF stage = "hot" THEN [hits EXCEPT ![a] = Append(@, 0)] ELSE hits

(* In silence what would be hot is counted against its sender. *)
Report(n) ==
    /\ InTurn(n)
    /\ LET m == stream[n]
           counts == silence /\ Penetrate /\ Classify(m, inForce) = "hot"
       IN  /\ n \notin known /\ m.from # Me
           /\ IF counts THEN Hit(m.from, Stage(m)) ELSE UNCHANGED hits
           /\ loud' = IF silence /\ Stage(m) = "hot"
                      THEN [loud EXCEPT ![m.from] = Append(@, 0)] ELSE loud
    /\ Remember(n)
    /\ reported' = reported \union {n}
    /\ shown' = shown \union {n}
    /\ Pop(n)
    /\ UNCHANGED <<server, cursorFile, policy, inForce, cursor, phase, silence, faults,
                   unsaved, strayed, furthest>>

EndCheck ==
    /\ phase = "report" /\ batch = {}
    /\ phase' = "idle" /\ inForce' = DefaultPolicy /\ silence' = FALSE
    /\ UNCHANGED <<server, cursorFile, policy, known, hits, cursor, batch, faults, feedHistory>>

-----------------------------------------------------------------------------
(* mark_read, between the steps of a check. *)
MarkRead(n) ==
    /\ phase # "report" /\ n \in DOMAIN stream
    /\ known' = known \union {n}
    /\ reported' = reported \union {n}
    /\ UNCHANGED <<server, cursorFile, policy, inForce, hits, cursor, phase, batch,
                   silence, faults, shown, unsaved, loud, strayed, furthest>>

(* update_policy, and the same by another agent: this one sees it when it  *)
(* starts again.  What is written for one group is never read by check().  *)
UpdatePolicy(p) ==
    /\ phase # "report"
    /\ template' = p
    /\ policy' \in {p, policy}
    /\ UNCHANGED <<stream, next, unacked, cursorFile, inForce, known, hits, cursor,
                   phase, batch, silence, faults, feedHistory>>

(* Hits as old as the window do not count any more.  They are the first    *)
(* ones, and DedupGuard.check drops them before it counts.                 *)
Older(ages) ==
    LET kept == Cardinality({i \in DOMAIN ages : ages[i] + 1 < DedupWindow})
        gone == Len(ages) - kept
    IN  [i \in 1 .. kept |-> ages[gone + i] + 1]

FeedTick ==
    /\ phase # "report"
    /\ hits' = [a \in Others |-> Older(hits[a])]
    /\ loud' = [a \in Others |-> Older(loud[a])]
    /\ UNCHANGED <<server, cursorFile, policy, inForce, known, cursor, phase, batch,
                   silence, faults, reported, shown, unsaved, strayed, furthest>>

(* get_recent_messages, meant for debugging, moves the cursor as well. *)
LookAtRecent ==
    /\ phase # "report" /\ Oldest("grp", Recent) # {}
    /\ MoveCursor(Oldest("grp", Recent)) /\ Saved(Oldest("grp", Recent))
    /\ UNCHANGED <<server, memory, phase, batch, silence, reported, shown, loud, strayed>>

(* The process ends, perhaps with cleanup, and starts: initialize loads    *)
(* the policy, or the default if it cannot, and the cursor.                *)
Restart ==
    /\ faults < MaxFaults /\ faults' = faults + 1
    /\ policy' \in {DefaultPolicy, IF template = None THEN DefaultPolicy ELSE template}
    /\ inForce' = DefaultPolicy /\ cursor' = cursorFile
    /\ known' = {} /\ hits' = [a \in Others |-> <<>>]
    /\ phase' = "idle" /\ batch' = {} /\ silence' = FALSE
    /\ \/ UNCHANGED <<next, unacked>>
       \/ phase = "idle" /\ next' = 0 /\ unacked' = {}
    /\ loud' = [a \in Others |-> <<>>]
    /\ strayed' = strayed \union batch
    /\ UNCHANGED <<stream, template, cursorFile, reported, shown, unsaved, furthest>>

FeedNext ==
    \/ \E m \in FeedMessages : PublishToFeed(m)
    \/ FetchDm \/ FetchGrp \/ GetRecent \/ EndCheck
    \/ \E n \in batch : Skip(n) \/ Report(n)
    \/ \E n \in 1 .. MaxMessages : MarkRead(n)
    \/ \E p \in Policies : UpdatePolicy(p)
    \/ LookAtRecent \/ FeedTick \/ Restart

FeedSpec == FeedInit /\ [][FeedNext]_feed

-----------------------------------------------------------------------------
Places == 1 .. MaxMessages

FeedTypeOK ==
    /\ stream \in Seq(FeedMessages) /\ Len(stream) <= MaxMessages
    /\ next \in 0 .. MaxMessages /\ unacked \subseteq Places
    /\ template \in Policies \union {None}
    /\ cursor \in 0 .. MaxMessages /\ cursorFile \in 0 .. cursor
    /\ furthest \in cursor .. MaxMessages
    /\ {policy, inForce} \subseteq Policies \union {DefaultPolicy}
    /\ known \subseteq Places /\ reported \subseteq Places /\ strayed \subseteq Places
    /\ hits \in [Others -> Seq(0 .. DedupWindow - 1)]
    /\ loud \in [Others -> Seq(0 .. DedupWindow - 1)]
    /\ phase \in {"idle", "grp", "recent", "report"}
    /\ batch \subseteq Places
    /\ silence \in BOOLEAN /\ faults \in 0 .. MaxFaults
    /\ shown \subseteq Places /\ unsaved \in 0 .. MaxMessages

(* HOTFEED.md:306, as far as the code keeps it: a restart goes on from the *)
(* saved cursor and repeats nothing.  In all lifetimes together, a message *)
(* is reported a second time only if it is one of the oldest messages of   *)
(* groups, which get_recent gives whatever the cursor says, or if a save   *)
(* of a cursor that had passed it failed.  The redeliveries of the         *)
(* unacknowledged durable consumer, marks, and forgotten ids repeat        *)
(* nothing.                                                                *)
RepeatsExplained ==
    [][\A n \in shown :
          Report(n) => n <= unsaved \/ n \in Oldest("grp", Recent)]_feed

(* HOTFEED.md:306 as it stands: nothing is repeated. *)
NothingRepeated == [][unsaved = 0 => \A n \in shown : ~Report(n)]_feed

(* In the silence hours no agent gets more than MaxHot hot messages        *)
(* through within one window, whatever is reported before and between.     *)
HotBudget == \A a \in Others : Len(loud[a]) <= MaxHot

(* The cursor is past a message of another agent that was not looked at    *)
(* and that get_recent does not give.                                      *)
PassedOver(n) ==
    /\ n <= cursor /\ stream[n].from # Me
    /\ n \notin reported \union strayed \union batch
    /\ n \notin Oldest("grp", Recent)

(* One cursor serves the dms and the groups (hot_feed.py:386).  What it    *)
(* passes over unseen lies before a message of the other kind that it has  *)
(* passed as well, then or before it fell back to the file, unless a fetch *)
(* failed or the process died with the message in its hands.               *)
OnlyBehindOther ==
    \A n \in DOMAIN stream : PassedOver(n) =>
        \E i \in n + 1 .. furthest : stream[i].kind # stream[n].kind
=============================================================================
