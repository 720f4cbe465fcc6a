----------------------------- MODULE Observing ------------------------------
(***************************************************************************)
(* The status events an agent emits (emit_obs of AIMNATSClient) on their   *)
(* way to AIM Watch (aim-watch.py), which replays what the stream          *)
(* aim-observations holds, then subscribes with an AIMObserverClient, and  *)
(* displays.                                                               *)
(*                                                                         *)
(* An event that is not transient is published twice on one subject, to    *)
(* the stream and then, when the stream has answered or failed to, plain.  *)
(* The stream takes in whatever is published on the subjects aim.obs.>     *)
(* (setup_streams), so it holds both copies, and the transient events as   *)
(* well; a subscriber hears all of them.                                   *)
(***************************************************************************)
EXTENDS Naturals, Sequences, FiniteSetsExt

CONSTANTS
    Topics,          \* the messages whose handling is reported
    Statuses,        \* the statuses that are reported of each
    Limit, Period,   \* of the rate limiter
    PageSize,        \* --history
    MaxSeen, Kept,   \* how many events the display knows, and keeps of them
    MaxLosses,       \* bound: failing publications, breaks, stops
    Never

Events == Topics \X Statuses
Transient == {"received", "heartbeat", "delivered"}
Hidden == {"received", "heartbeat", "delivered"}
Modes == {"json", "line", "compact"}

ASSUME ObservingAssumption ==
    /\ Limit \in Nat \ {0} /\ Period \in Nat \ {0} /\ PageSize \in Nat
    /\ MaxSeen \in Nat \ {0} /\ Kept \in 1 .. MaxSeen
    /\ MaxLosses \in Nat /\ Never \notin Nat

VARIABLES
    emission,    \* where the call of emit_obs is for each event
    passed,      \* _windows: the age of what the limiter has let pass
    observations,\* the stream aim-observations
    phase,       \* of the watcher
    mode,        \* how it displays
    queue,       \* what it has collected or heard, and not displayed
    seen,        \* _seen_events
    named,       \* _shown_msg_ids
    chains,      \* _ai_chains
    losses,      \* counter for the bound
    printed,     \* history: how often each event was printed
    trimmed      \* history: events the display has forgotten

emitter == <<emission, passed, observations>>
display == <<seen, named, chains, printed, trimmed>>
observing == <<emitter, phase, mode, queue, display, losses>>

ObservingInit ==
    /\ emission = [e \in Events |-> "new"]
    /\ passed = [e \in Events |-> Never]
    /\ observations = <<>>
    /\ phase = "off" /\ mode \in Modes /\ queue = <<>>
    /\ seen = {} /\ named = {} /\ chains = {} /\ trimmed = {}
    /\ printed = [e \in Events |-> 0]
    /\ losses = 0

Loss == losses < MaxLosses /\ losses' = losses + 1

-----------------------------------------------------------------------------
(* The emitter. *)
WithinRate ==
    Cardinality({e \in Events : passed[e] # Never /\ passed[e] < Period}) < Limit

(* What is published is heard by a watcher that has subscribed, unless its *)
(* connection is down.                                                     *)
Hear(e) ==
    \/ phase = "live" /\ queue' = Append(queue, e) /\ UNCHANGED losses
    \/ phase = "live" /\ Loss /\ UNCHANGED queue
    \/ phase # "live" /\ UNCHANGED <<queue, losses>>

Reached(e, stage) == emission' = [emission EXCEPT ![e] = stage]

Limited(e) ==
    /\ emission[e] = "new" /\ ~WithinRate
    /\ Reached(e, "dropped")
    /\ UNCHANGED <<passed, observations, phase, mode, queue, display, losses>>

Pass(e) ==
    /\ emission[e] = "new" /\ WithinRate
    /\ passed' = [passed EXCEPT ![e] = 0]

(* It is stored, too, if it reaches the server at all: the stream does not *)
(* ask how it was published.                                               *)
Published(e) == observations' = Append(observations, e) /\ Hear(e)
Unpublished == Loss /\ UNCHANGED <<observations, queue>>

EmitToStream(e) ==
    /\ Pass(e) /\ e[2] \notin Transient
    /\ Reached(e, "tried")
    /\ Published(e) \/ Unpublished
    /\ UNCHANGED <<phase, mode, display>>

EmitTransient(e) ==
    /\ Pass(e) /\ e[2] \in Transient
    /\ Reached(e, "done")
    /\ Published(e) \/ Unpublished
    /\ UNCHANGED <<phase, mode, display>>

EmitPlain(e) ==
    /\ emission[e] = "tried"
    /\ Reached(e, "done")
    /\ Published(e) \/ Unpublished
    /\ UNCHANGED <<passed, phase, mode, display>>

ObservingTick ==
    /\ \E e \in Events : passed[e] # Never /\ passed[e] < Period
    /\ passed' = [e \in Events |->
                     IF passed[e] # Never /\ passed[e] < Period THEN passed[e] + 1
                     ELSE passed[e]]
    /\ UNCHANGED <<emission, observations, phase, mode, queue, display, losses>>

-----------------------------------------------------------------------------
(* The watcher.  The replay takes the first page of the history, which are *)
(* the oldest events.                                                      *)
Replay ==
    /\ phase = "off"
    /\ phase' = "replaying"
    /\ queue' = SubSeq(observations, 1, Min({PageSize, Len(observations)}))
    /\ seen' = {} /\ named' = {} /\ chains' = {} /\ trimmed' = {}
    /\ printed' = [e \in Events |-> 0]
    /\ UNCHANGED <<emitter, mode, losses>>

Subscribe ==
    /\ phase = "replaying" /\ queue = <<>>
    /\ phase' = "live"
    /\ UNCHANGED <<emitter, mode, queue, display, losses>>

(* Fault: it is known by the message it reports on. *)
KeyOfMessage(e) == <<e[1], "any">>

(* An event is known by its nonce, which both copies carry. *)
Key(e) == e

(* Over its capacity the display keeps some of what it has seen: a set has *)
(* no order.                                                               *)
Trimmed(keys) ==
    IF Cardinality(keys) <= MaxSeen THEN {keys} ELSE kSubset(Kept, keys)

(* Fault: what is replayed is not remembered. *)
RememberLive(e) ==
    IF phase = "live"
    THEN /\ seen' \in Trimmed(seen \union {Key(e)})
         /\ trimmed' = trimmed \union ((seen \union {Key(e)}) \ seen')
    ELSE UNCHANGED <<seen, trimmed>>

Remember(e) ==
    /\ seen' \in Trimmed(seen \union {Key(e)})
    /\ trimmed' = trimmed \union ((seen \union {Key(e)}) \ seen')

Output(e) == printed' = [printed EXCEPT ![e] = @ + 1]

(* _display_line prints the first event of a message only. *)
PrintLine(e) ==
    IF e[1] \in named THEN UNCHANGED <<printed, named>>
    ELSE Output(e) /\ named' = named \union {e[1]}

(* _display_compact_ai: one line for a start and its end. *)
PrintCompact(e) ==
    \/ /\ e[2] = "ai_start"
       /\ chains' = chains \union {e[1]}
       /\ UNCHANGED <<printed, named>>
    \/ /\ e[2] \in {"ai_done", "ai_empty"} /\ e[1] \in chains
       /\ chains' = chains \ {e[1]}
       /\ Output(e) /\ UNCHANGED named
    \/ /\ e[2] # "ai_start" /\ ~(e[2] \in {"ai_done", "ai_empty"} /\ e[1] \in chains)
       /\ PrintLine(e) /\ UNCHANGED chains

Show(e) ==
    \/ e[2] \in Hidden /\ UNCHANGED <<printed, named, chains>>
    \/ e[2] \notin Hidden /\ mode = "json" /\ Output(e) /\ UNCHANGED <<named, chains>>
    \/ e[2] \notin Hidden /\ mode = "line" /\ PrintLine(e) /\ UNCHANGED chains
    \/ e[2] \notin Hidden /\ mode = "compact" /\ PrintCompact(e)

(* The replay and the worker take what is next and display it. *)
Display ==
    /\ queue # <<>>
    /\ LET e == Head(queue) IN
        IF Key(e) \in seen THEN UNCHANGED display
        ELSE Remember(e) /\ Show(e)
    /\ queue' = Tail(queue)
    /\ UNCHANGED <<emitter, phase, mode, losses>>

(* What is in the queue is lost with the worker. *)
Disconnect ==
    /\ phase # "off" /\ Loss
    /\ phase' = "off" /\ queue' = <<>>
    /\ UNCHANGED <<emitter, mode, display>>

Emit(e) == Limited(e) \/ EmitToStream(e) \/ EmitTransient(e) \/ EmitPlain(e)

ObservingNext ==
    \/ \E e \in Events : Emit(e)
    \/ Replay \/ Subscribe \/ Display \/ Disconnect \/ ObservingTick

ObservingSpec == ObservingInit /\ [][ObservingNext]_observing

ObservingFairness == WF_observing(Subscribe) /\ WF_observing(Display)

-----------------------------------------------------------------------------
ObservingTypeOK ==
    /\ emission \in [Events -> {"new", "dropped", "tried", "done"}]
    /\ passed \in [Events -> (0 .. Period) \union {Never}]
    /\ observations \in Seq(Events) /\ queue \in Seq(Events)
    /\ phase \in {"off", "replaying", "live"} /\ mode \in Modes
    /\ named \subseteq Topics /\ chains \subseteq Topics
    /\ Cardinality(seen) <= MaxSeen
    /\ printed \in [Events -> Nat] /\ losses \in 0 .. MaxLosses

(* An event is printed once at most in a run of the watcher, although it   *)
(* is published twice, both copies are stored and replayed, and the live   *)
(* ones come besides, as long as the display has not forgotten it.         *)
ShownOnce == \A e \in Events : printed[e] <= 1 \/ Key(e) \in trimmed

(* What a watcher that prints JSON has heard, or collected, it prints, if  *)
(* it is not a status it hides, and if it is not stopped.  The other modes *)
(* print less than that.                                                   *)
HeardIsShown ==
    \A e \in Events :
        mode = "json" /\ e[2] \notin Hidden /\ (\E i \in 1 .. Len(queue) : queue[i] = e)
            ~> printed[e] > 0 \/ phase = "off"
=============================================================================
