------------------------------ MODULE Sending -------------------------------
(***************************************************************************)
(* Calls of send_dm, send_grp and send_request (AIMNATSClient of           *)
(* aim_nats_sdk.py) with their retries (RetryManager.retry), over a        *)
(* connection that breaks.                                                 *)
(*                                                                         *)
(* A call makes one envelope and publishes it once per attempt, always     *)
(* with the same id.  Whatever is published on aim.dm.> and aim.grp.>      *)
(* reaches two ends: the subscription of the peer, whose pin drops an id   *)
(* it knows, and the stream aim-messages, which takes in these subjects    *)
(* (setup_streams) and stores what it gets, but not a Nats-Msg-Id it       *)
(* knows, which only js.publish sets.  The stream acknowledges on the      *)
(* reply subject, if there is one, be it of js.publish or of a request.    *)
(* The duplicate_window of the stream and the time to live of the pin are  *)
(* both 120 s.                                                             *)
(*                                                                         *)
(* What is published while the connection is down waits for the            *)
(* reconnection, and nothing but aim-client's limit of reconnections ends  *)
(* an outage.  On a connection that is up nothing is on its way for a      *)
(* tick; the jitter of a delay is below a tick.                            *)
(***************************************************************************)
EXTENDS Integers, FiniteSets

CONSTANTS
    Outgoing,
    MaxRetries, Base, MaxDelay,    \* a strategy of the retry manager
    Timeout,      \* how long an attempt waits for its answer
    Window,       \* how long the stream and a peer know an id
    Outage,       \* how long the connection may be down for no harm
    MaxBreaks,    \* bound: how often it breaks
    Unknown

(* A message published with js.publish, a plain one, and a request. *)
Kinds == {"js", "plain", "request"}
Receivers == {"stream", "peer"}

ASSUME SendingAssumption ==
    /\ MaxRetries \in Nat /\ Base \in Nat /\ MaxDelay \in Nat
    /\ Timeout \in Nat \ {0} /\ Window \in Nat \ {0}
    /\ Outage \in Nat /\ MaxBreaks \in Nat /\ Unknown \notin Nat

VARIABLES
    kind,        \* how each message is sent
    call,        \* where its call is
    attempt,     \* attempts of retry: the attempt under way, from 0
    timer,       \* what is left of a wait or a sleep
    flying,      \* copies that are on their way: message and attempt
    link, down,  \* the connection, and for how long it has been down
    breaks,      \* counter for the bound
    known,       \* per message and end, the age of the copy accepted last
    accepted,    \* history: how often it was stored, and handled by the peer
    overdue      \* history: messages that were kept longer than Outage

calls == <<call, attempt, timer>>
connection == <<link, down, breaks>>
receiver == <<known, accepted>>
sending == <<kind, calls, flying, connection, receiver, overdue>>

SendingInit ==
    /\ kind \in [Outgoing -> Kinds]
    /\ call = [m \in Outgoing |-> "idle"]
    /\ attempt = [m \in Outgoing |-> 0]
    /\ timer = [m \in Outgoing |-> 0]
    /\ flying = {}
    /\ link = "up" /\ down = 0 /\ breaks = 0
    /\ known = [k \in Outgoing \X Receivers |-> Unknown]
    /\ accepted = [k \in Outgoing \X Receivers |-> 0]
    /\ overdue = {}

-----------------------------------------------------------------------------
(* The retries. *)
Smaller(i, j) == IF i < j THEN i ELSE j

(* Fault: the exponent counts from one. *)
DelayFromOne(a) == Smaller(Base * 2^(a + 1), MaxDelay)

(* calc_delay. *)
Delay(a) == Smaller(Base * 2^a, MaxDelay)

Now(m, phase, a, t) ==
    /\ call' = [call EXCEPT ![m] = phase]
    /\ attempt' = [attempt EXCEPT ![m] = a]
    /\ timer' = [timer EXCEPT ![m] = t]

(* Fault: the attempts are not counted. *)
FailedUncounted(m, a) == Now(m, "sleeping", Smaller(a, MaxRetries - 1), Delay(a))

(* An attempt a of m has failed: the next one after a delay, or never. *)
Failed(m, a) ==
    IF a < MaxRetries THEN Now(m, "sleeping", a, Delay(a))
    ELSE Now(m, "failed", a, 0)

(* fn(): a plain message is sent when it is written, the others wait for   *)
(* what comes on their reply subject.                                      *)
PublishCopy(m, a) ==
    /\ link # "closed"
    /\ flying' = flying \union {<<m, a>>}
    /\ IF kind[m] = "plain" THEN Now(m, "sent", a, 0) ELSE Now(m, "waiting", a, Timeout)

(* A closed connection refuses, and one that is down when its buffer is    *)
(* full.                                                                   *)
Refused(m, a) ==
    /\ link # "up"
    /\ Failed(m, a)
    /\ UNCHANGED flying

Attempt(m, a) ==
    /\ PublishCopy(m, a) \/ Refused(m, a)
    /\ UNCHANGED <<kind, connection, receiver, overdue>>

(* The text of a message is validated, a request's is not. *)
BeginCall(m) == call[m] = "idle" /\ Attempt(m, 0)

Invalid(m) ==
    /\ call[m] = "idle" /\ kind[m] # "request"
    /\ Now(m, "invalid", 0, 0)
    /\ UNCHANGED <<kind, flying, connection, receiver, overdue>>

WakesUp(m) ==
    /\ call[m] = "sleeping" /\ timer[m] = 0
    /\ Attempt(m, attempt[m] + 1)

TimesOut(m) ==
    /\ call[m] = "waiting" /\ timer[m] = 0
    /\ Failed(m, attempt[m])
    /\ UNCHANGED <<kind, flying, connection, receiver, overdue>>

-----------------------------------------------------------------------------
(* The other ends.  A copy is known for one if its end tells copies apart: *)
(* the pin of a peer by the id, the stream by Nats-Msg-Id.                 *)
Dedups(m, e) == e = "peer" \/ kind[m] = "js"

Knows(m, e) == Dedups(m, e) /\ known[<<m, e>>] # Unknown /\ known[<<m, e>>] < Window

(* What the ends in R do with a copy of m. *)
Accepts(m, R) == {k \in {m} \X R : ~Knows(k[1], k[2])}

Accept(m, R) ==
    /\ known' = [k \in Outgoing \X Receivers |->
                    IF k \in Accepts(m, R) THEN 0 ELSE known[k]]
    /\ accepted' = [k \in Outgoing \X Receivers |->
                       IF k \in Accepts(m, R) THEN accepted[k] + 1 ELSE accepted[k]]

(* The stream acknowledges a copy it knows as well, and a request no less  *)
(* than a message; the pin of a peer drops a copy, and nobody answers it.  *)
Answers(m, R) ==
    \/ "stream" \in R
    \/ kind[m] = "request" /\ <<m, "peer">> \in Accepts(m, R)

(* The answer goes to the attempt that published the copy, and comes too   *)
(* late when that has been given up.  A peer need not be there, and the    *)
(* stream need not have been created.                                      *)
Arrives(m, a) ==
    /\ link = "up" /\ <<m, a>> \in flying
    /\ flying' = flying \ {<<m, a>>}
    /\ \E R \in SUBSET Receivers :
         /\ Accept(m, R)
         /\ \/ UNCHANGED calls
            \/ /\ call[m] = "waiting" /\ attempt[m] = a /\ Answers(m, R)
               /\ Now(m, "sent", a, 0)
    /\ UNCHANGED <<kind, connection, overdue>>

(* No stream takes the subject, or no peer listens: the server says so.    *)
Unheard(m, a) ==
    /\ link = "up" /\ <<m, a>> \in flying
    /\ call[m] = "waiting" /\ attempt[m] = a
    /\ flying' = flying \ {<<m, a>>}
    /\ Failed(m, a)
    /\ UNCHANGED <<kind, connection, receiver, overdue>>

(* What was on its way and has not arrived is lost. *)
Breaks ==
    /\ link = "up" /\ breaks < MaxBreaks
    /\ link' = "down" /\ down' = 0 /\ breaks' = breaks + 1
    /\ flying' = {}
    /\ UNCHANGED <<kind, calls, receiver, overdue>>

Reconnects ==
    /\ link = "down"
    /\ link' = "up" /\ down' = 0
    /\ UNCHANGED <<kind, calls, flying, breaks, receiver, overdue>>

(* max_reconnect_attempts, which only aim-client/aim_nats_sdk.py limits. *)
Closes ==
    /\ link = "down"
    /\ link' = "closed" /\ down' = 0 /\ flying' = {}
    /\ UNCHANGED <<kind, calls, breaks, receiver, overdue>>

TimersRun ==
    \A m \in Outgoing : call[m] \in {"waiting", "sleeping"} => timer[m] > 0

Aged(age) == IF age # Unknown /\ age < Window THEN age + 1 ELSE age

(* However long the connection is down: what it keeps longer than Outage   *)
(* is noted.                                                               *)
SendingTick ==
    /\ TimersRun
    /\ link = "up" => flying = {}
    /\ timer' = [m \in Outgoing |-> IF timer[m] > 0 THEN timer[m] - 1 ELSE 0]
    /\ IF link = "down" /\ down >= Outage
       THEN overdue' = overdue \union {c[1] : c \in flying} /\ UNCHANGED down
       ELSE down' = (IF link = "down" THEN down + 1 ELSE down) /\ UNCHANGED overdue
    /\ known' = [k \in Outgoing \X Receivers |-> Aged(known[k])]
    /\ UNCHANGED <<kind, call, attempt, flying, link, breaks, accepted>>

CallStep(m) == WakesUp(m) \/ TimesOut(m)

SendingNext ==
    \/ \E m \in Outgoing : BeginCall(m) \/ Invalid(m) \/ CallStep(m)
    \/ \E c \in flying : Arrives(c[1], c[2]) \/ Unheard(c[1], c[2])
    \/ Breaks \/ Reconnects \/ Closes \/ SendingTick

SendingSpec == SendingInit /\ [][SendingNext]_sending

(* Timers run out, and what a connection that is up holds it delivers.  No *)
(* connection need come back.                                              *)
SendingFairness ==
    /\ \A m \in Outgoing : WF_sending(CallStep(m))
    /\ WF_sending(\E c \in flying : Arrives(c[1], c[2]))
    /\ WF_sending(SendingTick)

-----------------------------------------------------------------------------
Phases == {"idle", "invalid", "waiting", "sleeping", "sent", "failed"}

SendingTypeOK ==
    /\ kind \in [Outgoing -> Kinds]
    /\ call \in [Outgoing -> Phases]
    /\ attempt \in [Outgoing -> 0 .. MaxRetries]
    /\ timer \in [Outgoing -> Nat]
    /\ flying \subseteq Outgoing \X (0 .. MaxRetries)
    /\ link \in {"up", "down", "closed"} /\ down \in 0 .. Outage
    /\ breaks \in 0 .. MaxBreaks
    /\ known \in [Outgoing \X Receivers -> (0 .. Window) \union {Unknown}]
    /\ accepted \in [Outgoing \X Receivers -> Nat] /\ overdue \subseteq Outgoing

(* A message that js.publish sends is stored once, and a peer handles a    *)
(* message or request once, however often it is published again because    *)
(* its answer was lost or late or while the connection was down.  The      *)
(* exception is a copy that the connection kept, while it was down, for    *)
(* longer than Outage: aim-client/aim_nats_sdk.py gives up after five      *)
(* attempts to reconnect, the other two copies of the SDK never do.  Of a  *)
(* request the stream stores every copy, and nothing is claimed of these.  *)
AcceptedOnce ==
    \A m \in Outgoing \ overdue : \A e \in Receivers :
        Dedups(m, e) => accepted[<<m, e>>] <= 1

(* A call ends: with success, or as failed after the last retry. *)
CallEnds ==
    \A m \in Outgoing :
        call[m] # "idle" ~> call[m] \in {"invalid", "sent", "failed"}
=============================================================================
