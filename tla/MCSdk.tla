------------------------------- MODULE MCSdk --------------------------------
(***************************************************************************)
(* The sending side of the SDK, and the way of its status events.  They    *)
(* share no state, so each behaviour lets one of them take steps.          *)
(***************************************************************************)
EXTENDS Sending, Observing

VARIABLE part

vars == <<sending, observing, part>>

Init == SendingInit /\ ObservingInit /\ part \in {"sending", "observing"}

Next ==
    \/ part = "sending" /\ SendingNext /\ UNCHANGED <<observing, part>>
    \/ part = "observing" /\ ObservingNext /\ UNCHANGED <<sending, part>>

Spec == Init /\ [][Next]_vars
FairSpec == Spec /\ SendingFairness /\ ObservingFairness
=============================================================================
