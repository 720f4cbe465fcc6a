------------------------------ MODULE MCHotFeed ------------------------------
(* HotFeed with one other agent: its dms and group messages that call for   *)
(* attention, and a message of the agent itself.                            *)
EXTENDS HotFeed

CONSTANTS me, a

MCMessages == {[kind |-> "dm", from |-> a, signs |-> {}],
               [kind |-> "grp", from |-> a, signs |-> {"mention"}],
               [kind |-> "grp", from |-> me, signs |-> {}]}

MCDefaultPolicy == [hot |-> {"mention", "dm"}, warm |-> {"grp"}, cold |-> {}]

(* A policy that leaves dms to the archive. *)
MCPolicies == {[hot |-> {"mention"}, warm |-> {}, cold |-> {"grp"}]}
=============================================================================
