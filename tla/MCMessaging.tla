----------------------------- MODULE MCMessaging -----------------------------
(***************************************************************************)
(* An office of the agent, an NPC with a policy and a persona without one  *)
(* who acts from the script: every kind of call, three inserts in every    *)
(* order, and a clock that goes to and fro under a window of one minute.   *)
(***************************************************************************)
EXTENDS Messaging

CONSTANTS agent, ann, customer

General == [is_dm |-> FALSE, is_private |-> FALSE, members |-> {agent, ann}]

OneChannel == {General}
OneThread == <<{ann, customer}>>

\* A mention of two people, the sender possibly among them.
OneChat == {[channel |-> General, mentions |-> {agent, ann}]}

\* A new thread, and a reply into the seeded one that brings the agent in.
NewAndReply == {[to |-> {ann}, thread |-> 0], [to |-> {agent}, thread |-> 1]}

\* A meeting that starts later than it is booked.
OneBooking == {[attendees |-> {agent}, start |-> 1]}
=============================================================================
