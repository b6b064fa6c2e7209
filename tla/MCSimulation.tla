---------------------------- MODULE MCSimulation ----------------------------
(***************************************************************************)
(* Instances of Simulation for TLC: one or two NPCs, a tick of two or three*)
(* minutes and a run of a few ticks.  The times are small, their order     *)
(* relations - a cost shorter than, equal to and longer than the tick, an  *)
(* idle across another actor's poll, a meeting that starts between two     *)
(* polls - are those of the default tick of 15 minutes.                    *)
(***************************************************************************)
EXTENDS Simulation

CONSTANTS agent, nobody, ann, bob

NoNpc == <<>>
OneNpc == <<ann>>
TwoNpcs == <<ann, bob>>

NoMeeting == <<>>
OneMeeting == <<[start |-> 3, end |-> 5, attendees |-> {agent, bob}]>>

NoScript == <<>>
OneScripted == <<<<1, ann>>>>
TwoScripted == <<<<1, ann>>, <<2, bob>>>>

Act(cost, cont) == [op |-> "act", cost |-> cost, cont |-> cont]
Idle(ahead, cont) == [op |-> "idle", cost |-> ahead, cont |-> cont]
Abandon(cont) == [op |-> "abandon", cost |-> 2, cont |-> cont]

\* Every tool; an idle target may lie in the past or beyond the cap, and the
\* tick may go on after any call.
AllCalls == {Act(0, TRUE), Act(1, TRUE), Act(3, FALSE), Idle(4, TRUE),
             Idle(-1, FALSE), Abandon(FALSE)}

\* The calls that keep the cadence whatever short replies they trigger: an
\* idle.until ends its tick.
ShortCalls == {Act(0, TRUE), Act(2, TRUE), Idle(5, FALSE), Abandon(FALSE)}

\* Idles that go on in their tick, earlier and later ones, and a call long
\* enough to pass over the poll of the earlier.
DeferringCalls == {Act(3, FALSE), Idle(4, TRUE), Idle(9, TRUE)}

\* An idle.until at the end of its tick, and a one-minute call.
IdleLast == {Act(1, FALSE), Idle(4, FALSE)}

\* An idle.until that goes on in its tick, and a long call.
IdleThenAct == {Act(3, FALSE), Idle(3, TRUE)}
=============================================================================
