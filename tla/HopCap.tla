------------------------------- MODULE HopCap -------------------------------
(***************************************************************************)
(* The cap on NPC-to-NPC chatter (NpcRuntime._reserve_hop): a sender may   *)
(* trigger a recipient at most Cap times per rolling window, as the clock  *)
(* of the moment sees it.  Hops of the agent are not counted.              *)
(***************************************************************************)
EXTENDS Integers, FiniteSets

CONSTANTS Agent,     \* world.agent_id
          Person,    \* world.people
          Managed,   \* the NPCs with a policy
          Cap,       \* hop_cap
          Window     \* hop_window_min

ASSUME PeopleAssumption == Agent \in Person /\ Managed \subseteq Person \ {Agent}
ASSUME CapAssumption == Cap \in Nat /\ Window \in Nat

VARIABLES hops       \* NpcRuntime._hops, per (sender, recipient)

Pair == Person \X Managed

\* window: the entries of the pair's list that are not older than the window.
\* The code keeps the minute of a hop; an entry here is the trigger that hop
\* let through, so that two hops of one minute count as two.
Recent(pair, now) == {h \in hops[pair] : now - h.at <= Window}

\* Slip: hops of the window's last minute no longer count.
MayHopAtWindowEnd(from, to, now) ==
    from = Agent
    \/ Cardinality({h \in hops[<<from, to>>] : now - h.at < Window}) < Cap

MayHop(from, to, now) ==
    from = Agent \/ Cardinality(Recent(<<from, to>>, now)) < Cap

\* The hops of one message: the list of every candidate is pruned, and
\* extended if the hop is permitted.
ReserveHops(from, candidates, hop) ==
    hops' = [pair \in Pair |->
        IF from = Agent \/ pair[1] # from \/ pair[2] \notin candidates
        THEN hops[pair]
        ELSE Recent(pair, hop.at) \cup
             (IF MayHop(from, pair[2], hop.at) THEN {hop} ELSE {})]
=============================================================================
