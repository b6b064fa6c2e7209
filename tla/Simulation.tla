----------------------------- MODULE Simulation -----------------------------
(***************************************************************************)
(* A run as build_runtime assembles it (src/sim/runtime.py): the agent's   *)
(* driver and the NPC runtime on one scheduler.  Everything is one thread; *)
(* what interleaves is decided by the heap and by nested advances.         *)
(***************************************************************************)
EXTENDS AgentDriver

CONSTANTS Script,  \* scripted messages, in file order: <<fire_at, npc>> pairs
          Hour     \* minutes between two heartbeats (60)

ASSUME ScriptAssumption == Script \in Seq(Nat \X Npc)
ASSUME HourAssumption == Hour \in Nat \ {0}

\* load_scenario schedules the script and the heartbeats, NpcRuntime its first
\* polls, and build_runtime the start markers and the agent's first poll, in
\* this order.
InitialEvent(at, id, kind, who) ==
    [fire_at |-> at, event_id |-> id, kind |-> kind, who |-> who]

InitialHeap ==
    LET first == NextPollAt(0, 0)
        hours == EndTime \div Hour
        polls == Len(Script) + hours
        markers == polls + Len(Npcs)
    IN  {InitialEvent(Script[i][1], i, "scripted", Script[i][2]) :
            i \in DOMAIN Script}
        \cup {InitialEvent(h * Hour, Len(Script) + h, "agent_heartbeat", Agent) :
            h \in 1 .. hours}
        \cup {InitialEvent(first, polls + i, "npc_poll", Npcs[i]) :
            i \in DOMAIN Npcs}
        \cup {InitialEvent(Meeting[i].start, markers + i, "calendar_start", i) :
            i \in DOMAIN Meeting}
        \cup {InitialEvent(first, markers + Len(Meeting) + 1, "agent_poll",
                           Agent)}

Init ==
    /\ sim_time = 0
    /\ heap = InitialHeap
    /\ frames = <<>>
    /\ queues = [p \in Npc |-> <<>>]
    /\ busy_until = [p \in Person |-> 0]
    /\ acted_at = [p \in Npc |-> -1]
    /\ owed = [p \in Npc |-> 0]
    /\ pc = "loop"
    /\ captured = <<>>
    /\ poll_at = 0
    /\ next_poll_at = 0
    /\ baseline = 0
    /\ last_processed_poll_at = -1
    /\ last_turn_sim_time = -1
    /\ turns = 0
    /\ chain = 0
    /\ call = NoCall

\* Nothing runs once AgentDriver.run has returned.
Next ==
    \/ NpcStep /\ UNCHANGED driverVars
    \/ /\ AdvanceReturns \/ \E e \in heap : HeartbeatFires(e)
       /\ UNCHANGED <<npcVars, driverVars>>
    \/ DriverStep

Spec == Init /\ [][Next]_vars

\* One thread of control that never blocks: it always takes its next step.
FairSpec == Spec /\ WF_vars(Next)

-----------------------------------------------------------------------------
\* Types.
Event == [fire_at : Nat, event_id : Nat, kind : Kind,
          who : Person \cup DOMAIN Meeting]

TypeOK ==
    /\ sim_time \in Nat
    /\ heap \subseteq Event
    /\ frames \in Seq([target : Nat, npc : Npc \cup {Nobody},
                       head : Trigger \cup {NoTrigger}])
    /\ queues \in [Npc -> Seq(Trigger)]
    /\ busy_until \in [Person -> Nat]
    /\ acted_at \in [Npc -> Nat \cup {-1}]
    /\ owed \in [Npc -> Int]
    /\ pc \in PC
    /\ captured \in Seq(Nat)
    /\ {poll_at, next_poll_at, baseline, turns, chain} \subseteq Nat
    /\ {last_processed_poll_at, last_turn_sim_time} \subseteq Nat \cup {-1}
    /\ call \in Call

-----------------------------------------------------------------------------
\* The pending polls of an NPC, and the frames whose handler is its poll.
PendingPolls(p) == {e \in heap : e.kind = "npc_poll" /\ e.who = p}
Handling(p) == {i \in DOMAIN frames : frames[i].npc = p}

\* Every NPC has exactly one poll: pending in the heap or being handled.  No
\* path through the poll handler (runtime.py:306-406) forgets to reschedule
\* or schedules twice, and although handlers nest - a tool's cost fires other
\* NPCs' polls inside this one's - no NPC is ever entered twice.
OnePollPerNpc ==
    \A p \in Npc :
        \/ Handling(p) = {} /\ \E e \in heap : PendingPolls(p) = {e}
        \/ PendingPolls(p) = {} /\ \E i \in DOMAIN frames : Handling(p) = {i}

\* No pending event is ever earlier than the clock, which nested advances
\* move in both directions.
NothingOverdue == \A e \in heap : e.fire_at >= sim_time

\* An NPC decides at most once per tick, however long its tools take and
\* however far an enclosing advance sets the clock back afterwards
\* (runtime.py:249-272 and 403-406).
OneDecisionPerTick ==
    [][\A p \in Npc : acted_at'[p] # acted_at[p] =>
            acted_at[p] = -1 \/ acted_at'[p] >= acted_at[p] + Tick]_vars

\* An NPC takes no decision while one of the meetings it attends is under
\* way (runtime.py:278-300 and 318-323).
NoDecisionInMeeting ==
    \A p \in Npc, m \in DOMAIN Meeting :
        p \in Meeting[m].attendees =>
            ~(Meeting[m].start < acted_at[p] /\ acted_at[p] < Meeting[m].end)

\* Each decision spends exactly one trigger, whatever else arrives while the
\* reply is being written: what is queued is what was accepted less what was
\* answered, and one more during a reply (runtime.py:391-417).
OneTriggerPerReply ==
    \A p \in Npc : Len(queues[p]) = owed[p] + Cardinality(Handling(p))

\* The clock the driver's own code sees never goes back: TurnRecord times
\* and the stall counter depend on it (driver.py:229-258).
DriverClockMonotone == DriverInControl => last_turn_sim_time <= sim_time

\* When the agent decides, everything due by the clock has already happened:
\* its briefing misses nothing (driver.py:275-303, idle.py:74-98).
DecisionSeesThePast == MayDecide => Due(heap, sim_time) = {}

\* A run ends with its simulated time used up or its turns spent, never by
\* running out of polls (driver.py:162-171).
RunsToTheEnd == pc = "done" => sim_time >= EndTime \/ turns >= MaxTurns

\* The run always ends (driver.py:151-171).
Termination == <>(pc = "done")

\* Whenever the driver is about to wait for polls after a tick, a poll of the
\* agent is pending that it will not skip: the agent keeps its cadence
\* (README.md:89-90, "tick loop: every 15 sim-min (default), agent is polled").
AgentKeepsCadence ==
    pc = "wait" =>
        \E e \in heap : /\ e.kind = "agent_poll"
                       /\ e.fire_at >= next_poll_at
                       /\ e.fire_at # last_processed_poll_at

\* No NPC has replied yet.  A reply longer than the wait it is nested in makes
\* one wait capture polls of several minutes, of which all but the first are
\* cleared (driver.py:287-297).
Quiet == \A p \in Npc : acted_at[p] = -1

\* Until an NPC replies, every tick but the first opens at the minute the
\* agent's next poll was last set to, unless a call of the tick before went
\* past that minute and lost its poll: a poll that an idle.until left behind
\* never opens a tick instead (driver.py:173-188, idle.py:88-98).
TicksOpenWhenPlanned ==
    [][pc = "polled" /\ pc' = "tick" /\ last_processed_poll_at # -1 /\ Quiet
        => poll_at = next_poll_at \/ next_poll_at <= last_turn_sim_time]_vars

\* The clock never goes back (clock.py:91-94, "cannot advance backwards").
ClockNeverGoesBack == [][sim_time' >= sim_time]_vars
=============================================================================
