----------------------------- MODULE AgentDriver -----------------------------
(***************************************************************************)
(* The agent's tick loop (src/sim/agent/driver.py), with the tools that    *)
(* reach into it: idle.until, abandon.current and every tool whose declared*)
(* cost the registry pays by advancing the scheduler.                      *)
(*                                                                         *)
(* While _wait_for_next_agent_poll runs, a fallback handler captures the   *)
(* agent's polls.  At any other time a poll of the agent that falls inside *)
(* an advance has no handler and leaves no trace.                          *)
(***************************************************************************)
EXTENDS NpcRuntime

CONSTANTS EndTime,      \* DriverConfig.end_sim_time
          MaxTurns,     \* DriverConfig.max_turns
          MaxChain,     \* MAX_DECISIONS_PER_TICK
          IdleCap,      \* IDLE_UNTIL_CAP_MIN
          AgentCalls    \* the calls the agent may choose from, see Call

\* op    "act" for a tool charged after its handler, "idle" for idle.until,
\*       "abandon" for abandon.current
\* cost  minutes the call asks for: the declared cost (or the length of a
\*       wait.until), or how far ahead the idle target lies
\* cont  ToolCall.continue_in_tick
Call == [op : {"act", "idle", "abandon"}, cost : Int, cont : BOOLEAN]

ASSUME DriverAssumption ==
    /\ EndTime \in Nat /\ MaxTurns \in Nat
    /\ MaxChain \in Nat \ {0} /\ IdleCap \in Nat \ {0}
    /\ AgentCalls \subseteq Call
    /\ \A c \in AgentCalls : c.op = "act" => c.cost >= 0
    /\ \A c \in AgentCalls : c.op = "abandon" => c.cost = 2

VARIABLES pc,                       \* where AgentDriver.run stands
          captured,                 \* fire times the _capture handler saw
          poll_at,                  \* poll_event.fire_at
          next_poll_at,             \* the agent's Person.next_poll_at
          baseline,                 \* pre_tick_next_poll_at
          last_processed_poll_at,
          last_turn_sim_time,
          turns,                    \* len(self.turns)
          chain,                    \* decisions taken in this tick
          call                      \* the tool call being dispatched

pollVars == <<captured, poll_at, next_poll_at, baseline, last_processed_poll_at>>
turnVars == <<last_turn_sim_time, turns, chain, call>>
driverVars == <<pc, pollVars, turnVars>>

vars == <<kernelVars, npcVars, driverVars>>

NoCall == [op |-> "act", cost |-> 0, cont |-> FALSE]
PC == {"loop", "wait", "waiting", "polled", "tick", "acting", "tick_over",
       "close", "closing", "done"}

\* The fallback handler for actor_poll is registered.
Capturing == pc = "waiting"

Goto(label) == pc' = label

-----------------------------------------------------------------------------
\* The head of the while loop: both budgets still open, or the run is over.
LoopHead ==
    /\ DriverInControl /\ pc = "loop"
    /\ Goto(IF turns >= MaxTurns \/ sim_time >= EndTime THEN "done" ELSE "wait")
    /\ UNCHANGED <<kernelVars, npcVars, pollVars, turnVars>>

\* One round of _wait_for_next_agent_poll: advance to the next event.
WaitAdvances ==
    /\ DriverInControl /\ pc = "wait"
    /\ \E e \in heap :
         /\ IsNext(e, heap)
         /\ Enter(IF e.fire_at <= EndTime THEN e.fire_at ELSE EndTime, frames)
    /\ Goto("waiting")
    /\ UNCHANGED <<sim_time, heap, npcVars, pollVars, turnVars>>

\* No event at all is left: there will never be a poll.
WaitFindsNothing ==
    /\ DriverInControl /\ pc = "wait"
    /\ heap = {}
    /\ Goto("close")
    /\ UNCHANGED <<kernelVars, npcVars, pollVars, turnVars>>

\* Slip: the wait never ends at end_sim_time.
WaitNeverEnds ==
    /\ DriverInControl /\ pc = "waiting"
    /\ \/ captured # <<>> /\ poll_at' = Head(captured) /\ Goto("polled")
       \/ captured = <<>> /\ UNCHANGED poll_at /\ Goto("wait")
    /\ captured' = <<>>
    /\ UNCHANGED <<kernelVars, npcVars, next_poll_at, baseline,
                   last_processed_poll_at, turnVars>>

\* The round's advance has returned: the first captured poll is taken and the
\* others are cleared; without one the wait goes on, or ends at end_sim_time.
WaitEnds ==
    /\ DriverInControl /\ pc = "waiting"
    /\ \/ /\ captured # <<>>
          /\ poll_at' = Head(captured)
          /\ Goto("polled")
       \/ /\ captured = <<>>
          /\ UNCHANGED poll_at
          /\ Goto(IF sim_time >= EndTime THEN "close" ELSE "wait")
    /\ captured' = <<>>
    /\ UNCHANGED <<kernelVars, npcVars, next_poll_at, baseline,
                   last_processed_poll_at, turnVars>>

\* A poll of the agent fires inside some advance: captured, or lost.
AgentPollFires(e) ==
    /\ e.kind = "agent_poll"
    /\ Pops(e)
    /\ heap' = heap \ {e}
    /\ captured' = IF Capturing THEN Append(captured, e.fire_at) ELSE captured
    /\ UNCHANGED <<frames, npcVars, pc, poll_at, next_poll_at, baseline,
                   last_processed_poll_at, turnVars>>

\* A leftover of an idle.until, earlier than the poll it asked for, or a poll
\* at the minute of the one processed last: skipped, and nothing scheduled.
SkipPoll ==
    /\ DriverInControl /\ pc = "polled"
    /\ poll_at < next_poll_at \/ poll_at = last_processed_poll_at
    /\ Goto("loop")
    /\ UNCHANGED <<kernelVars, npcVars, pollVars, turnVars>>

\* Slip: a stale poll opens a tick too.
OpenStaleTick ==
    /\ DriverInControl /\ pc = "polled"
    /\ poll_at # last_processed_poll_at
    /\ last_processed_poll_at' = poll_at
    /\ baseline' = next_poll_at
    /\ chain' = 0
    /\ Goto("tick")
    /\ UNCHANGED <<kernelVars, npcVars, captured, poll_at, next_poll_at,
                   last_turn_sim_time, turns, call>>

\* Slip: the snapshot is taken of the wrong field.
OpenTickOtherBaseline ==
    /\ DriverInControl /\ pc = "polled"
    /\ poll_at >= next_poll_at /\ poll_at # last_processed_poll_at
    /\ last_processed_poll_at' = poll_at
    /\ baseline' = last_processed_poll_at
    /\ chain' = 0
    /\ Goto("tick")
    /\ UNCHANGED <<kernelVars, npcVars, captured, poll_at, next_poll_at,
                   last_turn_sim_time, turns, call>>

\* A fresh poll opens a tick.
OpenTick ==
    /\ DriverInControl /\ pc = "polled"
    /\ poll_at >= next_poll_at /\ poll_at # last_processed_poll_at
    /\ last_processed_poll_at' = poll_at
    /\ baseline' = next_poll_at
    /\ chain' = 0
    /\ Goto("tick")
    /\ UNCHANGED <<kernelVars, npcVars, captured, poll_at, next_poll_at,
                   last_turn_sim_time, turns, call>>

\* The tick ends before another decision: a budget is spent, or the agent has
\* no call left (StopIteration), which it may also decide at once.
StopTick ==
    /\ DriverInControl /\ pc = "tick"
    /\ Goto("tick_over")
    /\ UNCHANGED <<kernelVars, npcVars, pollVars, turnVars>>

MayDecide ==
    /\ DriverInControl /\ pc = "tick"
    /\ chain < MaxChain /\ turns < MaxTurns /\ sim_time < EndTime

\* The agent decides on a charged tool: its handler runs (a message reaches
\* the NPCs in `to`; the hop cap never applies to the agent), then the
\* registry advances by the cost, if there is one.
DecideAct(c, to) ==
    /\ MayDecide
    /\ c.op = "act"
    /\ call' = c
    /\ Route(Agent, to, sim_time)
    /\ owed' = [p \in Npc |-> owed[p] + (IF p \in to THEN 1 ELSE 0)]
    /\ IF c.cost > 0 THEN Enter(sim_time + c.cost, frames) ELSE UNCHANGED frames
    /\ Goto("acting")
    /\ UNCHANGED <<sim_time, heap, busy_until, acted_at, pollVars,
                   last_turn_sim_time, turns, chain>>

\* idle.until: the target is clamped to 1 .. IdleCap minutes ahead and stored;
\* the handler itself then advances one minute.
DecideIdle(c) ==
    /\ MayDecide
    /\ c.op = "idle"
    /\ call' = c
    /\ next_poll_at' = sim_time + (IF c.cost > IdleCap THEN IdleCap
                                   ELSE IF c.cost < 1 THEN 1 ELSE c.cost)
    /\ Enter(sim_time + 1, frames)
    /\ Goto("acting")
    /\ UNCHANGED <<sim_time, heap, npcVars, captured, poll_at, baseline,
                   last_processed_poll_at, last_turn_sim_time, turns, chain>>

\* abandon.current: a running long action is cut to two minutes from now; the
\* registry charges two minutes either way.
DecideAbandon(c) ==
    /\ MayDecide
    /\ c.op = "abandon"
    /\ call' = c
    /\ busy_until' = [busy_until EXCEPT ![Agent] =
                        IF @ > sim_time THEN sim_time + 2 ELSE @]
    /\ Enter(sim_time + 2, frames)
    /\ Goto("acting")
    /\ UNCHANGED <<sim_time, heap, queues, acted_at, owed, pollVars,
                   last_turn_sim_time, turns, chain>>

\* Slip: the recorded end of the turn counts the cost the clock already has.
CallReturnsDoubleCost ==
    /\ DriverInControl /\ pc = "acting" /\ call.op = "act"
    /\ turns' = turns + 1
    /\ chain' = chain + 1
    /\ last_turn_sim_time' = sim_time + call.cost
    /\ Goto(IF call.cont THEN "tick" ELSE "tick_over")
    /\ call' = NoCall
    /\ UNCHANGED <<kernelVars, npcVars, pollVars>>

\* The dispatch returns.  idle.until schedules the poll it promised, moved past
\* the minute it cost; the turn is recorded; the tick goes on when asked to.
CallReturns ==
    LET promised == IF next_poll_at <= sim_time THEN sim_time + 1
                                                ELSE next_poll_at
    IN  /\ DriverInControl /\ pc = "acting"
        /\ IF call.op = "idle"
           THEN /\ next_poll_at' = promised
                /\ heap' = Enqueue(heap, promised, "agent_poll", Agent)
           ELSE UNCHANGED <<next_poll_at, heap>>
        /\ turns' = turns + 1
        /\ chain' = chain + 1
        /\ last_turn_sim_time' = sim_time
        /\ Goto(IF call.cont THEN "tick" ELSE "tick_over")
        /\ call' = NoCall
        /\ UNCHANGED <<sim_time, frames, npcVars, captured, poll_at, baseline,
                       last_processed_poll_at>>

\* Slip: the check for a deferral compares with the poll, not the snapshot.
CloseTickOtherBaseline ==
    /\ DriverInControl /\ pc = "tick_over"
    /\ IF next_poll_at # poll_at
       THEN UNCHANGED <<next_poll_at, heap>>
       ELSE /\ next_poll_at' = NextPollAt(sim_time, busy_until[Agent])
            /\ heap' = Enqueue(heap, next_poll_at', "agent_poll", Agent)
    /\ Goto("loop")
    /\ UNCHANGED <<sim_time, frames, npcVars, captured, poll_at, baseline,
                   last_processed_poll_at, turnVars>>

\* End-of-tick bookkeeping: an agent that moved its own next poll is left
\* alone, any other is polled again at its cadence.
CloseTick ==
    /\ DriverInControl /\ pc = "tick_over"
    /\ IF next_poll_at # baseline
       THEN UNCHANGED <<next_poll_at, heap>>
       ELSE /\ next_poll_at' = NextPollAt(sim_time, busy_until[Agent])
            /\ heap' = Enqueue(heap, next_poll_at', "agent_poll", Agent)
    /\ Goto("loop")
    /\ UNCHANGED <<sim_time, frames, npcVars, captured, poll_at, baseline,
                   last_processed_poll_at, turnVars>>

\* Slip: the run ends where the last poll left the clock.
StopShort ==
    /\ DriverInControl /\ pc = "close"
    /\ Goto("done")
    /\ UNCHANGED <<kernelVars, npcVars, pollVars, turnVars>>

\* No poll is left before end_sim_time: run the clock out.
RunOut ==
    /\ DriverInControl /\ pc = "close"
    /\ IF sim_time < EndTime
       THEN Enter(EndTime, frames) /\ Goto("closing")
       ELSE UNCHANGED frames /\ Goto("done")
    /\ UNCHANGED <<sim_time, heap, npcVars, pollVars, turnVars>>

RunIsOut ==
    /\ DriverInControl /\ pc = "closing"
    /\ Goto("done")
    /\ UNCHANGED <<kernelVars, npcVars, pollVars, turnVars>>

DriverStep ==
    \/ LoopHead \/ WaitAdvances \/ WaitFindsNothing \/ WaitEnds
    \/ \E e \in heap : AgentPollFires(e)
    \/ SkipPoll \/ OpenTick \/ StopTick
    \/ \E c \in AgentCalls, to \in SUBSET Npc : DecideAct(c, to)
    \/ \E c \in AgentCalls : DecideIdle(c) \/ DecideAbandon(c)
    \/ CallReturns \/ CloseTick \/ RunOut \/ RunIsOut
=============================================================================
