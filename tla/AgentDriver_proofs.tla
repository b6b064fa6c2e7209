------------------------- MODULE AgentDriver_proofs -------------------------
(***************************************************************************)
(* Proofs about the agent's driver in a run of the simulation, for any     *)
(* agent, NPCs, costs, meetings and script: its clock never goes back      *)
(* although nested advances move the clock both ways, it decides with      *)
(* everything due already delivered, it stops only for its budgets, its    *)
(* ticks open when they were planned until an NPC replies, and it keeps    *)
(* its cadence when idles end their tick and replies are short.            *)
(***************************************************************************)
EXTENDS NpcRuntime_proofs

-----------------------------------------------------------------------------
(* The stack seen from the driver.                                         *)

\* The target of the outermost advance: the one the driver waits for.
Bottom == frames[Len(frames)].target

\* A step of an NPC or a heartbeat happens inside the outermost advance and
\* leaves its target alone.
LEMMA InsideTheAdvance ==
    ASSUME FramesOK, NpcStep \/ \E e \in heap : HeartbeatFires(e)
    PROVE  frames # <<>> /\ frames' # <<>> /\ Bottom' = Bottom
  <1>0. IsSeq(frames) /\ (frames # <<>> => Head(frames) = frames[1])
    BY Pop DEF FramesOK
  <1>1. ASSUME NEW e \in heap, Pops(e), frames' = frames
        PROVE  frames # <<>> /\ frames' # <<>> /\ Bottom' = Bottom
    BY <1>1 DEF Pops, Bottom
  <1>2. ASSUME NEW e \in heap, NEW to, NEW cost \in NpcCosts, NpcActs(e, to, cost)
        PROVE  frames # <<>> /\ frames' # <<>> /\ Bottom' = Bottom
    <2> DEFINE f == Frame(e.fire_at + cost, Nobody, NoTrigger)
               g == Frame(Head(frames).target, e.who, HeadTrigger(queues[e.who]))
               n == Len(frames)
    <2>1. frames # <<>> /\ frames' = <<f>> \o (<<g>> \o Tail(frames))
      BY <1>2 DEF NpcActs, Enter, Pops
    <2>2. g.target = frames[1].target
      BY <1>0, <2>1 DEF Frame
    <2> HIDE DEF f, g
    <2>3. /\ n \in Nat \ {0} /\ Len(frames') = n + 1 /\ frames'[2] = g
          /\ \A i \in 3 .. n + 1 : frames'[i] = frames[i - 1]
      BY <2>1, DecisionStack
    <2>4. frames' # <<>>
      BY <2>3, EmptySeq
    <2>5. CASE n = 1
      BY <2>1, <2>2, <2>3, <2>4, <2>5 DEF Bottom
    <2>6. CASE n # 1
      <3>1. n + 1 \in 3 .. n + 1 /\ n + 1 - 1 = n
        <4>1. n \in Nat \ {0, 1}
          BY <2>3, <2>6
        <4> HIDE DEF n
        <4> QED
          BY <4>1
      <3>2. frames'[n + 1] = frames[n]
        BY <2>3, <3>1
      <3> QED
        BY <2>1, <2>3, <2>4, <3>2 DEF Bottom
    <2> QED
      BY <2>5, <2>6
  <1>3. CASE NpcFinishes
    <2> DEFINE f == Frame(Head(frames).target, Nobody, NoTrigger)
               n == Len(frames)
    <2>1. frames # <<>> /\ frames' = <<f>> \o Tail(frames)
      BY <1>3 DEF NpcFinishes, NpcInControl
    <2>2. f.target = frames[1].target
      BY <1>0, <2>1 DEF Frame
    <2> HIDE DEF f
    <2>3. /\ n \in Nat \ {0} /\ Len(frames') = n /\ frames'[1] = f
          /\ \A i \in 2 .. n : frames'[i] = frames[i]
      BY <1>0, <2>1, Update
    <2>4. frames' # <<>>
      BY <2>3, EmptySeq
    <2> QED
      BY <2>1, <2>2, <2>3, <2>4 DEF Bottom
  <1>4. ASSUME NEW e \in heap,
               \/ NpcSkips(e) \/ MeetingStarts(e) \/ HeartbeatFires(e)
               \/ \E dropped \in BOOLEAN : ScriptedMessage(e, dropped)
        PROVE  frames # <<>> /\ frames' # <<>> /\ Bottom' = Bottom
    BY <1>1, <1>4 DEF NpcSkips, MeetingStarts, HeartbeatFires, ScriptedMessage
  <1> QED
    BY <1>2, <1>3, <1>4 DEF NpcStep

\* An advance that ends uncovers the one around it, or returns to the driver
\* with the clock at the target it asked for and nothing due by then.
LEMMA AnAdvanceEnds ==
    ASSUME FramesOK, AdvanceReturns
    PROVE  /\ frames # <<>>
           /\ \/ frames' # <<>> /\ Bottom' = Bottom
              \/ /\ frames' = <<>> /\ sim_time' = Bottom
                 /\ Due(heap', sim_time') = {}
  <1> DEFINE n == Len(frames)
  <1>1. /\ frames # <<>> /\ frames' = Tail(frames) /\ heap' = heap
        /\ sim_time' = frames[1].target /\ Due(heap, sim_time') = {}
    BY Pop DEF AdvanceReturns, FramesOK
  <1>2. /\ n \in Nat \ {0} /\ Len(frames') = n - 1
        /\ \A i \in 1 .. n - 1 : frames'[i] = frames[i + 1]
        /\ IsSeq(frames')
    BY <1>1, Pop DEF FramesOK
  <1>3. CASE n = 1
    <2>1. frames' = <<>>
      BY <1>2, <1>3, EmptySeq DEF IsSeq
    <2> QED
      BY <1>1, <1>3, <2>1 DEF Bottom
  <1>4. CASE n # 1
    <2>1. frames' # <<>> /\ n - 1 \in 1 .. n - 1
      BY <1>2, <1>4, EmptySeq
    <2>2. frames'[n - 1] = frames[n]
      BY <1>2, <2>1
    <2> QED
      BY <1>1, <1>2, <2>1, <2>2 DEF Bottom
  <1> QED
    BY <1>3, <1>4

\* The stack of an advance the driver has just begun.
LEMMA TheDriverAdvances ==
    ASSUME frames = <<>>, NEW target, Enter(target, frames)
    PROVE  /\ frames' # <<>> /\ Bottom' = target /\ Len(frames') = 1
           /\ Head(frames').npc = Nobody /\ frames'[1].target = target
  <1> DEFINE f == Frame(target, Nobody, NoTrigger)
  <1>1. frames' = <<f>> \o <<>> /\ f.target = target /\ f.npc = Nobody
    BY DEF Enter, Frame
  <1>2. IsSeq(<<>>) /\ Len(<<>>) = 0
    BY EmptySeq DEF IsSeq
  <1> HIDE DEF f
  <1>3. /\ Len(frames') = 1 /\ frames'[1] = f /\ frames' # <<>>
        /\ Head(frames') = f
    BY <1>1, <1>2, Push
  <1> QED
    BY <1>1, <1>3 DEF Bottom

-----------------------------------------------------------------------------
(* The driver's clock.  Inside an advance the clock moves both ways, so    *)
(* what the driver relies on is where the outermost advance will leave it: *)
(* at its target.                                                          *)

\* The clock as the driver sees it now, or will when its advance returns.
Horizon == IF frames = <<>> THEN sim_time ELSE Bottom

\* What the driver does between an advance and the next wait: everything due
\* by then has fired.
Delivered == {"waiting", "polled", "tick", "acting", "tick_over"}

DriverOK ==
    /\ frames # <<>> => pc \in {"waiting", "acting", "closing"}
    /\ last_turn_sim_time \in Nat \cup {-1} /\ last_turn_sim_time <= Horizon
    /\ pc = "wait" => sim_time < EndTime
    /\ pc = "closing" => EndTime <= Horizon
    /\ RunsToTheEnd
    /\ frames = <<>> /\ pc \in Delivered => Due(heap, sim_time) = {}

\* The horizon is a time, not before the clock while the driver is in control.
LEMMA HorizonType ==
    ASSUME NumbersOK, FramesOK PROVE Horizon \in Nat
  <1>1. frames # <<>> => Len(frames) \in DOMAIN frames
    BY Pop, SeqDomain DEF FramesOK
  <1> QED
    BY <1>1 DEF Horizon, Bottom, NumbersOK, FramesOK

\* A step that leaves the driver alone and keeps the horizon.
LEMMA OthersPreserveDriverOK ==
    ASSUME SimulationInv, DriverOK, UNCHANGED driverVars,
           \/ NpcStep \/ \E e \in heap : HeartbeatFires(e)
           \/ AdvanceReturns
    PROVE  DriverOK'
  <1>0. FramesOK
    BY DEF SimulationInv
  <1>1. /\ pc' = pc /\ last_turn_sim_time' = last_turn_sim_time /\ turns' = turns
        /\ frames # <<>> /\ pc \in {"waiting", "acting", "closing"}
    BY <1>0, InsideTheAdvance, AnAdvanceEnds
       DEF driverVars, turnVars, DriverOK
  <1>2. \/ frames' # <<>> /\ Bottom' = Bottom
        \/ frames' = <<>> /\ sim_time' = Bottom /\ Due(heap', sim_time') = {}
    BY <1>0, InsideTheAdvance, AnAdvanceEnds
  <1>3. Horizon' = Horizon
    BY <1>1, <1>2 DEF Horizon
  <1> QED
    BY <1>1, <1>2, <1>3 DEF DriverOK, RunsToTheEnd

\* A poll of the agent that fires inside an advance.
LEMMA AgentPollPreservesDriverOK ==
    ASSUME DriverOK, NEW e \in heap, AgentPollFires(e)
    PROVE  DriverOK'
  <1>1. /\ pc' = pc /\ last_turn_sim_time' = last_turn_sim_time /\ turns' = turns
        /\ frames # <<>> /\ frames' = frames
    BY DEF AgentPollFires, turnVars, Pops
  <1> QED
    BY <1>1 DEF DriverOK, Horizon, Bottom, RunsToTheEnd

\* Each step of the driver's own code.
LEMMA DriverPreservesDriverOK ==
    ASSUME SimulationInv, DriverOK, DriverStep
    PROVE  DriverOK'
  <1>0. /\ sim_time \in Nat /\ EndTime \in Nat /\ NumbersOK /\ FramesOK
        /\ \A e \in heap : e.fire_at \in Nat /\ e.fire_at >= sim_time
        /\ last_turn_sim_time \in Nat \cup {-1}
    BY DriverAssumption DEF SimulationInv, NumbersOK, HeapOK, DriverOK
  <1>1. CASE LoopHead
    BY <1>0, <1>1
       DEF LoopHead, DriverInControl, Goto, kernelVars, turnVars, DriverOK,
           Horizon, RunsToTheEnd, Delivered
  <1>2. CASE WaitAdvances
    <2>1. PICK target \in Nat : Enter(target, frames) /\ target >= sim_time
      BY <1>0, <1>2 DEF WaitAdvances, DriverInControl, DriverOK
    <2>2. frames = <<>> /\ frames' # <<>> /\ Bottom' = target
      BY <1>2, <2>1, TheDriverAdvances DEF WaitAdvances, DriverInControl
    <2> QED
      BY <1>0, <1>2, <2>1, <2>2
         DEF WaitAdvances, Goto, turnVars, DriverOK, Horizon, RunsToTheEnd
  <1>3. CASE WaitFindsNothing
    BY <1>0, <1>3
       DEF WaitFindsNothing, DriverInControl, Goto, kernelVars, turnVars,
           DriverOK, Horizon, RunsToTheEnd, Delivered
  <1>4. CASE WaitEnds
    BY <1>0, <1>4
       DEF WaitEnds, DriverInControl, Goto, kernelVars, turnVars,
           DriverOK, Horizon, RunsToTheEnd, Delivered
  <1>5. ASSUME NEW e \in heap, AgentPollFires(e) PROVE DriverOK'
    BY <1>5, AgentPollPreservesDriverOK
  <1>6. CASE SkipPoll \/ OpenTick \/ StopTick
    BY <1>0, <1>6
       DEF SkipPoll, OpenTick, StopTick, DriverInControl, Goto, kernelVars,
           turnVars, DriverOK, Horizon, RunsToTheEnd, Delivered
  <1>7. ASSUME NEW c \in AgentCalls, NEW to, DecideAct(c, to) PROVE DriverOK'
    <2>0. /\ frames = <<>> /\ pc = "tick" /\ pc' = "acting" /\ heap' = heap
          /\ sim_time' = sim_time /\ last_turn_sim_time' = last_turn_sim_time
      BY <1>7 DEF DecideAct, MayDecide, DriverInControl, Goto
    <2>1. CASE c.cost > 0
      <3>1. sim_time + c.cost \in Nat /\ sim_time + c.cost >= sim_time
        BY <1>0, <1>7, <2>1, DriverAssumption DEF DecideAct, Call
      <3>2. frames' # <<>> /\ Bottom' = sim_time + c.cost
        BY <1>7, <2>0, <2>1, TheDriverAdvances DEF DecideAct
      <3> QED
        BY <1>0, <2>0, <3>1, <3>2 DEF DriverOK, Horizon, RunsToTheEnd
    <2>2. CASE ~(c.cost > 0)
      <3>1. frames' = frames
        BY <1>7, <2>2 DEF DecideAct
      <3> QED
        BY <2>0, <3>1 DEF DriverOK, Horizon, RunsToTheEnd, Delivered
    <2> QED
      BY <2>1, <2>2
  <1>8. ASSUME NEW c \in AgentCalls, DecideIdle(c) \/ DecideAbandon(c)
        PROVE  DriverOK'
    <2>0. /\ frames = <<>> /\ pc = "tick" /\ pc' = "acting"
          /\ last_turn_sim_time' = last_turn_sim_time
      BY <1>8 DEF DecideIdle, DecideAbandon, MayDecide, DriverInControl, Goto,
                  turnVars
    <2>1. PICK target \in Nat : Enter(target, frames) /\ target >= sim_time
      BY <1>0, <1>8 DEF DecideIdle, DecideAbandon
    <2>2. frames' # <<>> /\ Bottom' = target
      BY <2>0, <2>1, TheDriverAdvances
    <2> QED
      BY <1>0, <2>0, <2>1, <2>2 DEF DriverOK, Horizon, RunsToTheEnd
  <1>9. CASE CallReturns \/ CloseTick
    <2>0. /\ frames = <<>> /\ pc \in Delivered /\ Due(heap, sim_time) = {}
          /\ sim_time' = sim_time /\ frames' = frames
          /\ pc' \in {"tick", "tick_over", "loop"}
          /\ last_turn_sim_time' \in {sim_time, last_turn_sim_time}
      BY <1>9 DEF CallReturns, CloseTick, DriverInControl, Goto, turnVars,
                  DriverOK, Delivered
    <2>1. heap' = heap \/ \E at \in Nat : /\ at > sim_time
                 /\ heap' = Enqueue(heap, at, "agent_poll", Agent)
      <3>1. CASE CallReturns
        BY <1>0, <3>1 DEF CallReturns, SimulationInv, NumbersOK
      <3>2. CASE CloseTick
        <4>1. busy_until[Agent] \in Nat
          BY <1>0 DEF NumbersOK, Person
        <4> DEFINE at == NextPollAt(sim_time, busy_until[Agent])
        <4>2. at \in Nat /\ at > sim_time
          BY <1>0, <4>1, TickAssumption DEF NextPollAt, Later
        <4>3. heap' = heap \/ heap' = Enqueue(heap, at, "agent_poll", Agent)
          BY <3>2 DEF CloseTick
        <4> HIDE DEF at
        <4> QED
          BY <4>2, <4>3
      <3> QED
        BY <1>9, <3>1, <3>2
    <2>2. Due(heap', sim_time) = {}
      <3>1. CASE heap' = heap
        BY <2>0, <3>1
      <3>2. CASE \E at \in Nat : /\ at > sim_time
                 /\ heap' = Enqueue(heap, at, "agent_poll", Agent)
        <4>1. PICK at \in Nat : /\ at > sim_time
                 /\ heap' = Enqueue(heap, at, "agent_poll", Agent)
          BY <3>2
        <4>2. \A e \in heap' : e \in heap \/ e.fire_at = at
          BY <4>1 DEF Enqueue
        <4>3. ~(at <= sim_time)
          BY <1>0, <4>1
        <4> QED
          BY <2>0, <4>2, <4>3 DEF Due
      <3> QED
        BY <2>1, <3>1, <3>2
    <2> QED
      BY <1>0, <2>0, <2>2 DEF DriverOK, Horizon, RunsToTheEnd, Delivered
  <1>10. CASE RunOut
    <2>1. CASE sim_time < EndTime
      <3>1. frames = <<>> /\ frames' # <<>> /\ Bottom' = EndTime
        BY <1>10, <2>1, TheDriverAdvances DEF RunOut, DriverInControl
      <3> QED
        BY <1>0, <1>10, <2>1, <3>1
           DEF RunOut, Goto, turnVars, DriverOK, Horizon, RunsToTheEnd
    <2>2. CASE ~(sim_time < EndTime)
      BY <1>0, <1>10, <2>2
         DEF RunOut, DriverInControl, Goto, turnVars, DriverOK, Horizon,
             RunsToTheEnd, Delivered
    <2> QED
      BY <2>1, <2>2
  <1>11. CASE RunIsOut
    BY <1>0, <1>11
       DEF RunIsOut, DriverInControl, Goto, kernelVars, turnVars, DriverOK,
           Horizon, RunsToTheEnd, Delivered
  <1> QED
    BY <1>1, <1>2, <1>3, <1>4, <1>5, <1>6, <1>7, <1>8, <1>9, <1>10, <1>11
       DEF DriverStep

\* The driver's invariant, beside that of the NPCs.
LEMMA DriverInvariance == Spec => [](SimulationInv /\ DriverOK)
  <1>1. Init => DriverOK
    BY DEF Init, DriverOK, Horizon, RunsToTheEnd, Delivered
  <1>2. SimulationInv /\ DriverOK /\ [Next]_vars => DriverOK'
    <2> SUFFICES ASSUME SimulationInv, DriverOK, [Next]_vars PROVE DriverOK'
      OBVIOUS
    <2>1. CASE DriverStep
      BY <2>1, DriverPreservesDriverOK
    <2>2. CASE Next /\ ~DriverStep
      BY <2>2, OthersPreserveDriverOK DEF Next
    <2>3. CASE UNCHANGED vars
      BY <2>3 DEF vars, kernelVars, driverVars, turnVars, DriverOK, Horizon,
                  Bottom, RunsToTheEnd, Delivered
    <2> QED
      BY <2>1, <2>2, <2>3
  <1> QED
    BY Invariance, <1>1, <1>2, PTL DEF Spec

\* The clock the driver's own code sees never goes back: it is never before
\* the end of the last recorded turn.
THEOREM TheDriversClockIsMonotone == Spec => []DriverClockMonotone
  <1>1. DriverOK => DriverClockMonotone
    BY DEF DriverOK, DriverClockMonotone, DriverInControl, Horizon
  <1> QED
    BY DriverInvariance, <1>1, PTL

\* When the agent decides, nothing due by the clock is still pending.
THEOREM TheAgentSeesThePast == Spec => []DecisionSeesThePast
  <1>1. DriverOK => DecisionSeesThePast
    BY DEF DriverOK, DecisionSeesThePast, MayDecide, DriverInControl, Delivered
  <1> QED
    BY DriverInvariance, <1>1, PTL

\* A run stops with its simulated time used up or its turns spent.
THEOREM RunsStopForTheirBudgets == Spec => []RunsToTheEnd
  <1>1. DriverOK => RunsToTheEnd
    BY DEF DriverOK
  <1> QED
    BY DriverInvariance, <1>1, PTL

-----------------------------------------------------------------------------
(* The ticks of a run without replies.  Then at most one advance is active *)
(* and a wait captures polls of a single minute.  What has to be carried   *)
(* from step to step is where the poll the agent asked for last has got    *)
(* to: it is pending, it has just been captured, or it is yet to be        *)
(* scheduled, unless a call went past its minute.                          *)

InTick == pc \in {"tick", "acting", "tick_over"}

\* The poll asked for last is pending.
PollPending == \E e \in heap : e.kind = "agent_poll" /\ e.fire_at = next_poll_at

\* The other places it may be in.
PollHeld ==
    \/ InTick /\ next_poll_at = baseline
    \/ pc = "acting" /\ (next_poll_at <= Horizon \/ call.op = "idle")
    \/ pc = "waiting" /\ \E i \in DOMAIN captured : captured[i] = next_poll_at
    \/ pc = "polled" /\ poll_at = next_poll_at
    \/ pc \in {"close", "closing", "done"}

OneAdvance == frames # <<>> => Len(frames) = 1 /\ frames[1].npc = Nobody

WaitIsShort ==
    /\ pc = "waiting" =>
          /\ frames # <<>> => \A e \in heap : e.fire_at >= Bottom
          /\ \A i \in DOMAIN captured : captured[i] = Horizon
    /\ pc # "waiting" => captured = <<>>
    /\ pc = "polled" => poll_at = sim_time

NextIsAhead ==
    /\ last_processed_poll_at <= Horizon
    /\ InTick => /\ baseline <= last_processed_poll_at
                 /\ next_poll_at = baseline \/ next_poll_at > last_processed_poll_at
    /\ pc \in {"tick", "tick_over"} /\ next_poll_at # baseline =>
            last_turn_sim_time = sim_time
    /\ last_processed_poll_at # -1 /\ ~InTick =>
            next_poll_at > last_processed_poll_at

PollAwaited ==
    last_processed_poll_at # -1 /\ next_poll_at > last_turn_sim_time =>
        PollPending \/ PollHeld

Planned == Quiet => OneAdvance /\ WaitIsShort /\ NextIsAhead /\ PollAwaited

\* What the proofs below take from the other invariants.
DriverInv == SimulationInv /\ DriverOK /\ DriverType

\* While nobody has replied, an NPC's step or a heartbeat only pops an event
\* that is no poll of the agent and schedules later ones.
LEMMA QuietSteps ==
    ASSUME SimulationInv, Quiet, Quiet', OneAdvance,
           NpcStep \/ \E e \in heap : HeartbeatFires(e)
    PROVE  /\ frames # <<>> /\ frames' = frames
           /\ PollPending /\ next_poll_at' = next_poll_at => PollPending'
           /\ (\A e \in heap : e.fire_at >= Bottom) =>
                    \A e \in heap' : e.fire_at >= Bottom
  <1>0. /\ NumbersOK /\ HeapOK /\ FramesOK
        /\ frames # <<>> => Head(frames) = frames[1] /\ Bottom = frames[1].target
    BY Pop DEF SimulationInv, FramesOK, OneAdvance, Bottom
  <1> DEFINE Goal ==
               /\ frames # <<>> /\ frames' = frames
               /\ PollPending /\ next_poll_at' = next_poll_at => PollPending'
               /\ (\A e \in heap : e.fire_at >= Bottom) =>
                        \A e \in heap' : e.fire_at >= Bottom
  <1>1. ASSUME NEW e \in heap, Pops(e), e.kind # "agent_poll", frames' = frames,
               heap' = heap \ {e}
        PROVE  Goal
    BY <1>1 DEF Pops, PollPending
  <1>2. ASSUME NEW e \in heap, NpcSkips(e)
        PROVE  Goal
    <2>1. e.who \in Npc /\ e.fire_at \in Nat /\ e.kind = "npc_poll"
      BY <1>0, <1>2 DEF NpcSkips, HeapOK
    <2>2. busy_until[e.who] \in Nat
      BY <1>0, <2>1 DEF NumbersOK, Person
    <2>3. PICK at : at = NextPollAt(e.fire_at, busy_until[e.who])
      OBVIOUS
    <2>4. at \in Nat /\ at >= e.fire_at
      BY <2>1, <2>2, <2>3, NextPollAtBounds
    <2>5. PICK id : heap' = (heap \ {e}) \cup
              {[fire_at |-> at, event_id |-> id, kind |-> "npc_poll",
                who |-> e.who]}
      BY <1>2, <2>3 DEF NpcSkips, Reschedule, Enqueue
    <2>6. frames # <<>> /\ frames' = frames
      BY <1>2 DEF NpcSkips, Pops
    <2>7. PollPending /\ next_poll_at' = next_poll_at => PollPending'
      BY <2>1, <2>5 DEF PollPending
    <2>8. ASSUME \A f \in heap : f.fire_at >= Bottom
          PROVE  \A f \in heap' : f.fire_at >= Bottom
      <3>1. Bottom \in Nat /\ at >= Bottom
        <4>1. 1 \in DOMAIN frames
          BY <1>0, <2>6, Pop, SeqDomain DEF FramesOK
        <4>2. Bottom \in Nat /\ e.fire_at >= Bottom
          BY <1>0, <2>6, <2>8, <4>1 DEF FramesOK
        <4> QED
          BY <2>1, <2>4, <4>2
      <3> QED
        BY <2>5, <2>8, <3>1
    <2> QED
      BY <2>6, <2>7, <2>8
  <1>3. ASSUME NEW e \in heap, NEW to, NEW cost \in NpcCosts, NpcActs(e, to, cost)
        PROVE  FALSE
    <2>1. e.who \in Npc /\ e.fire_at \in Nat
      BY <1>0, <1>3 DEF NpcActs, HeapOK
    <2>2. acted_at'[e.who] = e.fire_at
      BY <1>0, <1>3, <2>1 DEF NpcActs, NumbersOK
    <2> QED
      BY <2>1, <2>2 DEF Quiet
  <1>4. ~NpcFinishes
    BY <1>0 DEF NpcFinishes, NpcInControl, OneAdvance
  <1>5. ASSUME NEW e \in heap,
               \/ MeetingStarts(e) \/ HeartbeatFires(e)
               \/ \E dropped \in BOOLEAN : ScriptedMessage(e, dropped)
        PROVE  Goal
    BY <1>1, <1>5 DEF MeetingStarts, HeartbeatFires, ScriptedMessage
  <1> QED
    BY <1>2, <1>3, <1>4, <1>5 DEF NpcStep

\* Once an NPC has replied the run is never quiet again.
LEMMA QuietComesFirst ==
    ASSUME SimulationInv, [Next]_vars, Quiet'
    PROVE  Quiet
  <1>0. NumbersOK /\ HeapOK /\ FramesOK
    BY DEF SimulationInv
  <1>1. acted_at' = acted_at \/ \E e \in heap : /\ e.who \in Npc /\ e.fire_at \in Nat
              /\ acted_at' = [acted_at EXCEPT ![e.who] = e.fire_at]
    <2>1. CASE DriverStep
      BY <1>0, <2>1, DriverEffect
    <2>2. CASE NpcStep
      BY <1>0, <2>2
         DEF NpcStep, NpcSkips, NpcActs, NpcFinishes, MeetingStarts,
             ScriptedMessage, npcVars, HeapOK
    <2>3. CASE UNCHANGED npcVars
      BY <2>3 DEF npcVars
    <2> QED
      BY <2>1, <2>2, <2>3 DEF Next, vars
  <1> QED
    BY <1>0, <1>1 DEF Quiet, NumbersOK

\* The steps that are not the driver's.
LEMMA OthersPreservePlanned ==
    ASSUME DriverInv, Quiet, Quiet', UNCHANGED driverVars,
           OneAdvance, WaitIsShort, NextIsAhead, PollAwaited,
           \/ NpcStep \/ \E e \in heap : HeartbeatFires(e)
           \/ AdvanceReturns
    PROVE  OneAdvance' /\ WaitIsShort' /\ NextIsAhead' /\ PollAwaited'
  <1>0. /\ pc' = pc /\ captured' = captured /\ poll_at' = poll_at
        /\ next_poll_at' = next_poll_at /\ baseline' = baseline /\ call' = call
        /\ last_processed_poll_at' = last_processed_poll_at
        /\ last_turn_sim_time' = last_turn_sim_time
    BY DEF driverVars, pollVars, turnVars
  <1>1. CASE NpcStep \/ \E e \in heap : HeartbeatFires(e)
    <2>1. /\ frames # <<>> /\ frames' = frames
          /\ PollPending => PollPending'
          /\ (\A e \in heap : e.fire_at >= Bottom) =>
                    \A e \in heap' : e.fire_at >= Bottom
      BY <1>0, <1>1, QuietSteps DEF DriverInv
    <2>2. Bottom' = Bottom /\ Horizon' = Horizon
      BY <2>1 DEF Bottom, Horizon
    <2>3. pc \in {"waiting", "acting", "closing"}
      BY <2>1 DEF DriverInv, DriverOK
    <2>4. OneAdvance' /\ NextIsAhead'
      BY <1>0, <2>1, <2>2, <2>3 DEF OneAdvance, NextIsAhead, InTick
    <2>5. WaitIsShort'
      BY <1>0, <2>1, <2>2, <2>3 DEF WaitIsShort
    <2>6. PollAwaited'
      BY <1>0, <2>1, <2>2 DEF PollAwaited, PollHeld, InTick
    <2> QED
      BY <2>4, <2>5, <2>6
  <1>2. CASE AdvanceReturns
    <2>1. FramesOK /\ frames # <<>>
      BY <1>2 DEF DriverInv, SimulationInv, AdvanceReturns
    <2>2. frames' = <<>> /\ sim_time' = Bottom /\ heap' = heap
      <3>1. /\ frames' = Tail(frames) /\ sim_time' = Head(frames).target
            /\ heap' = heap
        BY <1>2 DEF AdvanceReturns
      <3>2. /\ Head(frames) = frames[1] /\ Len(frames) = 1 /\ IsSeq(Tail(frames))
            /\ Len(Tail(frames)) = 0
        BY <2>1, Pop DEF FramesOK, OneAdvance
      <3>3. Tail(frames) = <<>>
        BY <3>2, EmptySeq DEF IsSeq
      <3> QED
        BY <3>1, <3>2, <3>3 DEF Bottom
    <2>3. Horizon' = Horizon
      BY <2>1, <2>2 DEF Horizon
    <2>4. pc \in {"waiting", "acting", "closing"}
      BY <2>1 DEF DriverInv, DriverOK
    <2>5. OneAdvance' /\ WaitIsShort'
      BY <1>0, <2>2, <2>3, <2>4 DEF OneAdvance, WaitIsShort
    <2>6. NextIsAhead'
      BY <1>0, <2>3, <2>4 DEF NextIsAhead, InTick
    <2>7. PollAwaited'
      BY <1>0, <2>2, <2>3 DEF PollAwaited, PollPending, PollHeld, InTick
    <2> QED
      BY <2>5, <2>6, <2>7
  <1> QED
    BY <1>1, <1>2

\* A poll of the agent fires: the wait captures it at its own minute, a call
\* that is under way loses it.
LEMMA AgentPollPreservesPlanned ==
    ASSUME DriverInv, NEW e \in heap, AgentPollFires(e),
           OneAdvance, WaitIsShort, NextIsAhead, PollAwaited
    PROVE  OneAdvance' /\ WaitIsShort' /\ NextIsAhead' /\ PollAwaited'
  <1>0. /\ pc' = pc /\ poll_at' = poll_at /\ frames' = frames /\ frames # <<>>
        /\ next_poll_at' = next_poll_at /\ baseline' = baseline /\ call' = call
        /\ last_processed_poll_at' = last_processed_poll_at
        /\ last_turn_sim_time' = last_turn_sim_time
        /\ heap' = heap \ {e}
        /\ captured' = IF pc = "waiting" THEN Append(captured, e.fire_at)
                                         ELSE captured
    BY DEF AgentPollFires, turnVars, Pops, Capturing
  <1>1. /\ Bottom' = Bottom /\ Horizon' = Horizon /\ Horizon = Bottom
        /\ pc \in {"waiting", "acting", "closing"}
    BY <1>0 DEF Bottom, Horizon, DriverInv, DriverOK
  <1>2. e.fire_at <= Bottom /\ e.fire_at \in Nat /\ Bottom \in Nat
    <2>1. NumbersOK /\ HeapOK /\ FramesOK
      BY DEF DriverInv, SimulationInv
    <2>2. Head(frames) = frames[1] /\ 1 \in DOMAIN frames
      BY <1>0, <2>1, Pop, SeqDomain DEF FramesOK
    <2> QED
      BY <1>0, <2>1, <2>2
         DEF AgentPollFires, Pops, HeapOK, FramesOK, Bottom, OneAdvance
  <1>3. OneAdvance' /\ NextIsAhead'
    BY <1>0, <1>1 DEF OneAdvance, NextIsAhead, InTick
  <1>4. CASE pc = "waiting"
    <2>1. e.fire_at = Horizon
      BY <1>0, <1>1, <1>2, <1>4 DEF WaitIsShort
    <2>2. captured \in Seq(Nat) /\ captured' = Append(captured, e.fire_at)
      BY <1>0, <1>4 DEF DriverInv, DriverType
    <2>3. /\ \A i \in DOMAIN captured' :
                \/ captured'[i] = e.fire_at
                \/ i \in DOMAIN captured /\ captured'[i] = captured[i]
          /\ \A i \in DOMAIN captured :
                i \in DOMAIN captured' /\ captured'[i] = captured[i]
          /\ \E i \in DOMAIN captured' : captured'[i] = e.fire_at
      <3>1. /\ Len(captured) \in Nat /\ DOMAIN captured = 1 .. Len(captured)
            /\ DOMAIN captured' = 1 .. Len(captured) + 1
            /\ \A i \in 1 .. Len(captured) : captured'[i] = captured[i]
            /\ captured'[Len(captured) + 1] = e.fire_at
        BY <1>2, <2>2, LenProperties, AppendProperties
      <3> QED
        BY <3>1
    <2>4. WaitIsShort'
      BY <1>0, <1>1, <1>4, <2>1, <2>3 DEF WaitIsShort
    <2>5. PollAwaited'
      BY <1>0, <1>1, <1>4, <2>1, <2>3
         DEF PollAwaited, PollPending, PollHeld, InTick
    <2> QED
      BY <1>3, <2>4, <2>5
  <1>5. CASE pc # "waiting"
    <2>1. WaitIsShort'
      BY <1>0, <1>1, <1>5 DEF WaitIsShort
    <2>2. PollAwaited'
      BY <1>0, <1>1, <1>2, <1>5 DEF PollAwaited, PollPending, PollHeld, InTick
    <2> QED
      BY <1>3, <2>1, <2>2
  <1> QED
    BY <1>4, <1>5

\* The driver's own steps between two waits, up to the first decision.
LEMMA WaitingPreservesPlanned ==
    ASSUME DriverInv, OneAdvance, WaitIsShort, NextIsAhead, PollAwaited,
           LoopHead \/ WaitAdvances \/ WaitFindsNothing \/ WaitEnds \/ SkipPoll
    PROVE  OneAdvance' /\ WaitIsShort' /\ NextIsAhead' /\ PollAwaited'
  <1> DEFINE Goal == OneAdvance' /\ WaitIsShort' /\ NextIsAhead' /\ PollAwaited'
  <1>0. /\ sim_time \in Nat /\ EndTime \in Nat /\ next_poll_at \in Nat
        /\ \A e \in heap : e.fire_at \in Nat /\ e.fire_at >= sim_time
        /\ frames = <<>> /\ Horizon = sim_time
        /\ next_poll_at' = next_poll_at /\ baseline' = baseline
        /\ last_processed_poll_at' = last_processed_poll_at
        /\ last_turn_sim_time' = last_turn_sim_time
        /\ sim_time' = sim_time /\ heap' = heap
    BY DriverAssumption
       DEF DriverInv, SimulationInv, NumbersOK, HeapOK, LoopHead, WaitAdvances,
           WaitFindsNothing, WaitEnds, SkipPoll, DriverInControl, kernelVars,
           pollVars, turnVars, Horizon
  <1>1. CASE LoopHead
    <2>1. /\ frames' = frames /\ captured' = captured /\ pc = "loop"
          /\ pc' \in {"done", "wait"} /\ Horizon' = Horizon
      BY <1>0, <1>1 DEF LoopHead, Goto, kernelVars, pollVars, Horizon
    <2> QED
      BY <1>0, <2>1
         DEF OneAdvance, WaitIsShort, NextIsAhead, PollAwaited, PollPending,
             PollHeld, InTick
  <1>2. CASE WaitAdvances
    <2>1. PICK e \in heap : /\ IsNext(e, heap)
                            /\ Enter(IF e.fire_at <= EndTime THEN e.fire_at
                                     ELSE EndTime, frames)
      BY <1>2 DEF WaitAdvances
    <2>2. PICK target : target = IF e.fire_at <= EndTime THEN e.fire_at ELSE EndTime
      OBVIOUS
    <2>3. /\ frames' # <<>> /\ Bottom' = target /\ Len(frames') = 1
          /\ Head(frames').npc = Nobody /\ frames'[1].npc = Nobody
      <3>1. Enter(target, frames)
        BY <2>1, <2>2
      <3>2. frames' = <<Frame(target, Nobody, NoTrigger)>> \o <<>>
        BY <1>0, <3>1 DEF Enter
      <3>3. frames'[1] = Frame(target, Nobody, NoTrigger)
        BY <3>2, Push, EmptySeq DEF IsSeq
      <3> QED
        BY <1>0, <3>1, <3>3, TheDriverAdvances DEF Frame
    <2>4. /\ captured' = captured /\ pc = "wait" /\ pc' = "waiting"
          /\ Horizon' = target
      BY <1>2, <2>3 DEF WaitAdvances, Goto, pollVars, Horizon
    <2>5. /\ \A f \in heap : f.fire_at >= target
          /\ target \in Nat /\ target >= sim_time
      BY <1>0, <1>2, <2>1, <2>2, <2>4
         DEF IsNext, Before, DriverInv, DriverOK
    <2>6. OneAdvance'
      BY <2>3 DEF OneAdvance
    <2>7. WaitIsShort'
      BY <1>0, <2>3, <2>4, <2>5 DEF WaitIsShort
    <2>8. NextIsAhead'
      BY <1>0, <2>4, <2>5 DEF NextIsAhead, InTick, DriverInv, DriverType
    <2>9. PollAwaited'
      BY <1>0, <2>4 DEF PollAwaited, PollPending, PollHeld, InTick
    <2> QED
      BY <2>6, <2>7, <2>8, <2>9
  <1>3. CASE WaitFindsNothing
    <2>1. /\ frames' = frames /\ captured' = captured /\ pc = "wait"
          /\ pc' = "close" /\ Horizon' = Horizon
      BY <1>0, <1>3 DEF WaitFindsNothing, Goto, kernelVars, pollVars, Horizon
    <2> QED
      BY <1>0, <2>1
         DEF OneAdvance, WaitIsShort, NextIsAhead, PollAwaited, PollHeld, InTick
  <1>4. CASE WaitEnds
    <2>1. /\ frames' = frames /\ pc = "waiting" /\ captured' = <<>>
          /\ Horizon' = Horizon
          /\ \A i \in DOMAIN captured : captured[i] = sim_time
      BY <1>0, <1>4 DEF WaitEnds, kernelVars, Horizon, WaitIsShort
    <2>2. \/ /\ captured # <<>> /\ pc' = "polled" /\ poll_at' = sim_time
          \/ captured = <<>> /\ pc' \in {"close", "wait"}
      <3>1. captured # <<>> => Head(captured) = sim_time
        <4>1. captured # <<>> => 1 \in DOMAIN captured /\ Head(captured) = captured[1]
          BY Pop, SeqDomain DEF DriverInv, DriverType, IsSeq
        <4> QED
          BY <2>1, <4>1
      <3> QED
        BY <1>4, <3>1 DEF WaitEnds, Goto
    <2>3. OneAdvance' /\ WaitIsShort'
      BY <1>0, <2>1, <2>2 DEF OneAdvance, WaitIsShort
    <2>4. NextIsAhead'
      BY <1>0, <2>1, <2>2 DEF NextIsAhead, InTick
    <2>5. PollAwaited'
      BY <1>0, <2>1, <2>2 DEF PollAwaited, PollPending, PollHeld, InTick
    <2> QED
      BY <2>3, <2>4, <2>5
  <1>5. CASE SkipPoll
    <2>1. /\ frames' = frames /\ captured' = captured /\ pc = "polled"
          /\ pc' = "loop" /\ Horizon' = Horizon /\ poll_at' = poll_at
          /\ poll_at < next_poll_at \/ poll_at = last_processed_poll_at
      BY <1>0, <1>5 DEF SkipPoll, Goto, kernelVars, pollVars, Horizon
    <2>2. poll_at = sim_time
      BY <2>1 DEF WaitIsShort
    <2>3. OneAdvance' /\ WaitIsShort' /\ NextIsAhead'
      BY <1>0, <2>1 DEF OneAdvance, WaitIsShort, NextIsAhead, InTick
    <2>4. last_processed_poll_at # -1 => poll_at # next_poll_at
      BY <1>0, <2>1, <2>2 DEF NextIsAhead, InTick, DriverInv, DriverType
    <2>5. PollAwaited'
      BY <1>0, <2>1, <2>4 DEF PollAwaited, PollPending, PollHeld, InTick
    <2> QED
      BY <2>3, <2>5
  <1> QED
    BY <1>1, <1>2, <1>3, <1>4, <1>5

\* A call is dispatched: what it does to the poll asked for last.
LEMMA DecidingPreservesPlanned ==
    ASSUME DriverInv, OneAdvance, WaitIsShort, NextIsAhead, PollAwaited,
           NEW c \in AgentCalls,
           \/ \E to \in SUBSET Npc : DecideAct(c, to)
           \/ DecideIdle(c) \/ DecideAbandon(c)
    PROVE  OneAdvance' /\ WaitIsShort' /\ NextIsAhead' /\ PollAwaited'
  <1>0. /\ sim_time \in Nat /\ next_poll_at \in Nat /\ baseline \in Nat
        /\ last_processed_poll_at \in Nat \cup {-1}
        /\ frames = <<>> /\ Horizon = sim_time /\ IdleCap \in Nat \ {0}
        /\ c \in Call /\ pc = "tick" /\ pc' = "acting"
        /\ captured' = captured /\ baseline' = baseline /\ call' = c
        /\ last_processed_poll_at' = last_processed_poll_at
        /\ last_turn_sim_time' = last_turn_sim_time
        /\ sim_time' = sim_time /\ heap' = heap
    BY DriverAssumption
       DEF DriverInv, DriverType, SimulationInv, NumbersOK, DecideAct,
           DecideIdle, DecideAbandon, MayDecide, DriverInControl, Goto,
           pollVars, Horizon
  <1>1. PICK target : \/ frames' = frames
                     \/ /\ Enter(target, frames)
                        /\ target \in Nat /\ target >= sim_time
    <2>1. CASE \E to \in SUBSET Npc : DecideAct(c, to)
      <3>1. CASE c.cost > 0
        <4>1. sim_time + c.cost \in Nat /\ sim_time + c.cost >= sim_time
          BY <1>0, <2>1, <3>1 DEF DecideAct, Call
        <4>2. Enter(sim_time + c.cost, frames)
          BY <2>1, <3>1 DEF DecideAct
        <4> QED
          BY <4>1, <4>2
      <3>2. CASE ~(c.cost > 0)
        BY <2>1, <3>2 DEF DecideAct
      <3> QED
        BY <3>1, <3>2
    <2>2. CASE DecideIdle(c) \/ DecideAbandon(c)
      <3>1. \/ Enter(sim_time + 1, frames)
            \/ Enter(sim_time + 2, frames)
        BY <2>2 DEF DecideIdle, DecideAbandon
      <3>2. /\ sim_time + 1 \in Nat /\ sim_time + 1 >= sim_time
            /\ sim_time + 2 \in Nat /\ sim_time + 2 >= sim_time
        BY <1>0
      <3> QED
        BY <3>1, <3>2
    <2> QED
      BY <2>1, <2>2
  <1>2. OneAdvance' /\ Horizon' \in Nat /\ Horizon' >= sim_time
    <2>1. CASE frames' = frames
      BY <1>0, <2>1 DEF OneAdvance, Horizon
    <2>2. CASE frames' # frames
      <3>1. frames' # <<>> /\ Bottom' = target /\ Len(frames') = 1
        BY <1>0, <1>1, <2>2, TheDriverAdvances
      <3>2. frames' = <<Frame(target, Nobody, NoTrigger)>> \o <<>>
        BY <1>0, <1>1, <2>2 DEF Enter
      <3>3. frames'[1] = Frame(target, Nobody, NoTrigger)
        BY <3>2, Push, EmptySeq DEF IsSeq
      <3> QED
        BY <1>0, <1>1, <2>2, <3>1, <3>3 DEF OneAdvance, Horizon, Frame
    <2> QED
      BY <2>1, <2>2
  <1>3. WaitIsShort'
    BY <1>0 DEF WaitIsShort
  <1>4. \/ next_poll_at' = next_poll_at
        \/ c.op = "idle" /\ next_poll_at' > sim_time /\ next_poll_at' \in Nat
    <2>1. CASE DecideIdle(c)
      <3>1. PICK k : /\ k = IF c.cost > IdleCap THEN IdleCap
                            ELSE IF c.cost < 1 THEN 1 ELSE c.cost
                     /\ next_poll_at' = sim_time + k
        BY <2>1 DEF DecideIdle
      <3>2. k \in Nat /\ k >= 1
        BY <1>0, <3>1 DEF Call
      <3> QED
        BY <1>0, <2>1, <3>1, <3>2 DEF DecideIdle
    <2>2. CASE ~DecideIdle(c)
      BY <2>2 DEF DecideAct, DecideAbandon, pollVars
    <2> QED
      BY <2>1, <2>2
  <1>5. NextIsAhead'
    BY <1>0, <1>2, <1>4 DEF NextIsAhead, InTick
  <1>6. PollAwaited'
    BY <1>0, <1>4 DEF PollAwaited, PollPending, PollHeld, InTick
  <1> QED
    BY <1>2, <1>3, <1>5, <1>6

\* An event that was just scheduled is pending.
LEMMA EnqueuedIsPending ==
    ASSUME NEW h, NEW at, NEW kind, NEW who
    PROVE  \E e \in Enqueue(h, at, kind, who) : e.kind = kind /\ e.fire_at = at
  <1>1. PICK id : Enqueue(h, at, kind, who) = h \cup
            {[fire_at |-> at, event_id |-> id, kind |-> kind, who |-> who]}
    BY DEF Enqueue
  <1> DEFINE e == [fire_at |-> at, event_id |-> id, kind |-> kind, who |-> who]
  <1>2. e \in Enqueue(h, at, kind, who) /\ e.kind = kind /\ e.fire_at = at
    BY <1>1
  <1> QED
    BY <1>2

\* A poll opens a tick, a call returns, and the tick is closed.
LEMMA TickingPreservesPlanned ==
    ASSUME DriverInv, OneAdvance, WaitIsShort, NextIsAhead, PollAwaited,
           OpenTick \/ StopTick \/ CallReturns \/ CloseTick
    PROVE  OneAdvance' /\ WaitIsShort' /\ NextIsAhead' /\ PollAwaited'
  <1>0. /\ sim_time \in Nat /\ next_poll_at \in Nat /\ baseline \in Nat
        /\ last_processed_poll_at \in Nat \cup {-1} /\ poll_at \in Nat
        /\ last_turn_sim_time \in Nat \cup {-1} /\ last_turn_sim_time <= sim_time
        /\ frames = <<>> /\ frames' = <<>> /\ sim_time' = sim_time
        /\ Horizon = sim_time /\ Horizon' = sim_time /\ captured' = captured
        /\ poll_at' = poll_at
    BY DEF DriverInv, DriverType, DriverOK, SimulationInv, NumbersOK, OpenTick,
           StopTick, CallReturns, CloseTick, DriverInControl, kernelVars,
           pollVars, Horizon
  <1>1. OneAdvance'
    BY <1>0 DEF OneAdvance
  <1>2. pc # "waiting" /\ captured = <<>> /\ pc' \in {"tick", "tick_over", "loop"}
    BY DEF OpenTick, StopTick, CallReturns, CloseTick, Goto, WaitIsShort
  <1>3. WaitIsShort'
    BY <1>0, <1>2 DEF WaitIsShort
  <1>4. CASE OpenTick
    <2>1. /\ poll_at >= next_poll_at /\ last_processed_poll_at' = poll_at
          /\ baseline' = next_poll_at /\ next_poll_at' = next_poll_at
          /\ pc' = "tick" /\ pc = "polled" /\ poll_at = sim_time
      BY <1>4 DEF OpenTick, Goto, WaitIsShort
    <2>2. NextIsAhead'
      BY <1>0, <2>1 DEF NextIsAhead, InTick
    <2>3. PollAwaited'
      BY <1>0, <2>1 DEF PollAwaited, PollHeld, InTick
    <2> QED
      BY <1>1, <1>3, <2>2, <2>3
  <1>5. CASE StopTick
    <2>1. /\ next_poll_at' = next_poll_at /\ baseline' = baseline
          /\ last_processed_poll_at' = last_processed_poll_at
          /\ last_turn_sim_time' = last_turn_sim_time
          /\ heap' = heap /\ pc = "tick" /\ pc' = "tick_over"
      BY <1>5 DEF StopTick, Goto, kernelVars, pollVars, turnVars
    <2>2. NextIsAhead'
      BY <1>0, <2>1 DEF NextIsAhead, InTick
    <2>3. PollAwaited'
      BY <1>0, <2>1 DEF PollAwaited, PollPending, PollHeld, InTick
    <2> QED
      BY <1>1, <1>3, <2>2, <2>3
  <1>6. CASE CallReturns
    <2>1. /\ baseline' = baseline /\ pc = "acting" /\ pc' \in {"tick", "tick_over"}
          /\ last_processed_poll_at' = last_processed_poll_at
          /\ last_turn_sim_time' = sim_time
      BY <1>6 DEF CallReturns, Goto
    <2>2. CASE call.op = "idle"
      <3>1. PICK at : /\ at = IF next_poll_at <= sim_time THEN sim_time + 1
                              ELSE next_poll_at
                      /\ next_poll_at' = at
                      /\ heap' = Enqueue(heap, at, "agent_poll", Agent)
        BY <1>6, <2>2 DEF CallReturns
      <3>2. at \in Nat /\ at > sim_time
        BY <1>0, <3>1
      <3>3. PollPending'
        <4>1. PICK e \in heap' : e.kind = "agent_poll" /\ e.fire_at = at
          BY <3>1, EnqueuedIsPending
        <4> QED
          BY <3>1, <4>1 DEF PollPending
      <3>4. NextIsAhead'
        BY <1>0, <2>1, <3>1, <3>2 DEF NextIsAhead, InTick
      <3> QED
        BY <1>1, <1>3, <3>3, <3>4 DEF PollAwaited
    <2>3. CASE call.op # "idle"
      <3>1. next_poll_at' = next_poll_at /\ heap' = heap
        BY <1>6, <2>3 DEF CallReturns
      <3>2. NextIsAhead'
        BY <1>0, <2>1, <3>1 DEF NextIsAhead, InTick
      <3>3. PollAwaited'
        BY <1>0, <2>1, <2>3, <3>1
           DEF PollAwaited, PollPending, PollHeld, InTick
      <3> QED
        BY <1>1, <1>3, <3>2, <3>3
    <2> QED
      BY <2>2, <2>3
  <1>7. CASE CloseTick
    <2>1. /\ baseline' = baseline /\ pc = "tick_over" /\ pc' = "loop"
          /\ last_processed_poll_at' = last_processed_poll_at
          /\ last_turn_sim_time' = last_turn_sim_time
      BY <1>7 DEF CloseTick, Goto, turnVars
    <2>2. CASE next_poll_at # baseline
      <3>1. next_poll_at' = next_poll_at /\ heap' = heap
        BY <1>7, <2>2 DEF CloseTick
      <3>2. NextIsAhead'
        BY <1>0, <2>1, <2>2, <3>1 DEF NextIsAhead, InTick
      <3>3. PollAwaited'
        BY <1>0, <2>1, <2>2, <3>1
           DEF PollAwaited, PollPending, PollHeld, InTick, NextIsAhead
      <3> QED
        BY <1>1, <1>3, <3>2, <3>3
    <2>3. CASE next_poll_at = baseline
      <3>1. PICK at : /\ at = NextPollAt(sim_time, busy_until[Agent])
                      /\ next_poll_at' = at
                      /\ heap' = Enqueue(heap, at, "agent_poll", Agent)
        BY <1>7, <2>3 DEF CloseTick
      <3>2. at \in Nat /\ at > sim_time
        <4>1. busy_until[Agent] \in Nat
          BY DEF DriverInv, SimulationInv, NumbersOK, Person
        <4> QED
          BY <1>0, <3>1, <4>1, TickAssumption DEF NextPollAt, Later
      <3>3. PollPending'
        <4>1. PICK e \in heap' : e.kind = "agent_poll" /\ e.fire_at = at
          BY <3>1, EnqueuedIsPending
        <4> QED
          BY <3>1, <4>1 DEF PollPending
      <3>4. NextIsAhead'
        BY <1>0, <2>1, <3>1, <3>2 DEF NextIsAhead, InTick
      <3> QED
        BY <1>1, <1>3, <3>3, <3>4 DEF PollAwaited
    <2> QED
      BY <2>2, <2>3
  <1> QED
    BY <1>4, <1>5, <1>6, <1>7

\* The last steps of a run.
LEMMA ClosingPreservesPlanned ==
    ASSUME DriverInv, OneAdvance, WaitIsShort, NextIsAhead, PollAwaited,
           RunOut \/ RunIsOut
    PROVE  OneAdvance' /\ WaitIsShort' /\ NextIsAhead' /\ PollAwaited'
  <1>0. /\ sim_time \in Nat /\ EndTime \in Nat /\ next_poll_at \in Nat
        /\ last_processed_poll_at \in Nat \cup {-1}
        /\ frames = <<>> /\ Horizon = sim_time /\ sim_time' = sim_time
        /\ next_poll_at' = next_poll_at /\ captured' = captured
        /\ last_processed_poll_at' = last_processed_poll_at
        /\ last_turn_sim_time' = last_turn_sim_time
        /\ pc \in {"close", "closing"} /\ pc' \in {"closing", "done"}
    BY DriverAssumption
       DEF DriverInv, DriverType, SimulationInv, NumbersOK, RunOut, RunIsOut,
           DriverInControl, Goto, kernelVars, pollVars, turnVars, Horizon
  <1>1. OneAdvance' /\ Horizon' \in Nat /\ Horizon' >= sim_time
    <2>1. CASE frames' = frames
      BY <1>0, <2>1 DEF OneAdvance, Horizon
    <2>2. CASE frames' # frames
      <3>1. Enter(EndTime, frames) /\ sim_time < EndTime
        BY <2>2 DEF RunOut, RunIsOut, kernelVars
      <3>2. frames' # <<>> /\ Bottom' = EndTime /\ Len(frames') = 1
        BY <1>0, <3>1, TheDriverAdvances
      <3>3. frames' = <<Frame(EndTime, Nobody, NoTrigger)>> \o <<>>
        BY <1>0, <3>1 DEF Enter
      <3>4. frames'[1] = Frame(EndTime, Nobody, NoTrigger)
        BY <3>3, Push, EmptySeq DEF IsSeq
      <3> QED
        BY <1>0, <3>1, <3>2, <3>4 DEF OneAdvance, Horizon, Frame
    <2> QED
      BY <2>1, <2>2
  <1> QED
    BY <1>0, <1>1 DEF WaitIsShort, NextIsAhead, PollAwaited, PollHeld, InTick

\* What the ticks of a run without replies rest on holds throughout.
LEMMA PlannedInvariance == Spec => [](DriverInv /\ Planned)
  <1>1. Init => Planned
    BY DEF Init, Planned, OneAdvance, WaitIsShort, NextIsAhead, PollAwaited,
           Horizon, InTick
  <1>2. DriverInv /\ Planned /\ [Next]_vars => Planned'
    <2> SUFFICES ASSUME DriverInv, Planned, [Next]_vars, Quiet'
                 PROVE  OneAdvance' /\ WaitIsShort' /\ NextIsAhead' /\ PollAwaited'
      BY DEF Planned
    <2>1. Quiet
      BY QuietComesFirst DEF DriverInv
    <2>2. OneAdvance /\ WaitIsShort /\ NextIsAhead /\ PollAwaited
      BY <2>1 DEF Planned
    <2>3. CASE DriverStep
      BY <2>2, <2>3, WaitingPreservesPlanned, DecidingPreservesPlanned,
         TickingPreservesPlanned, ClosingPreservesPlanned,
         AgentPollPreservesPlanned DEF DriverStep
    <2>4. CASE Next /\ ~DriverStep
      BY <2>1, <2>2, <2>4, OthersPreservePlanned DEF Next
    <2>5. CASE UNCHANGED vars
      BY <2>2, <2>5
         DEF vars, kernelVars, driverVars, pollVars, turnVars, OneAdvance,
             WaitIsShort, NextIsAhead, PollAwaited, PollPending, PollHeld,
             InTick, Horizon, Bottom
    <2> QED
      BY <2>3, <2>4, <2>5
  <1>3. Spec => []DriverInv
    BY DriverInvariance, RuntimeInvariance, PTL DEF DriverInv, RuntimeInv
  <1> QED
    BY <1>1, <1>2, <1>3, PTL DEF Spec

\* Until an NPC replies, every tick but the first opens at the minute the
\* agent's next poll was last set to, or a call of the tick before went past
\* that minute.
THEOREM EveryTickWasPlanned == Spec => TicksOpenWhenPlanned
  <1>1. DriverInv /\ Planned /\ [Next]_vars =>
            [pc = "polled" /\ pc' = "tick" /\ last_processed_poll_at # -1 /\ Quiet
             => poll_at = next_poll_at \/ next_poll_at <= last_turn_sim_time]_vars
    <2> SUFFICES ASSUME DriverInv, Planned, [Next]_vars, pc = "polled",
                        pc' = "tick", last_processed_poll_at # -1, Quiet,
                        next_poll_at > last_turn_sim_time
                 PROVE  poll_at = next_poll_at
      BY DEF DriverInv, SimulationInv, NumbersOK, DriverType
    <2>1. OpenTick
      BY DEF Next, DriverStep, vars, driverVars, LoopHead, WaitAdvances,
             WaitFindsNothing, WaitEnds, AgentPollFires, SkipPoll, StopTick,
             DecideAct, DecideIdle, DecideAbandon, MayDecide, CallReturns,
             CloseTick, RunOut, RunIsOut, Goto
    <2>2. poll_at >= next_poll_at /\ frames = <<>> /\ poll_at = sim_time
      BY <2>1 DEF OpenTick, DriverInControl, Planned, WaitIsShort
    <2>3. PollPending \/ poll_at = next_poll_at
      BY DEF Planned, PollAwaited, PollHeld, InTick
    <2>4. ~PollPending
      <3>1. Due(heap, sim_time) = {} /\ sim_time \in Nat /\ next_poll_at \in Nat
        BY <2>2 DEF DriverInv, DriverOK, Delivered, SimulationInv, NumbersOK
      <3> QED
        BY <2>2, <3>1 DEF PollPending, Due
    <2> QED
      BY <2>3, <2>4
  <1> QED
    BY PlannedInvariance, <1>1, PTL DEF Spec, TicksOpenWhenPlanned

-----------------------------------------------------------------------------
(* The cadence of the agent.  In general the agent may lose its poll: an   *)
(* idle.until whose tick goes on, or replies longer than the tick, both    *)
(* have a run that shows it.  When every idle.until ends its tick and all  *)
(* replies nested in each other fit into a tick and into an idle, the      *)
(* agent has exactly one poll, like every NPC: pending, captured, or being *)
(* handled.                                                                *)

\* How far replies of at most k minutes, one of each NPC inside the other,
\* reach beyond the advance they are nested in.
Overrun(k) == k * Cardinality(Npc)

RepliesFit(k) ==
    /\ \A cost \in NpcCosts : cost <= k
    /\ Overrun(k) < Tick /\ Overrun(k) < IdleCap
    /\ \A c \in AgentCalls : c.op = "idle" => ~c.cont /\ Overrun(k) < c.cost

\* Every advance but the innermost waits for an NPC's reply, and ends at most
\* the replies around it later than the outermost.
Stacked(k) ==
    \A i \in DOMAIN frames :
        /\ i # 1 => frames[i].npc \in Npc
        /\ frames[i].target <= Bottom + k * (Len(frames) - i)

\* A poll is captured and processed little later than the clock shows.
PollsAreNear(k) ==
    /\ pc # "waiting" => captured = <<>>
    /\ \A i \in DOMAIN captured : captured[i] <= Horizon + Overrun(k)
    /\ pc = "polled" => poll_at <= sim_time + Overrun(k)
    /\ InTick => /\ baseline <= last_processed_poll_at
                 /\ last_processed_poll_at <= Horizon + Overrun(k)

AgentPolls == {e \in heap : e.kind = "agent_poll"}

\* A poll at that minute will open a tick.
Opens(at) == at >= next_poll_at /\ at # last_processed_poll_at

PollWaits == \E e \in heap : AgentPolls = {e} /\ Opens(e.fire_at)

OneAgentPoll ==
    /\ pc \in {"loop", "wait"} => PollWaits
    /\ pc = "waiting" => \/ captured = <<>> /\ PollWaits
                         \/ /\ AgentPolls = {} /\ Len(captured) = 1
                            /\ Opens(captured[1])
    /\ pc = "polled" => AgentPolls = {} /\ Opens(poll_at)
    /\ pc = "tick" => AgentPolls = {} /\ next_poll_at = baseline
    /\ pc = "acting" => /\ AgentPolls = {}
                        /\ IF call.op = "idle"
                           THEN ~call.cont /\ next_poll_at > last_processed_poll_at
                           ELSE next_poll_at = baseline
    /\ pc = "tick_over" => \/ AgentPolls = {} /\ next_poll_at = baseline
                           \/ PollWaits /\ next_poll_at # baseline

\* The NPCs are finitely many, and so are the minutes of their replies.
LEMMA OverrunType ==
    ASSUME NEW k \in Nat
    PROVE  IsFiniteSet(Npc) /\ Cardinality(Npc) \in Nat /\ Overrun(k) \in Nat
  <1>1. PICK ids : ids = Npcs
    OBVIOUS
  <1>2. PICK S : ids \in Seq(S)
    BY <1>1, NpcsAssumption
  <1>3. Len(ids) \in Nat /\ DOMAIN ids = 1 .. Len(ids)
    BY <1>2, LenProperties
  <1>4. IsFiniteSet(DOMAIN ids)
    BY <1>3, FS_Interval
  <1>5. ids = [i \in DOMAIN ids |-> ids[i]]
    BY <1>2, SeqDef
  <1>6. IsFiniteSet({ids[i] : i \in DOMAIN ids})
    BY <1>4, <1>5, FiniteImage
  <1>7. Npc = {ids[i] : i \in DOMAIN ids}
    BY <1>1 DEF Npc, Range
  <1>8. Cardinality(Npc) \in Nat
    BY <1>6, <1>7, FS_CardinalityType
  <1> QED
    BY <1>6, <1>7, <1>8 DEF Overrun

\* No NPC is on the stack twice, so the innermost advance ends no later than
\* the outermost and one reply of every NPC.
LEMMA NestingIsBounded ==
    ASSUME SimulationInv, NEW k \in Nat, Stacked(k), frames # <<>>
    PROVE  /\ Bottom \in Nat /\ frames[1].target \in Nat
           /\ frames[1].target <= Bottom + Overrun(k)
  <1>0. PICK n \in Nat \ {0} :
            n = Len(frames) /\ DOMAIN frames = 1 .. n /\ FramesOK
    BY Pop, SeqDomain DEF SimulationInv, FramesOK
  <1>01. \A i \in 1 .. n - 1 : i + 1 \in 1 .. n /\ i + 1 # 1
    BY <1>0
  <1>02. n - 1 \in Nat
    BY <1>0
  <1> DEFINE f == [i \in 1 .. n - 1 |-> frames[i + 1].npc]
  <1>1. f \in [1 .. n - 1 -> Npc]
    BY <1>0, <1>01 DEF Stacked
  <1>2. ASSUME NEW i \in 1 .. n - 1, NEW j \in 1 .. n - 1, f[i] = f[j]
        PROVE  i = j
    <2>1. /\ frames[i + 1].npc \in Npc /\ frames[i + 1].npc = frames[j + 1].npc
          /\ i + 1 \in DOMAIN frames /\ j + 1 \in DOMAIN frames
      BY <1>0, <1>01, <1>2 DEF Stacked
    <2>2. PICK p \in Npc : p = frames[i + 1].npc
      BY <2>1
    <2>3. i + 1 \in Handling(p) /\ j + 1 \in Handling(p)
      BY <2>1, <2>2 DEF Handling
    <2>4. \/ Handling(p) = {}
          \/ \E h \in DOMAIN frames : Handling(p) = {h}
      BY DEF SimulationInv, OnePollPerNpc
    <2>5. i + 1 = j + 1
      BY <2>3, <2>4
    <2> QED
      BY <2>5
  <1> HIDE DEF f
  <1>3. f \in Injection(1 .. n - 1, Npc)
    <2>1. PICK S : S = 1 .. n - 1
      OBVIOUS
    <2>2. f \in [S -> Npc] /\ \A i, j \in S : f[i] = f[j] => i = j
      BY <1>1, <1>2, <2>1
    <2>3. f \in Injection(S, Npc)
      BY <2>2 DEF Injection, IsInjective
    <2> QED
      BY <2>1, <2>3
  <1>4. n - 1 <= Cardinality(Npc)
    <2>1. PICK m \in Nat : m = n - 1
      BY <1>02
    <2>2. f \in Injection(1 .. m, Npc)
      BY <1>3, <2>1
    <2>3. Cardinality(1 .. m) <= Cardinality(Npc)
      BY <2>2, OverrunType, FS_Injection
    <2>4. Cardinality(1 .. m) = m
      BY <2>1, FS_Interval
    <2> QED
      BY <2>1, <2>3, <2>4
  <1>5. 1 \in DOMAIN frames /\ n \in DOMAIN frames
    BY <1>0
  <1>6. /\ Bottom \in Nat /\ frames[1].target \in Nat
        /\ frames[1].target <= Bottom + k * (n - 1)
    BY <1>0, <1>5 DEF FramesOK, Bottom, Stacked
  <1>7. k * (n - 1) <= k * Cardinality(Npc)
    <2>1. PICK m \in Nat : m = n - 1
      BY <1>02
    <2>2. PICK c \in Nat : c = Cardinality(Npc)
      BY OverrunType
    <2>3. PICK d \in Nat : c = m + d
      <3>1. c - m \in Nat /\ c = m + (c - m)
        BY <1>4, <2>1, <2>2
      <3> QED
        BY <3>1
    <2>4. k * c = k * m + k * d /\ k * m \in Nat /\ k * d \in Nat
      BY <2>3
    <2> QED
      BY <2>1, <2>2, <2>4
  <1>8. k * (n - 1) \in Nat /\ Overrun(k) \in Nat /\ Overrun(k) = k * Cardinality(Npc)
    BY <1>02, OverrunType DEF Overrun
  <1> QED
    BY <1>6, <1>7, <1>8

\* One reply more lies one reply further out.
LEMMA OneReplyMore ==
    ASSUME NEW k \in Nat, NEW a \in Nat PROVE k * (a + 1) = k * a + k
  OBVIOUS

\* Stacks an advance of the driver begins, and stacks that get one shorter.
LEMMA ShorterStacks ==
    ASSUME NEW k \in Nat, SimulationInv, Stacked(k),
           \/ frames' = frames
           \/ \E target \in Nat : frames = <<>> /\ Enter(target, frames)
           \/ AdvanceReturns \/ NpcFinishes
    PROVE  Stacked(k)'
  <1>0. FramesOK /\ frames # <<>> => Len(frames) \in Nat /\ IsSeq(frames)
    BY Pop DEF SimulationInv, FramesOK
  <1>1. CASE frames' = frames
    BY <1>1 DEF Stacked, Bottom
  <1>2. ASSUME NEW target \in Nat, frames = <<>>, Enter(target, frames)
        PROVE  Stacked(k)'
    <2>1. /\ Len(frames') = 1 /\ Bottom' = target /\ frames'[1].target = target
      BY <1>2, TheDriverAdvances
    <2>2. DOMAIN frames' = {1}
      <3>1. frames' = <<Frame(target, Nobody, NoTrigger)>> \o <<>>
        BY <1>2 DEF Enter
      <3> QED
        BY <2>1, <3>1, Push, EmptySeq, SeqDomain DEF IsSeq
    <2>3. k * (1 - 1) = 0
      OBVIOUS
    <2> QED
      BY <2>1, <2>2, <2>3 DEF Stacked
  <1>3. CASE AdvanceReturns
    <2>0. FramesOK
      BY DEF SimulationInv
    <2>1. frames # <<>> /\ frames' = Tail(frames) /\ IsSeq(frames)
      BY <1>3, <2>0 DEF AdvanceReturns, FramesOK
    <2>2. PICK n \in Nat \ {0} :
            /\ n = Len(frames) /\ Len(frames') = n - 1 /\ IsSeq(frames')
            /\ DOMAIN frames = 1 .. n /\ DOMAIN frames' = 1 .. n - 1
            /\ \A i \in 1 .. n - 1 : frames'[i] = frames[i + 1]
      BY <2>1, Pop, SeqDomain
    <2>3. frames' # <<>> => Bottom' = Bottom
      BY <2>1, <2>2, <1>3, <2>0, AnAdvanceEnds, EmptySeq
      DEF Bottom
    <2>4. SUFFICES ASSUME NEW i \in 1 .. n - 1
                   PROVE  /\ i # 1 => frames'[i].npc \in Npc
                          /\ frames'[i].target <= Bottom' + k * (n - 1 - i)
      BY <2>2 DEF Stacked
    <2>5. frames' # <<>>
      BY <2>2
    <2>6. i + 1 \in 1 .. n /\ i + 1 # 1 /\ n - (i + 1) = n - 1 - i
      OBVIOUS
    <2> QED
      BY <2>2, <2>3, <2>5, <2>6 DEF Stacked
  <1>4. CASE NpcFinishes
    <2>0. FramesOK
      BY DEF SimulationInv
    <2>1. PICK f : /\ f = Frame(Head(frames).target, Nobody, NoTrigger)
                   /\ frames' = <<f>> \o Tail(frames)
      BY <1>4 DEF NpcFinishes
    <2>2. frames # <<>> /\ IsSeq(frames)
      BY <1>4, <2>0 DEF NpcFinishes, NpcInControl, FramesOK
    <2>3. PICK n \in Nat \ {0} :
            /\ n = Len(frames) /\ Len(frames') = n
            /\ DOMAIN frames = 1 .. n /\ DOMAIN frames' = 1 .. n
            /\ frames'[1] = f /\ \A i \in 2 .. n : frames'[i] = frames[i]
      BY <2>1, <2>2, Update, SeqDomain
    <2>4. f.target = frames[1].target
      BY <2>1, <2>2, Pop DEF Frame
    <2>5. \A i \in 1 .. n : /\ frames'[i].target = frames[i].target
                            /\ i # 1 => frames'[i].npc = frames[i].npc
      <3>1. ASSUME NEW i \in 1 .. n, i # 1 PROVE i \in 2 .. n
        BY <3>1
      <3> QED
        BY <2>3, <2>4, <3>1
    <2>6. Bottom' = Bottom
      BY <2>3, <2>5 DEF Bottom
    <2> QED
      BY <2>3, <2>5, <2>6 DEF Stacked
  <1> QED
    BY <1>1, <1>2, <1>3, <1>4

\* A reply nests one advance more, which ends at most a reply later.
LEMMA DeeperStacks ==
    ASSUME NEW k \in Nat, SimulationInv, Stacked(k),
           NEW e \in heap, NEW to \in Reach(e.who),
           NEW cost \in NpcCosts, cost <= k, NpcActs(e, to, cost)
    PROVE  Stacked(k)'
  <1>0. FramesOK /\ HeapOK /\ cost \in Nat
    BY NpcCostsAssumption DEF SimulationInv
  <1>1. PICK f, g :
            /\ f = Frame(e.fire_at + cost, Nobody, NoTrigger)
            /\ g = Frame(Head(frames).target, e.who, HeadTrigger(queues[e.who]))
            /\ frames # <<>> /\ frames' = <<f>> \o (<<g>> \o Tail(frames))
    BY DEF NpcActs, Enter, Pops
  <1>2. PICK n \in Nat \ {0} :
            /\ n = Len(frames) /\ Len(frames') = n + 1
            /\ DOMAIN frames = 1 .. n /\ DOMAIN frames' = 1 .. n + 1
            /\ frames'[1] = f /\ frames'[2] = g
            /\ \A i \in 3 .. n + 1 : frames'[i] = frames[i - 1]
    <2>1. PICK n : n = Len(frames)
      OBVIOUS
    <2>2. /\ IsSeq(frames') /\ n \in Nat \ {0} /\ Len(frames') = n + 1
          /\ frames'[1] = f /\ frames'[2] = g
          /\ \A i \in 3 .. n + 1 : frames'[i] = frames[i - 1]
      BY <1>0, <1>1, <2>1, DecisionStack
    <2>3. IsSeq(frames)
      BY <1>0 DEF FramesOK
    <2>4. DOMAIN frames = 1 .. n /\ DOMAIN frames' = 1 .. n + 1
      BY <2>1, <2>2, <2>3, SeqDomain
    <2> QED
      BY <2>1, <2>2, <2>4
  <1>3. /\ e.who \in Npc /\ e.fire_at \in Nat /\ frames[1].target \in Nat
        /\ e.fire_at <= frames[1].target /\ Head(frames) = frames[1]
    <2>1. e.kind = "npc_poll" /\ Pops(e)
      BY DEF NpcActs
    <2>2. NumbersOK
      BY DEF SimulationInv
    <2> QED
      BY <1>0, <2>1, <2>2, PopsInOrder DEF HeapOK
  <1>4. /\ f.target = e.fire_at + cost
        /\ g.target = frames[1].target /\ g.npc = e.who
    BY <1>1, <1>3 DEF Frame
  <1>5. Bottom' = Bottom
    <2>1. NpcStep
      BY DEF NpcStep
    <2> QED
      BY <1>0, <2>1, InsideTheAdvance
  <1>6. Bottom \in Nat /\ \A i \in 1 .. n : frames[i].target <= Bottom + k * (n - i)
    <2>1. Bottom = frames[n].target /\ n \in DOMAIN frames
      BY <1>2 DEF Bottom
    <2>2. \A i \in 1 .. n : frames[i].target <= Bottom + k * (n - i)
      BY <1>2 DEF Stacked
    <2> QED
      BY <1>0, <2>1, <2>2 DEF FramesOK
  <1>7. SUFFICES ASSUME NEW i \in 1 .. n + 1
                 PROVE  /\ i # 1 => frames'[i].npc \in Npc
                        /\ frames'[i].target <= Bottom' + k * ((n + 1) - i)
    BY <1>2 DEF Stacked
  <1>8. CASE i = 1
    <2>1. PICK a \in Nat : a = n - 1 /\ n = a + 1 /\ (n + 1) - 1 = a + 1
      <3>1. n - 1 \in Nat
        OBVIOUS
      <3> QED
        BY <3>1
    <2>2. frames[1].target <= Bottom + k * a
      BY <1>6, <2>1
    <2>3. k * a \in Nat /\ k * (a + 1) = k * a + k
      BY <2>1, OneReplyMore
    <2>4. e.fire_at + cost <= Bottom + (k * a + k)
      BY <1>0, <1>3, <1>6, <2>2, <2>3
    <2> QED
      BY <1>2, <1>4, <1>5, <1>8, <2>1, <2>3, <2>4
  <1>9. CASE i # 1
    <2>1. /\ frames'[i].target = frames[i - 1].target /\ i - 1 \in 1 .. n
          /\ frames'[i].npc \in Npc
      <3>1. CASE i = 2
        BY <1>2, <1>3, <1>4, <3>1
      <3>2. CASE i # 2
        <4>1. i \in 3 .. n + 1 /\ i - 1 \in 1 .. n /\ i - 1 # 1
          BY <1>9, <3>2
        <4> QED
          BY <1>2, <4>1 DEF Stacked
      <3> QED
        BY <3>1, <3>2
    <2>2. n - (i - 1) = (n + 1) - i
      OBVIOUS
    <2> QED
      BY <1>5, <1>6, <2>1, <2>2
  <1> QED
    BY <1>8, <1>9

\* Scheduling adds one event.
LEMMA EnqueueAddsOne ==
    ASSUME NEW h, NEW at, NEW kind, NEW who
    PROVE  \E x : /\ Enqueue(h, at, kind, who) = h \cup {x}
                  /\ x.kind = kind /\ x.fire_at = at
  <1>1. PICK id : Enqueue(h, at, kind, who) = h \cup
            {[fire_at |-> at, event_id |-> id, kind |-> kind, who |-> who]}
    BY DEF Enqueue
  <1>2. PICK x : x = [fire_at |-> at, event_id |-> id, kind |-> kind, who |-> who]
    OBVIOUS
  <1>3. x.kind = kind /\ x.fire_at = at
    BY <1>2
  <1> QED
    BY <1>1, <1>2, <1>3

\* Every step keeps the stack within reach.
LEMMA StacksStayWithinReach ==
    ASSUME NEW k \in Nat, \A cost \in NpcCosts : cost <= k,
           SimulationInv, Stacked(k), [Next]_vars
    PROVE  Stacked(k)'
  <1>1. CASE DriverStep
    <2>1. SameKernel \/ AdvanceBegins \/ AgentPollAdded \/ AgentPollTaken
      BY <1>1, DriverEffect DEF SimulationInv
    <2>2. \/ frames' = frames
          \/ \E target \in Nat : frames = <<>> /\ Enter(target, frames)
      BY <2>1 DEF SameKernel, AdvanceBegins, AgentPollAdded, AgentPollTaken, Enter
    <2> QED
      BY <2>2, ShorterStacks
  <1>2. CASE NpcStep
    <2>1. \/ frames' = frames \/ NpcFinishes
          \/ \E e \in heap : \E to \in Reach(e.who), cost \in NpcCosts :
                NpcActs(e, to, cost)
      BY <1>2 DEF NpcStep, NpcSkips, MeetingStarts, ScriptedMessage
    <2> QED
      BY <2>1, ShorterStacks, DeeperStacks
  <1>3. CASE AdvanceReturns \/ \E e \in heap : HeartbeatFires(e)
    BY <1>3, ShorterStacks DEF HeartbeatFires
  <1>4. CASE UNCHANGED vars
    BY <1>4, ShorterStacks DEF vars, kernelVars
  <1> QED
    BY <1>1, <1>2, <1>3, <1>4 DEF Next

\* The steps that are not the driver's leave its polls alone.
LEMMA OthersKeepTheCadence ==
    ASSUME NEW k \in Nat, DriverInv, PollsAreNear(k), OneAgentPoll,
           UNCHANGED driverVars,
           \/ NpcStep \/ \E e \in heap : HeartbeatFires(e)
           \/ AdvanceReturns
    PROVE  PollsAreNear(k)' /\ OneAgentPoll'
  <1>0. /\ pc' = pc /\ captured' = captured /\ poll_at' = poll_at
        /\ next_poll_at' = next_poll_at /\ baseline' = baseline /\ call' = call
        /\ last_processed_poll_at' = last_processed_poll_at
    BY DEF driverVars, pollVars, turnVars
  <1>1. FramesOK /\ NumbersOK /\ HeapOK
    BY DEF DriverInv, SimulationInv
  <1>2. frames # <<>> /\ pc \in {"waiting", "acting", "closing"}
    BY <1>1, InsideTheAdvance, AnAdvanceEnds DEF DriverInv, DriverOK
  <1>3. Horizon' = Horizon
    <2>1. \/ frames' # <<>> /\ Bottom' = Bottom
          \/ frames' = <<>> /\ sim_time' = Bottom
      BY <1>1, InsideTheAdvance, AnAdvanceEnds
    <2> QED
      BY <1>2, <2>1 DEF Horizon
  <1>4. AgentPolls' = AgentPolls
    <2>2. ASSUME NEW e \in heap, NpcSkips(e) PROVE AgentPolls' = AgentPolls
      <3>1. PICK h, at, who :
                /\ h = heap \ {e} /\ heap' = Enqueue(h, at, "npc_poll", who)
                /\ e.kind = "npc_poll"
        BY <2>2 DEF NpcSkips, Reschedule
      <3>2. PICK x : heap' = h \cup {x} /\ x.kind = "npc_poll"
        BY <3>1, EnqueueAddsOne
      <3> QED
        BY <3>1, <3>2 DEF AgentPolls
    <2>3. CASE NpcFinishes
      <3>1. PICK at, who : heap' = Enqueue(heap, at, "npc_poll", who)
        BY <2>3 DEF NpcFinishes, Reschedule
      <3>2. PICK x : heap' = heap \cup {x} /\ x.kind = "npc_poll"
        BY <3>1, EnqueueAddsOne
      <3> QED
        BY <3>2 DEF AgentPolls
    <2>4. ASSUME NEW e \in heap,
                 \/ MeetingStarts(e) \/ HeartbeatFires(e)
                 \/ \E dropped \in BOOLEAN : ScriptedMessage(e, dropped)
                 \/ \E to \in Reach(e.who), cost \in NpcCosts :
                       NpcActs(e, to, cost)
          PROVE  AgentPolls' = AgentPolls
      <3>1. heap' = heap \ {e} /\ e.kind # "agent_poll"
        BY <2>4 DEF MeetingStarts, HeartbeatFires, ScriptedMessage, NpcActs
      <3> QED
        BY <3>1 DEF AgentPolls
    <2>5. CASE AdvanceReturns
      BY <2>5 DEF AdvanceReturns, AgentPolls
    <2> QED
      BY <2>2, <2>3, <2>4, <2>5 DEF NpcStep
  <1>5. PollsAreNear(k)'
    BY <1>0, <1>2, <1>3 DEF PollsAreNear, InTick
  <1>6. OneAgentPoll'
    <2>1. PollWaits => PollWaits'
      <3>1. AgentPolls \subseteq heap /\ AgentPolls' \subseteq heap'
        BY DEF AgentPolls
      <3> QED
        BY <1>0, <1>4, <3>1 DEF PollWaits, Opens
    <2> QED
      BY <1>0, <1>2, <1>4, <2>1 DEF OneAgentPoll, Opens
  <1> QED
    BY <1>5, <1>6

\* The agent's poll fires: the wait captures it.
LEMMA AgentPollKeepsTheCadence ==
    ASSUME NEW k \in Nat, DriverInv, Stacked(k), PollsAreNear(k), OneAgentPoll,
           NEW e \in heap, AgentPollFires(e)
    PROVE  PollsAreNear(k)' /\ OneAgentPoll'
  <1>0. /\ pc' = pc /\ poll_at' = poll_at /\ frames' = frames /\ frames # <<>>
        /\ next_poll_at' = next_poll_at /\ baseline' = baseline /\ call' = call
        /\ last_processed_poll_at' = last_processed_poll_at
        /\ heap' = heap \ {e} /\ e \in AgentPolls
        /\ captured' = IF pc = "waiting" THEN Append(captured, e.fire_at)
                                         ELSE captured
    BY DEF AgentPollFires, turnVars, Pops, Capturing, AgentPolls
  <1>1. pc \in {"waiting", "closing"} /\ Horizon' = Horizon /\ Horizon = Bottom
    BY <1>0 DEF Bottom, Horizon, DriverInv, DriverOK, OneAgentPoll
  <1>2. CASE pc = "closing"
    BY <1>0, <1>1, <1>2 DEF PollsAreNear, OneAgentPoll, InTick
  <1>3. CASE pc = "waiting"
    <2>1. captured = <<>> /\ AgentPolls = {e} /\ Opens(e.fire_at)
      BY <1>0, <1>3 DEF OneAgentPoll, PollWaits
    <2>2. e.fire_at \in Nat /\ e.fire_at <= frames[1].target
      <3>1. NumbersOK /\ HeapOK /\ FramesOK /\ Pops(e)
        BY DEF DriverInv, SimulationInv, AgentPollFires
      <3> QED
        BY <3>1, PopsInOrder DEF HeapOK
    <2>3. e.fire_at <= Bottom + Overrun(k)
      <3>1. /\ Bottom \in Nat /\ frames[1].target \in Nat
            /\ frames[1].target <= Bottom + Overrun(k)
        BY <1>0, NestingIsBounded DEF DriverInv
      <3>2. Overrun(k) \in Nat
        BY OverrunType
      <3> QED
        BY <2>2, <3>1, <3>2
    <2>4. Len(captured') = 1 /\ captured'[1] = e.fire_at /\ DOMAIN captured' = {1}
      <3>1. captured' = Append(<<>>, e.fire_at) /\ <<>> \in Seq(Nat)
        BY <1>0, <1>3, <2>1
      <3> QED
        BY <2>2, <3>1, AppendProperties
    <2>5. AgentPolls' = {}
      BY <1>0, <2>1 DEF AgentPolls
    <2>6. PollsAreNear(k)'
      BY <1>0, <1>1, <1>3, <2>3, <2>4 DEF PollsAreNear, InTick
    <2>7. OneAgentPoll'
      BY <1>0, <1>3, <2>1, <2>4, <2>5 DEF OneAgentPoll, Opens
    <2> QED
      BY <2>6, <2>7
  <1> QED
    BY <1>1, <1>2, <1>3

\* From the end of one tick to the beginning of the next.
LEMMA WaitingKeepsTheCadence ==
    ASSUME NEW k \in Nat, DriverInv, PollsAreNear(k), OneAgentPoll,
           LoopHead \/ WaitAdvances \/ WaitFindsNothing \/ WaitEnds \/ SkipPoll
    PROVE  PollsAreNear(k)' /\ OneAgentPoll'
  <1>0. /\ frames = <<>> /\ Horizon = sim_time /\ sim_time \in Nat
        /\ next_poll_at' = next_poll_at /\ baseline' = baseline
        /\ last_processed_poll_at' = last_processed_poll_at
        /\ sim_time' = sim_time /\ heap' = heap /\ AgentPolls' = AgentPolls
    BY DEF DriverInv, SimulationInv, NumbersOK, LoopHead, WaitAdvances,
           WaitFindsNothing, WaitEnds, SkipPoll, DriverInControl, kernelVars,
           pollVars, Horizon, AgentPolls
  <1>1. PollWaits => PollWaits'
    BY <1>0 DEF PollWaits, Opens
  <1>2. CASE LoopHead \/ WaitFindsNothing
    <2>1. /\ captured' = captured /\ captured = <<>> /\ DOMAIN captured = {}
          /\ \/ pc = "loop" /\ pc' \in {"wait", "done"}
             \/ pc' = "close"
      BY <1>2 DEF LoopHead, WaitFindsNothing, Goto, pollVars, PollsAreNear
    <2> QED
      BY <1>1, <2>1 DEF PollsAreNear, OneAgentPoll, InTick
  <1>3. CASE WaitAdvances
    <2>1. /\ captured' = captured /\ captured = <<>> /\ DOMAIN captured = {}
          /\ pc = "wait" /\ pc' = "waiting"
      BY <1>3 DEF WaitAdvances, Goto, pollVars, PollsAreNear
    <2> QED
      BY <1>1, <2>1 DEF PollsAreNear, OneAgentPoll, InTick
  <1>4. CASE WaitEnds
    <2>1. /\ captured' = <<>> /\ DOMAIN captured' = {} /\ pc = "waiting"
          /\ \/ /\ captured # <<>> /\ poll_at' = Head(captured)
                /\ pc' = "polled"
             \/ captured = <<>> /\ pc' \in {"close", "wait"}
      BY <1>4 DEF WaitEnds, Goto
    <2>2. CASE captured # <<>>
      <3>1. 1 \in DOMAIN captured /\ Head(captured) = captured[1]
        BY <2>2, Pop, SeqDomain DEF DriverInv, DriverType, IsSeq
      <3>2. AgentPolls = {} /\ Opens(captured[1])
        BY <2>1, <2>2 DEF OneAgentPoll
      <3>3. poll_at' <= sim_time' + Overrun(k)
        BY <1>0, <2>1, <2>2, <3>1 DEF PollsAreNear
      <3> QED
        BY <1>0, <2>1, <2>2, <3>1, <3>2, <3>3
           DEF PollsAreNear, OneAgentPoll, Opens, InTick
    <2>3. CASE captured = <<>>
      <3>1. PollWaits
        BY <2>1, <2>3, EmptySeq DEF OneAgentPoll
      <3> QED
        BY <1>1, <2>1, <2>3, <3>1 DEF PollsAreNear, OneAgentPoll, InTick
    <2> QED
      BY <2>2, <2>3
  <1>5. ~SkipPoll
    <2>1. poll_at \in Nat /\ next_poll_at \in Nat
      BY DEF DriverInv, DriverType, SimulationInv, NumbersOK
    <2> QED
      BY <2>1 DEF SkipPoll, OneAgentPoll, Opens
  <1> QED
    BY <1>2, <1>3, <1>4, <1>5

\* A decision: an idle.until asks for a poll beyond all that were processed.
LEMMA DecidingKeepsTheCadence ==
    ASSUME NEW k \in Nat, RepliesFit(k), DriverInv, PollsAreNear(k),
           OneAgentPoll, NEW c \in AgentCalls,
           \/ \E to \in SUBSET Npc : DecideAct(c, to)
           \/ DecideIdle(c) \/ DecideAbandon(c)
    PROVE  PollsAreNear(k)' /\ OneAgentPoll'
  <1>0. /\ sim_time \in Nat /\ next_poll_at \in Nat
        /\ last_processed_poll_at \in Nat \cup {-1}
        /\ Overrun(k) \in Nat /\ IdleCap \in Nat
        /\ frames = <<>> /\ Horizon = sim_time /\ c \in Call
        /\ pc = "tick" /\ pc' = "acting" /\ call' = c
        /\ captured' = captured /\ captured = <<>> /\ DOMAIN captured = {}
        /\ baseline' = baseline /\ AgentPolls' = AgentPolls
        /\ last_processed_poll_at' = last_processed_poll_at
    <2>1. /\ sim_time \in Nat /\ next_poll_at \in Nat
          /\ last_processed_poll_at \in Nat \cup {-1}
          /\ Overrun(k) \in Nat /\ IdleCap \in Nat
      BY DriverAssumption, OverrunType
         DEF DriverInv, DriverType, SimulationInv, NumbersOK
    <2>2. /\ frames = <<>> /\ pc = "tick" /\ pc' = "acting" /\ call' = c
          /\ captured' = captured
      BY DEF DecideAct, DecideIdle, DecideAbandon, MayDecide, DriverInControl, Goto,
             pollVars
    <2>3. /\ baseline' = baseline /\ AgentPolls' = AgentPolls
          /\ last_processed_poll_at' = last_processed_poll_at
      BY DEF DecideAct, DecideIdle, DecideAbandon, Goto, pollVars, AgentPolls
    <2>4. Horizon = sim_time /\ captured = <<>> /\ DOMAIN captured = {}
      BY <2>2 DEF Horizon, PollsAreNear
    <2>5. c \in Call
      BY DriverAssumption
    <2> QED
      BY <2>1, <2>2, <2>3, <2>4, <2>5
  <1>1. /\ baseline <= last_processed_poll_at
        /\ last_processed_poll_at <= sim_time + Overrun(k)
        /\ AgentPolls = {} /\ next_poll_at = baseline
    BY <1>0 DEF PollsAreNear, OneAgentPoll, InTick
  <1>2. Horizon' \in Nat /\ Horizon' >= sim_time
    <2>1. \/ frames' = frames /\ sim_time' = sim_time
          \/ \E target \in Nat : target >= sim_time /\ Enter(target, frames)
      <3>1. CASE \E to \in SUBSET Npc : DecideAct(c, to)
        <4>1. c.cost > 0 => /\ sim_time + c.cost \in Nat
                            /\ sim_time + c.cost >= sim_time
          BY <1>0 DEF Call
        <4> QED
          BY <3>1, <4>1 DEF DecideAct
      <3>2. CASE DecideIdle(c) \/ DecideAbandon(c)
        <4>1. /\ sim_time + 1 \in Nat /\ sim_time + 1 >= sim_time
              /\ sim_time + 2 \in Nat /\ sim_time + 2 >= sim_time
          BY <1>0
        <4> QED
          BY <3>2, <4>1 DEF DecideIdle, DecideAbandon
      <3> QED
        BY <3>1, <3>2
    <2> QED
      BY <1>0, <2>1, TheDriverAdvances DEF Horizon
  <1>3. PollsAreNear(k)'
    BY <1>0, <1>1, <1>2 DEF PollsAreNear, InTick
  <1>4. CASE c.op = "idle"
    <2>1. DecideIdle(c)
      BY <1>4 DEF DecideAct, DecideAbandon
    <2>2. /\ ~c.cont /\ Overrun(k) < c.cost /\ Overrun(k) < IdleCap
      BY <1>4 DEF RepliesFit
    <2>3. next_poll_at' = sim_time + (IF c.cost > IdleCap THEN IdleCap
                                      ELSE IF c.cost < 1 THEN 1 ELSE c.cost)
      BY <2>1 DEF DecideIdle
    <2>4. c.cost \in Int
      BY <1>0 DEF Call
    <2>5. next_poll_at' > last_processed_poll_at
      BY <1>0, <1>1, <2>2, <2>3, <2>4
    <2> QED
      BY <1>0, <1>1, <1>3, <1>4, <2>2, <2>5 DEF OneAgentPoll
  <1>5. CASE c.op # "idle"
    <2>1. next_poll_at' = next_poll_at
      BY <1>5 DEF DecideAct, DecideIdle, DecideAbandon, pollVars
    <2> QED
      BY <1>0, <1>1, <1>3, <1>5, <2>1 DEF OneAgentPoll
  <1> QED
    BY <1>4, <1>5

\* A tick from its poll to its last line: the next poll lies beyond every one
\* that was processed.
LEMMA TickingKeepsTheCadence ==
    ASSUME NEW k \in Nat, RepliesFit(k), DriverInv, PollsAreNear(k),
           OneAgentPoll, OpenTick \/ StopTick \/ CallReturns \/ CloseTick
    PROVE  PollsAreNear(k)' /\ OneAgentPoll'
  <1>0. /\ sim_time \in Nat /\ next_poll_at \in Nat /\ baseline \in Nat
        /\ last_processed_poll_at \in Nat \cup {-1} /\ poll_at \in Nat
        /\ Overrun(k) \in Nat /\ frames = <<>> /\ frames' = <<>>
        /\ sim_time' = sim_time /\ Horizon = sim_time /\ Horizon' = sim_time
        /\ captured' = captured /\ captured = <<>> /\ DOMAIN captured = {}
    <2>1. /\ sim_time \in Nat /\ next_poll_at \in Nat /\ baseline \in Nat
          /\ last_processed_poll_at \in Nat \cup {-1} /\ poll_at \in Nat
          /\ Overrun(k) \in Nat
      BY OverrunType DEF DriverInv, DriverType, SimulationInv, NumbersOK
    <2>2. /\ frames = <<>> /\ frames' = frames /\ sim_time' = sim_time
          /\ captured' = captured /\ pc # "waiting"
      BY DEF OpenTick, StopTick, CallReturns, CloseTick, DriverInControl,
             kernelVars, pollVars
    <2>3. captured = <<>>
      BY <2>2 DEF PollsAreNear
    <2> QED
      BY <2>1, <2>2, <2>3 DEF Horizon
  <1>1. ASSUME NEW at \in Nat, heap' = Enqueue(heap, at, "agent_poll", Agent),
               AgentPolls = {}, next_poll_at' = at, at # last_processed_poll_at,
               last_processed_poll_at' = last_processed_poll_at
        PROVE  PollWaits'
    <2>1. PICK x : /\ heap' = heap \cup {x}
                   /\ x.kind = "agent_poll" /\ x.fire_at = at
      BY <1>1, EnqueueAddsOne
    <2>2. AgentPolls' = {x} /\ x \in heap'
      BY <1>1, <2>1 DEF AgentPolls
    <2> QED
      BY <1>1, <2>1, <2>2 DEF PollWaits, Opens
  <1>2. CASE OpenTick
    <2>1. /\ poll_at >= next_poll_at /\ last_processed_poll_at' = poll_at
          /\ baseline' = next_poll_at /\ next_poll_at' = next_poll_at
          /\ pc' = "tick" /\ pc = "polled" /\ heap' = heap
      BY <1>2 DEF OpenTick, Goto, kernelVars
    <2>2. poll_at <= sim_time + Overrun(k) /\ AgentPolls' = {}
      BY <2>1 DEF PollsAreNear, OneAgentPoll, AgentPolls
    <2> QED
      BY <1>0, <2>1, <2>2 DEF PollsAreNear, OneAgentPoll, InTick
  <1>3. CASE StopTick
    <2>1. /\ next_poll_at' = next_poll_at /\ baseline' = baseline
          /\ last_processed_poll_at' = last_processed_poll_at
          /\ AgentPolls' = AgentPolls /\ pc = "tick" /\ pc' = "tick_over"
      BY <1>3 DEF StopTick, Goto, kernelVars, pollVars, AgentPolls
    <2> QED
      BY <1>0, <2>1 DEF PollsAreNear, OneAgentPoll, InTick
  <1>4. CASE CallReturns
    <2>1. /\ baseline' = baseline /\ pc = "acting"
          /\ pc' = IF call.cont THEN "tick" ELSE "tick_over"
          /\ last_processed_poll_at' = last_processed_poll_at
      BY <1>4 DEF CallReturns, Goto
    <2>2. /\ baseline <= last_processed_poll_at
          /\ last_processed_poll_at <= sim_time + Overrun(k)
          /\ AgentPolls = {}
      BY <1>0, <2>1 DEF PollsAreNear, OneAgentPoll, InTick
    <2>3. PollsAreNear(k)'
      BY <1>0, <2>1, <2>2 DEF PollsAreNear, InTick
    <2>4. CASE call.op = "idle"
      <3>1. PICK at : /\ at = IF next_poll_at <= sim_time THEN sim_time + 1
                              ELSE next_poll_at
                      /\ next_poll_at' = at
                      /\ heap' = Enqueue(heap, at, "agent_poll", Agent)
        BY <1>4, <2>4 DEF CallReturns
      <3>2. ~call.cont /\ next_poll_at > last_processed_poll_at
        BY <2>1, <2>4 DEF OneAgentPoll
      <3>3. at \in Nat /\ at > last_processed_poll_at
        BY <1>0, <3>1, <3>2
      <3>4. PollWaits'
        BY <1>0, <1>1, <2>1, <2>2, <3>1, <3>3
      <3>5. next_poll_at' # baseline'
        BY <1>0, <2>1, <2>2, <3>1, <3>3
      <3> QED
        BY <2>1, <2>3, <3>2, <3>4, <3>5 DEF OneAgentPoll
    <2>5. CASE call.op # "idle"
      <3>1. next_poll_at' = next_poll_at /\ AgentPolls' = AgentPolls
        BY <1>4, <2>5 DEF CallReturns, AgentPolls
      <3>2. next_poll_at = baseline
        BY <2>1, <2>5 DEF OneAgentPoll
      <3> QED
        BY <2>1, <2>2, <2>3, <3>1, <3>2 DEF OneAgentPoll
    <2> QED
      BY <2>4, <2>5
  <1>5. CASE CloseTick
    <2>1. /\ pc = "tick_over" /\ pc' = "loop"
          /\ last_processed_poll_at' = last_processed_poll_at
          /\ last_processed_poll_at <= sim_time + Overrun(k)
      BY <1>0, <1>5 DEF CloseTick, Goto, PollsAreNear, InTick
    <2>2. PollsAreNear(k)'
      BY <1>0, <2>1 DEF PollsAreNear, InTick
    <2>3. CASE next_poll_at # baseline
      <3>1. /\ next_poll_at' = next_poll_at /\ heap' = heap
            /\ AgentPolls' = AgentPolls
        BY <1>5, <2>3 DEF CloseTick, AgentPolls
      <3>2. PollWaits
        BY <2>1, <2>3 DEF OneAgentPoll
      <3>3. PollWaits'
        BY <2>1, <3>1, <3>2 DEF PollWaits, Opens
      <3> QED
        BY <2>1, <2>2, <3>3 DEF OneAgentPoll
    <2>4. CASE next_poll_at = baseline
      <3>1. PICK at : /\ at = NextPollAt(sim_time, busy_until[Agent])
                      /\ next_poll_at' = at
                      /\ heap' = Enqueue(heap, at, "agent_poll", Agent)
        BY <1>5, <2>4 DEF CloseTick
      <3>2. at \in Nat /\ at >= sim_time + Tick
        <4>1. busy_until[Agent] \in Nat
          BY DEF DriverInv, SimulationInv, NumbersOK, Person
        <4> QED
          BY <1>0, <3>1, <4>1, NextPollAtBounds
      <3>3. at # last_processed_poll_at
        <4>1. Overrun(k) < Tick /\ Tick \in Nat
          BY TickAssumption DEF RepliesFit
        <4> QED
          BY <1>0, <2>1, <3>2, <4>1
      <3>4. AgentPolls = {}
        BY <2>1, <2>4 DEF OneAgentPoll
      <3>5. PollWaits'
        BY <1>1, <2>1, <3>1, <3>2, <3>3, <3>4
      <3> QED
        BY <2>1, <2>2, <3>5 DEF OneAgentPoll
    <2> QED
      BY <2>3, <2>4
  <1> QED
    BY <1>2, <1>3, <1>4, <1>5

\* The last steps of a run.
LEMMA ClosingKeepsTheCadence ==
    ASSUME NEW k \in Nat, PollsAreNear(k), OneAgentPoll, RunOut \/ RunIsOut
    PROVE  PollsAreNear(k)' /\ OneAgentPoll'
  <1>1. /\ captured' = captured /\ captured = <<>> /\ DOMAIN captured = {}
        /\ pc' \in {"closing", "done"}
    BY DEF RunOut, RunIsOut, Goto, pollVars, PollsAreNear
  <1> QED
    BY <1>1 DEF PollsAreNear, OneAgentPoll, InTick

\* A run begins with one poll of the agent.
LEMMA TheCadenceBegins ==
    ASSUME NEW k \in Nat, Init
    PROVE  Stacked(k) /\ PollsAreNear(k) /\ OneAgentPoll
  <1>1. /\ frames = <<>> /\ captured = <<>> /\ pc = "loop" /\ next_poll_at = 0
        /\ last_processed_poll_at = -1
    BY DEF Init
  <1>2. PICK x : AgentPolls = {x} /\ x \in heap /\ x.fire_at = NextPollAt(0, 0)
    <2>1. PICK id, at :
              /\ at = NextPollAt(0, 0)
              /\ id = Len(Script) + (EndTime \div Hour) + Len(Npcs)
                      + Len(Meeting) + 1
      OBVIOUS
    <2>2. PICK x : x = [fire_at |-> at, event_id |-> id, kind |-> "agent_poll",
                        who |-> Agent]
      OBVIOUS
    <2>3. x.kind = "agent_poll" /\ x.fire_at = at
      BY <2>2
    <2>4. x \in heap
      BY <2>1, <2>2 DEF Init, InitialHeap, InitialEvent
    <2>5. \A e \in heap : e.kind = "agent_poll" => e = x
      BY <2>1, <2>2 DEF Init, InitialHeap, InitialEvent
    <2> QED
      BY <2>1, <2>3, <2>4, <2>5 DEF AgentPolls
  <1>3. x.fire_at \in Nat
    BY <1>2, NextPollAtBounds
  <1>4. PollWaits
    BY <1>1, <1>2, <1>3 DEF PollWaits, Opens
  <1>5. DOMAIN frames = {} /\ DOMAIN captured = {}
    BY <1>1
  <1> QED
    BY <1>1, <1>4, <1>5 DEF Stacked, PollsAreNear, OneAgentPoll, InTick

\* When every idle.until ends its tick and the replies that can be nested in
\* each other fit into a tick, whenever the driver is about to wait a poll of
\* the agent is pending that will open a tick.
THEOREM TheAgentKeepsItsCadence ==
    ASSUME NEW CONSTANT k \in Nat, RepliesFit(k)
    PROVE  Spec => []AgentKeepsCadence
  <1> DEFINE Kept == Stacked(k) /\ PollsAreNear(k) /\ OneAgentPoll
  <1>1. Init => Kept
    BY TheCadenceBegins
  <1>2. DriverInv /\ Kept /\ [Next]_vars => Kept'
    <2> SUFFICES ASSUME DriverInv, Stacked(k), PollsAreNear(k), OneAgentPoll,
                        [Next]_vars
                 PROVE  Stacked(k)' /\ PollsAreNear(k)' /\ OneAgentPoll'
      OBVIOUS
    <2>1. Stacked(k)'
      BY StacksStayWithinReach DEF RepliesFit, DriverInv
    <2>2. CASE DriverStep
      BY <2>1, <2>2, WaitingKeepsTheCadence, DecidingKeepsTheCadence,
         TickingKeepsTheCadence, ClosingKeepsTheCadence,
         AgentPollKeepsTheCadence DEF DriverStep
    <2>3. CASE Next /\ ~DriverStep
      BY <2>1, <2>3, OthersKeepTheCadence DEF Next
    <2>4. CASE UNCHANGED vars
      BY <2>1, <2>4
         DEF vars, kernelVars, driverVars, pollVars, turnVars, PollsAreNear,
             OneAgentPoll, PollWaits, AgentPolls, Opens, InTick, Horizon, Bottom
    <2> QED
      BY <2>2, <2>3, <2>4
  <1>3. Spec => []DriverInv
    BY DriverInvariance, RuntimeInvariance, PTL DEF DriverInv, RuntimeInv
  <1>4. Kept => AgentKeepsCadence
    BY DEF OneAgentPoll, PollWaits, Opens, AgentPolls, AgentKeepsCadence
  <1> HIDE DEF Kept
  <1> QED
    BY <1>1, <1>2, <1>3, <1>4, PTL DEF Spec
=============================================================================
