------------------------------ MODULE SimKernel ------------------------------
(***************************************************************************)
(* The part of a running simulation its actors share: the clock, the heap  *)
(* of pending events, and the stack of active Scheduler.advance_to calls   *)
(* (src/sim/scheduler/clock.py).  Scheduler.tla studies the scheduler under*)
(* arbitrary handlers; here the handlers are the ones build_runtime wires. *)
(***************************************************************************)
EXTENDS EventQueue, Integers, Sequences, FiniteSets, SequencesExt

CONSTANTS Agent,          \* the person with is_agent = true
          Npcs,           \* the managed NPC ids, in sorted order
          Nobody,         \* no managed NPC; also a sender without a policy
          Tick,           \* scenario tick_size_minutes, 1..240
          Meeting         \* world.calendar at start, in insertion order:
                          \* records [start, end, attendees]

ASSUME NpcsAssumption == Npcs \in Seq(Range(Npcs)) /\ IsInjective(Npcs)
ASSUME TickAssumption == Tick \in Nat \ {0}

\* The managed NPCs as a set, and everybody.
Npc == Range(Npcs)
Person == Npc \cup {Agent}

ASSUME NamesAssumption == Agent \notin Npc /\ Nobody \notin Person
ASSUME MeetingAssumption ==
    /\ Meeting \in Seq(Range(Meeting))
    /\ \A m \in DOMAIN Meeting :
        /\ Meeting[m].start \in Nat /\ Meeting[m].end \in Nat
        /\ Meeting[m].start < Meeting[m].end   \* World.add_calendar_event
        /\ Meeting[m].attendees \subseteq Person

VARIABLES sim_time,   \* Scheduler.sim_time
          heap,       \* Scheduler._heap, as a set
          frames      \* active advance_to calls, innermost first

kernelVars == <<sim_time, heap, frames>>

\* NpcTrigger: when the message or email was inserted and who sent it.
Trigger == [sim_time : Nat, sender : Person \cup {Nobody}]
NoTrigger == [sim_time |-> -1, sender |-> Nobody]

\* The events a run schedules.  `who` is the actor of a poll, the recipient of
\* a scripted message, or the calendar event of a start marker; a heartbeat
\* has the agent's id.
\*   npc_poll        actor_poll with NpcRuntime._fire_actor_poll attached
\*   agent_poll      actor_poll of the agent, without a handler of its own
\*   calendar_start  calendar_event_start, handled by the NPC runtime
\*   scripted        npc_send_chat, npc_send_dm, npc_send_email of events.yaml
\*   agent_heartbeat the hourly marker, without a handler
Kind == {"npc_poll", "agent_poll", "calendar_start", "scripted",
         "agent_heartbeat"}

\* One active advance_to call: its target and, while a handler it called is
\* itself inside a nested call, the NPC whose poll is being handled and the
\* trigger that NPC is answering.
Frame(target, npc, head) == [target |-> target, npc |-> npc, head |-> head]

\* heap with one more event.  Only the order of the ids among equal fire times
\* matters, so an event gets the next id at its fire time instead of the
\* scheduler's ever-growing counter.
Enqueue(h, at, kind, who) ==
    LET ids == {e.event_id : e \in {f \in h : f.fire_at = at}}
        next == IF ids = {} THEN 0 ELSE 1 + Max(ids)
    IN  h \cup {[fire_at |-> at, event_id |-> next, kind |-> kind, who |-> who]}

Later(a, b) == IF a >= b THEN a ELSE b

\* fire_at = max(sim_time + tick, busy_until), the personal cadence.
NextPollAt(now, busy) == Later(now + Tick, busy)

\* Python code outside the drain loops runs: the driver, when no advance is
\* active, or an NPC handler whose nested advance has just returned.
DriverInControl == frames = <<>>
NpcInControl == frames # <<>> /\ Head(frames).npc # Nobody

\* Code in control calls advance_to(target): `rest` is the stack it leaves.
Enter(target, rest) == frames' = <<Frame(target, Nobody, NoTrigger)>> \o rest

\* The drain loop of the innermost call pops event e and sets the clock.
Pops(e) ==
    /\ frames # <<>> /\ Head(frames).npc = Nobody
    /\ IsNext(e, heap)
    /\ e.fire_at <= Head(frames).target
    /\ sim_time' = e.fire_at

\* An hourly marker fires: no handler, no effect but the clock.
HeartbeatFires(e) ==
    /\ e.kind = "agent_heartbeat"
    /\ Pops(e)
    /\ heap' = heap \ {e}
    /\ UNCHANGED frames

\* Slip: the drain loop compares with < and leaves what is due at the target.
AdvanceReturnsEarly ==
    /\ frames # <<>> /\ Head(frames).npc = Nobody
    /\ \A e \in heap : e.fire_at >= Head(frames).target
    /\ sim_time' = Head(frames).target
    /\ frames' = Tail(frames)
    /\ UNCHANGED heap

\* The innermost advance_to ends: nothing is due, the clock takes its target.
AdvanceReturns ==
    /\ frames # <<>> /\ Head(frames).npc = Nobody
    /\ Due(heap, Head(frames).target) = {}
    /\ sim_time' = Head(frames).target
    /\ frames' = Tail(frames)
    /\ UNCHANGED heap
=============================================================================
