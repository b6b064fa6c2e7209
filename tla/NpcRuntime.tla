----------------------------- MODULE NpcRuntime -----------------------------
(***************************************************************************)
(* Tick-based NPC polling (src/sim/npc/runtime.py): triggers accumulate in *)
(* a queue per NPC, each NPC is polled at its own cadence, answers at most *)
(* one trigger per poll through a tool whose cost advances the scheduler   *)
(* inside the poll handler, and schedules its next poll when that returns. *)
(***************************************************************************)
EXTENDS SimKernel

CONSTANTS NpcCosts     \* declared minutes of the tools NPC policies allow;
                       \* chat.dm 1, docs.edit 5..60, tasks.log_work any

ASSUME NpcCostsAssumption == NpcCosts \subseteq Nat \ {0}

VARIABLES queues,       \* NpcRuntime._queues
          busy_until,   \* Person.busy_until of every person
          acted_at,     \* history: clock of each NPC's last decision, or -1
          owed          \* history: triggers accepted minus decisions taken

npcVars == <<queues, busy_until, acted_at, owed>>

\* _on_message_inserted and _on_email_inserted: the trigger joins the queue of
\* every NPC in `to`, the recipients the hop cap (HopCap.tla) lets through.
Route(from, to, now) ==
    /\ queues' = [p \in Npc |->
            IF p \in to
            THEN Append(queues[p], [sim_time |-> now, sender |-> from])
            ELSE queues[p]]

\* Who could be reached by a message of `from`.
Reach(from) == SUBSET (Npc \ {from})

\* triggers[0]: the most recent trigger, the first to arrive among equals
\* (sorted(..., reverse=True) is stable).
HeadTrigger(q) ==
    LET newest == {i \in DOMAIN q : \A j \in DOMAIN q :
                        q[j].sim_time <= q[i].sim_time}
    IN  q[CHOOSE i \in newest : \A j \in newest : i <= j]

\* Slip: the whole queue is answered by one reply.
ConsumeAll(q, head) == <<>>

\* _consume_trigger: drop the first entry equal to `head`, if there is one.
Consume(q, head) ==
    LET hits == {i \in DOMAIN q : q[i] = head}
    IN  IF hits = {} THEN q
        ELSE RemoveAt(q, CHOOSE i \in hits : \A j \in hits : i <= j)

\* Slip: the next poll is due as soon as its NPC is free.
RescheduleWithoutTick(h, npc, now) ==
    Enqueue(h, Later(now, busy_until[npc]), "npc_poll", npc)

\* _schedule_next_poll applied to heap h at clock `now`.
Reschedule(h, npc, now) ==
    Enqueue(h, NextPollAt(now, busy_until[npc]), "npc_poll", npc)

-----------------------------------------------------------------------------
\* Slip: the early return of a busy NPC forgets to schedule its next poll.
NpcSkipsForgets(e) ==
    /\ e.kind = "npc_poll"
    /\ Pops(e)
    /\ heap' = IF busy_until[e.who] > e.fire_at THEN heap \ {e}
               ELSE Reschedule(heap \ {e}, e.who, e.fire_at)
    /\ UNCHANGED <<frames, npcVars>>

\* A poll without a decision: the NPC is still in a meeting, has no trigger,
\* or its brain stays silent (or names only tools its policy denies).  The
\* queue is kept and the next poll scheduled.
NpcSkips(e) ==
    /\ e.kind = "npc_poll"
    /\ Pops(e)
    /\ heap' = Reschedule(heap \ {e}, e.who, e.fire_at)
    /\ UNCHANGED <<frames, npcVars>>

\* A poll with a decision: the brain's first permitted call is dispatched.
\* The tool acts (its message reaches the NPCs in `to`), and the registry
\* then advances the scheduler by its cost inside this handler.
NpcActs(e, to, cost) ==
    LET npc == e.who
        head == HeadTrigger(queues[npc])
    IN  /\ e.kind = "npc_poll"
        /\ Pops(e)
        /\ busy_until[npc] <= e.fire_at
        /\ queues[npc] # <<>>
        /\ heap' = heap \ {e}
        /\ Route(npc, to, e.fire_at)
        /\ Enter(e.fire_at + cost,
                 <<Frame(Head(frames).target, npc, head)>> \o Tail(frames))
        /\ acted_at' = [acted_at EXCEPT ![npc] = e.fire_at]
        /\ owed' = [p \in Npc |-> owed[p] + (IF p \in to THEN 1 ELSE 0)
                                          - (IF p = npc THEN 1 ELSE 0)]
        /\ UNCHANGED busy_until

\* Slip: the next poll is computed from the clock read before the dispatch.
NpcFinishesFromStaleClock ==
    LET npc == Head(frames).npc
    IN  /\ NpcInControl
        /\ queues' = [queues EXCEPT ![npc] = Consume(@, Head(frames).head)]
        /\ heap' = Reschedule(heap, npc, acted_at[npc])
        /\ frames' = <<Frame(Head(frames).target, Nobody, NoTrigger)>>
                     \o Tail(frames)
        /\ UNCHANGED <<sim_time, busy_until, acted_at, owed>>

\* The tool's advance has returned into the handler: the answered trigger is
\* consumed and the next poll scheduled from the clock as it now stands.
NpcFinishes ==
    LET npc == Head(frames).npc
    IN  /\ NpcInControl
        /\ queues' = [queues EXCEPT ![npc] = Consume(@, Head(frames).head)]
        /\ heap' = Reschedule(heap, npc, sim_time)
        /\ frames' = <<Frame(Head(frames).target, Nobody, NoTrigger)>>
                     \o Tail(frames)
        /\ UNCHANGED <<sim_time, busy_until, acted_at, owed>>

\* Slip: the loop over the attendees stops at the agent.
MeetingStartsWithoutAgent(e) ==
    /\ e.kind = "calendar_start"
    /\ Pops(e)
    /\ heap' = heap \ {e}
    /\ busy_until' = [p \in Person |->
            IF p \in Meeting[e.who].attendees \cap Npc
               /\ Agent \notin Meeting[e.who].attendees
            THEN Later(busy_until[p], Meeting[e.who].end)
            ELSE busy_until[p]]
    /\ UNCHANGED <<frames, queues, acted_at, owed>>

\* on_calendar_event_start: NPC attendees are busy until the meeting ends.
MeetingStarts(e) ==
    /\ e.kind = "calendar_start"
    /\ Pops(e)
    /\ heap' = heap \ {e}
    /\ busy_until' = [p \in Person |->
            IF p \in Meeting[e.who].attendees \cap Npc
            THEN Later(busy_until[p], Meeting[e.who].end)
            ELSE busy_until[p]]
    /\ UNCHANGED <<frames, queues, acted_at, owed>>

\* A scripted message (events.yaml), from a persona without a policy, is
\* inserted: its recipient gets a trigger, unless the hop cap drops it.
ScriptedMessage(e, dropped) ==
    /\ e.kind = "scripted"
    /\ Pops(e)
    /\ heap' = heap \ {e}
    /\ IF dropped
       THEN UNCHANGED <<queues, owed>>
       ELSE /\ Route(Nobody, {e.who}, e.fire_at)
            /\ owed' = [owed EXCEPT ![e.who] = @ + 1]
    /\ UNCHANGED <<frames, busy_until, acted_at>>

NpcStep ==
    \/ \E e \in heap : NpcSkips(e)
    \/ \E e \in heap : \E to \in Reach(e.who), cost \in NpcCosts :
            NpcActs(e, to, cost)
    \/ NpcFinishes
    \/ \E e \in heap : MeetingStarts(e)
    \/ \E e \in heap, dropped \in BOOLEAN : ScriptedMessage(e, dropped)
=============================================================================
