-------------------------- MODULE NpcRuntime_proofs --------------------------
(***************************************************************************)
(* Proofs about the trigger queues of the NPC runtime in a run of the      *)
(* simulation: every variable keeps its type, and each decision spends     *)
(* exactly one of the triggers it found, whatever arrives while the reply  *)
(* is being written and however deeply replies nest.                       *)
(***************************************************************************)
EXTENDS Simulation_proofs, Extrema

-----------------------------------------------------------------------------
(* The queue operators.                                                    *)

\* triggers[0] is an entry of the queue.
LEMMA HeadTriggerIsQueued ==
    ASSUME NEW q \in Seq(Trigger), q # <<>>
    PROVE  \E k \in DOMAIN q : HeadTrigger(q) = q[k]
  <1>1. Len(q) \in Nat \ {0} /\ DOMAIN q = 1 .. Len(q)
    BY EmptySeq, LenProperties
  <1> DEFINE f == [i \in DOMAIN q |-> q[i].sim_time]
             newest == {i \in DOMAIN q : \A j \in DOMAIN q :
                            q[j].sim_time <= q[i].sim_time}
  <1>2. \A i \in 1 .. Len(q) : q[i] \in Trigger
    BY ElementOfSeq
  <1>3. \A i \in 1 .. Len(q) : f[i] \in Int
    BY <1>1, <1>2 DEF Trigger
  <1>4. \E i \in 1 .. Len(q) : \A j \in 1 .. Len(q) : f[j] <= f[i]
    <2> HIDE DEF f
    <2> QED
      BY <1>1, <1>3, LargestInRow
  <1>5. newest # {} /\ newest \in SUBSET Nat
    <2>1. PICK i \in 1 .. Len(q) : \A j \in 1 .. Len(q) : f[j] <= f[i]
      BY <1>4
    <2>2. i \in newest
      BY <1>1, <2>1
    <2> QED
      BY <1>1, <2>2
  <1>6. \E i \in newest : \A j \in newest : i <= j
    <2> HIDE DEF newest
    <2> QED
      BY <1>5, LeastNatural
  <1>7. (CHOOSE i \in newest : \A j \in newest : i <= j) \in newest
    BY <1>6
  <1> QED
    BY <1>7 DEF HeadTrigger

\* Consuming a trigger that is queued shortens the queue by one.
LEMMA ConsumeTakesOne ==
    ASSUME NEW q \in Seq(Trigger), NEW head, \E k \in DOMAIN q : q[k] = head
    PROVE  Consume(q, head) \in Seq(Trigger) /\ Len(Consume(q, head)) = Len(q) - 1
  <1>1. Len(q) \in Nat /\ DOMAIN q = 1 .. Len(q)
    BY LenProperties
  <1> DEFINE hits == {i \in DOMAIN q : q[i] = head}
             k == CHOOSE i \in hits : \A j \in hits : i <= j
             left == SubSeq(q, 1, k - 1)
             right == SubSeq(q, k + 1, Len(q))
  <1>2. hits # {} /\ hits \in SUBSET Nat
    BY <1>1
  <1>3. k \in 1 .. Len(q)
    <2>1. hits \subseteq 1 .. Len(q)
      BY <1>1
    <2> HIDE DEF hits
    <2>2. \E i \in hits : \A j \in hits : i <= j
      BY <1>2, LeastNatural
    <2> QED
      BY <2>1, <2>2
  <1>4. Consume(q, head) = left \o right
    BY <1>2 DEF Consume, RemoveAt
  <1> HIDE DEF hits, k
  <1>5. k - 1 \in Int /\ k + 1 \in Int /\ Len(q) \in Int /\ 1 \in Int
    BY <1>1, <1>3
  <1>6. \A i \in 1 .. Len(q) : q[i] \in Trigger
    BY ElementOfSeq
  <1>7. /\ \A i \in 1 .. k - 1 : q[i] \in Trigger
        /\ \A i \in k + 1 .. Len(q) : q[i] \in Trigger
    BY <1>1, <1>3, <1>6
  <1>8. left \in Seq(Trigger) /\ Len(left) = k - 1
    <2>1. /\ left \in Seq(Trigger)
          /\ Len(left) = IF 1 <= k - 1 THEN (k - 1) - 1 + 1 ELSE 0
      BY <1>5, <1>7, SubSeqProperties
    <2> QED
      BY <1>1, <1>3, <2>1
  <1>9. right \in Seq(Trigger) /\ Len(right) = Len(q) - k
    <2>1. /\ right \in Seq(Trigger)
          /\ Len(right) = IF k + 1 <= Len(q) THEN Len(q) - (k + 1) + 1 ELSE 0
      BY <1>5, <1>7, SubSeqProperties
    <2> HIDE DEF right
    <2>2. Len(q) - (k + 1) + 1 = Len(q) - k
      BY <1>1, <1>3
    <2>3. ~(k + 1 <= Len(q)) => Len(q) - k = 0
      <3>1. PICK n \in Nat : n = Len(q)
        BY <1>1
      <3>2. PICK m \in 1 .. n : m = k
        BY <1>3, <3>1
      <3>3. ~(m + 1 <= n) => n - m = 0
        BY <3>1, <3>2
      <3> QED
        BY <3>1, <3>2, <3>3
    <2> QED
      BY <2>1, <2>2, <2>3
  <1> HIDE DEF left, right
  <1>10. left \o right \in Seq(Trigger) /\ Len(left \o right) = Len(left) + Len(right)
    BY <1>8, <1>9, ConcatProperties
  <1> QED
    BY <1>1, <1>3, <1>4, <1>8, <1>9, <1>10

\* Routing appends one trigger to the queue of every recipient.
LEMMA RouteAppends ==
    ASSUME queues \in [Npc -> Seq(Trigger)], NEW from \in Person \cup {Nobody},
           NEW to, NEW now \in Nat, Route(from, to, now)
    PROVE  /\ queues' \in [Npc -> Seq(Trigger)]
           /\ \A p \in Npc :
                /\ Len(queues'[p]) = Len(queues[p]) + (IF p \in to THEN 1 ELSE 0)
                /\ \A k \in DOMAIN queues[p] :
                      k \in DOMAIN queues'[p] /\ queues'[p][k] = queues[p][k]
  <1> DEFINE t == [sim_time |-> now, sender |-> from]
  <1>0. t \in Trigger
    BY DEF Trigger
  <1>1. ASSUME NEW p \in Npc
        PROVE  /\ queues'[p] = IF p \in to THEN Append(queues[p], t) ELSE queues[p]
               /\ queues'[p] \in Seq(Trigger)
               /\ Len(queues'[p]) = Len(queues[p]) + (IF p \in to THEN 1 ELSE 0)
               /\ \A k \in DOMAIN queues[p] :
                      k \in DOMAIN queues'[p] /\ queues'[p][k] = queues[p][k]
    <2>1. queues'[p] = IF p \in to THEN Append(queues[p], t) ELSE queues[p]
      BY DEF Route
    <2>2. queues[p] \in Seq(Trigger) /\ Len(queues[p]) \in Nat
          /\ DOMAIN queues[p] = 1 .. Len(queues[p])
      BY LenProperties
    <2> HIDE DEF t
    <2>3. CASE p \in to
      <3> DEFINE q == Append(queues[p], t)
      <3>1. /\ q \in Seq(Trigger) /\ Len(q) = Len(queues[p]) + 1
            /\ \A i \in 1 .. Len(queues[p]) : q[i] = queues[p][i]
        BY <1>0, <2>2, AppendProperties
      <3>2. DOMAIN q = 1 .. Len(q)
        BY <3>1, LenProperties
      <3>3. queues'[p] = q
        BY <2>1, <2>3
      <3> HIDE DEF q
      <3> QED
        BY <2>1, <2>2, <2>3, <3>1, <3>2, <3>3
    <2>4. CASE p \notin to
      BY <2>1, <2>2, <2>4
    <2> QED
      BY <2>3, <2>4
  <1> QED
    BY <1>1 DEF Route

-----------------------------------------------------------------------------
(* The heap.                                                               *)

HeapType == heap \subseteq Event /\ IsFiniteSet(heap)

\* An event enqueued gets an id and leaves the heap finite.
LEMMA EnqueueType ==
    ASSUME NEW h, h \subseteq Event, IsFiniteSet(h), NEW at \in Nat,
           NEW kind \in Kind, NEW who \in Person \cup DOMAIN Meeting
    PROVE  Enqueue(h, at, kind, who) \subseteq Event
           /\ IsFiniteSet(Enqueue(h, at, kind, who))
  <1> DEFINE same == {f \in h : f.fire_at = at}
             idOf == [e \in same |-> e.event_id]
             ids == {e.event_id : e \in same}
             next == IF ids = {} THEN 0 ELSE 1 + Max(ids)
  <1>1. IsFiniteSet(same)
    BY FS_Subset
  <1>2. ids = {idOf[e] : e \in same} /\ idOf = [e \in same |-> idOf[e]]
    OBVIOUS
  <1>3. IsFiniteSet(ids)
    <2> HIDE DEF same, idOf, ids
    <2> QED
      BY <1>1, <1>2, FiniteImage
  <1>4. ids \in SUBSET Nat
    BY DEF Event
  <1>5. next \in Nat
    <2>1. CASE ids = {}
      BY <2>1
    <2>2. CASE ids # {}
      <3> HIDE DEF ids
      <3>1. \E x \in ids : \A y \in ids : y <= x
        BY <1>3, <1>4, <2>2, LargestElement
      <3>2. \E x \in ids : \A y \in ids : x >= y
        BY <1>4, <3>1
      <3>3. Max(ids) \in ids
        BY <3>2 DEF Max
      <3>4. Max(ids) \in Nat /\ next = 1 + Max(ids)
        BY <1>4, <2>2, <3>3
      <3> QED
        BY <3>4
    <2> QED
      BY <2>1, <2>2
  <1>6. Enqueue(h, at, kind, who) =
            h \cup {[fire_at |-> at, event_id |-> next, kind |-> kind, who |-> who]}
    BY DEF Enqueue
  <1> HIDE DEF next
  <1>7. [fire_at |-> at, event_id |-> next, kind |-> kind, who |-> who] \in Event
    BY <1>5 DEF Event
  <1> QED
    BY <1>6, <1>7, FS_AddElement

\* Every step takes events away or enqueues one of a known kind.
LEMMA HeapTypePreserved ==
    ASSUME SimulationInv, HeapType, [Next]_vars PROVE HeapType'
  <1>0. /\ sim_time \in Nat /\ next_poll_at \in Nat
        /\ busy_until \in [Person -> Nat] /\ Npc \subseteq Person /\ Agent \in Person
        /\ \A e \in heap : /\ e.fire_at \in Nat
                           /\ e.kind = "npc_poll" => e.who \in Npc
    BY DEF SimulationInv, NumbersOK, HeapOK, Person
  <1>1. ASSUME heap' \subseteq heap PROVE HeapType'
    BY <1>1, FS_Subset DEF HeapType
  <1>2. ASSUME NEW h \in SUBSET heap, NEW at \in Nat, NEW kind \in Kind,
               NEW who \in Person, heap' = Enqueue(h, at, kind, who)
        PROVE  HeapType'
    <2>1. h \subseteq Event /\ IsFiniteSet(h)
      BY FS_Subset DEF HeapType
    <2>2. Enqueue(h, at, kind, who) \subseteq Event
          /\ IsFiniteSet(Enqueue(h, at, kind, who))
      BY <2>1, EnqueueType
    <2> QED
      BY <1>2, <2>2 DEF HeapType
  <1>3. ASSUME NEW h \in SUBSET heap, NEW p \in Npc, NEW now \in Nat,
               heap' = Reschedule(h, p, now)
        PROVE  HeapType'
    <2>1. NextPollAt(now, busy_until[p]) \in Nat
      BY <1>0, NextPollAtBounds
    <2>2. "npc_poll" \in Kind /\ p \in Person
      BY <1>0 DEF Kind
    <2> QED
      BY <1>2, <1>3, <2>1, <2>2 DEF Reschedule
  <1>4. ASSUME NEW e \in heap, NpcSkips(e) PROVE HeapType'
    <2>1. e.who \in Npc /\ e.fire_at \in Nat /\ heap \ {e} \in SUBSET heap
      BY <1>0, <1>4 DEF NpcSkips
    <2> QED
      BY <1>3, <1>4, <2>1 DEF NpcSkips
  <1>5. CASE NpcFinishes
    <2>1. Head(frames).npc \in Npc
      <3>1. frames # <<>> /\ Head(frames) = frames[1] /\ 1 \in DOMAIN frames
        BY <1>5, Pop, SeqDomain
           DEF NpcFinishes, NpcInControl, SimulationInv, FramesOK
      <3> QED
        BY <1>5, <3>1 DEF NpcFinishes, NpcInControl, SimulationInv, FramesOK
    <2> QED
      BY <1>0, <1>3, <1>5, <2>1 DEF NpcFinishes
  <1>6. CASE NpcStep /\ ~NpcFinishes
    <2>1. ASSUME NEW e \in heap, NEW to, NEW cost, NpcActs(e, to, cost)
          PROVE  HeapType'
      BY <1>1, <2>1 DEF NpcActs
    <2>2. ASSUME NEW e \in heap, NEW dropped,
                 MeetingStarts(e) \/ ScriptedMessage(e, dropped)
          PROVE  HeapType'
      BY <1>1, <2>2 DEF MeetingStarts, ScriptedMessage
    <2> QED
      BY <1>4, <1>6, <2>1, <2>2 DEF NpcStep
  <1>7. ASSUME NEW e \in heap, HeartbeatFires(e) \/ AgentPollFires(e)
        PROVE  HeapType'
    BY <1>1, <1>7 DEF HeartbeatFires, AgentPollFires
  <1>8. CASE CallReturns \/ CloseTick
    <2>1. heap' = heap \/ \E at \in Nat : heap' = Enqueue(heap, at, "agent_poll", Agent)
      <3>1. CASE CallReturns
        BY <1>0, <3>1 DEF CallReturns
      <3>2. CASE CloseTick
        <4> DEFINE at == NextPollAt(sim_time, busy_until[Agent])
        <4>1. at \in Nat
          BY <1>0, NextPollAtBounds
        <4>2. heap' = heap \/ heap' = Enqueue(heap, at, "agent_poll", Agent)
          BY <3>2 DEF CloseTick
        <4> HIDE DEF at
        <4> QED
          BY <4>1, <4>2
      <3> QED
        BY <1>8, <3>1, <3>2
    <2>2. "agent_poll" \in Kind
      BY DEF Kind
    <2> QED
      BY <1>0, <1>1, <1>2, <2>1, <2>2
  <1>9. CASE UNCHANGED heap
    BY <1>9, <1>1
  <1>10. CASE DriverStep /\ ~(CallReturns \/ CloseTick)
              /\ ~(\E e \in heap : AgentPollFires(e))
    <2>1. UNCHANGED heap
      BY <1>10 DEF DriverStep, LoopHead, WaitAdvances, WaitFindsNothing, WaitEnds,
           SkipPoll, OpenTick, StopTick, DecideAct, DecideIdle, DecideAbandon,
           RunOut, RunIsOut, kernelVars
    <2> QED
      BY <1>9, <2>1
  <1> QED
    BY <1>5, <1>6, <1>7, <1>8, <1>9, <1>10
       DEF Next, AdvanceReturns, vars, kernelVars

-----------------------------------------------------------------------------
(* The stack and who is on it.                                             *)

FrameType == [target : Nat, npc : Npc \cup {Nobody}, head : Trigger \cup {NoTrigger}]

\* The frames whose handler is the poll of p hold the same replies as before,
\* wherever in the stack they are.
SameHandlers(p) ==
    /\ \A i \in Handling(p)' : \E j \in Handling(p) : frames'[i] = frames[j]
    /\ \A j \in Handling(p) : \E i \in Handling(p)' : frames'[i] = frames[j]

\* An advance that ends was waiting for no reply.
LEMMA ReturningKeepsHandlers ==
    ASSUME FramesOK, AdvanceReturns, frames \in Seq(FrameType)
    PROVE  /\ frames' \in Seq(FrameType)
           /\ \A p \in Npc : SameHandlers(p)
  <1>1. /\ frames # <<>> /\ frames' = Tail(frames) /\ frames[1].npc = Nobody
        /\ Len(frames) \in Nat \ {0}
        /\ \A i \in 1 .. Len(frames) - 1 : frames'[i] = frames[i + 1]
        /\ DOMAIN frames = 1 .. Len(frames)
        /\ DOMAIN frames' = 1 .. Len(frames) - 1
    <2>1. /\ IsSeq(frames) /\ frames # <<>> /\ frames' = Tail(frames)
          /\ Head(frames).npc = Nobody
      BY DEF FramesOK, AdvanceReturns
    <2> QED
      BY <2>1, Pop, SeqDomain
  <1>2. frames' \in Seq(FrameType)
    BY <1>1, HeadTailProperties
  <1>3. ASSUME NEW p \in Npc, NEW i \in Handling(p)'
        PROVE  \E j \in Handling(p) : frames'[i] = frames[j]
    <2>1. i \in DOMAIN frames' /\ frames'[i].npc = p
      BY DEF Handling
    <2>2. i + 1 \in DOMAIN frames /\ frames'[i] = frames[i + 1]
      BY <1>1, <2>1
    <2> QED
      BY <2>1, <2>2 DEF Handling
  <1>4. ASSUME NEW p \in Npc, NEW j \in Handling(p)
        PROVE  \E i \in Handling(p)' : frames'[i] = frames[j]
    <2>1. j \in DOMAIN frames /\ frames[j].npc = p /\ j # 1
      BY <1>1, NamesAssumption DEF Handling, Person
    <2>2. j - 1 \in DOMAIN frames' /\ frames'[j - 1] = frames[j]
      BY <1>1, <2>1
    <2> QED
      BY <2>1, <2>2 DEF Handling
  <1> QED
    BY <1>2, <1>3, <1>4 DEF SameHandlers

\* So does an advance the driver begins.
LEMMA EnteringKeepsHandlers ==
    ASSUME frames = <<>>, NEW target \in Nat, Enter(target, frames)
    PROVE  /\ frames' \in Seq(FrameType)
           /\ \A p \in Npc : Handling(p) = {} /\ Handling(p)' = {}
  <1> DEFINE f == Frame(target, Nobody, NoTrigger)
  <1>1. frames' = <<f>> \o <<>> /\ f.npc = Nobody /\ f \in FrameType
    BY DEF Enter, Frame, FrameType
  <1>2. IsSeq(<<>>) /\ Len(<<>>) = 0 /\ <<>> \in Seq(FrameType)
    BY EmptySeq DEF IsSeq
  <1> HIDE DEF f
  <1>3. frames' \in Seq(FrameType)
    <2>1. <<f>> \in Seq(FrameType)
      BY <1>1
    <2> QED
      BY <1>1, <1>2, <2>1, ConcatProperties
  <1>4. DOMAIN frames' = {1} /\ frames'[1] = f
    <2>1. Len(frames') = 1 /\ frames'[1] = f
      BY <1>1, <1>2, Push
    <2>2. IsSeq(frames')
      BY <1>3 DEF IsSeq
    <2> QED
      BY <2>1, <2>2, SeqDomain
  <1> QED
    BY <1>1, <1>3, <1>4, NamesAssumption DEF Handling, Person

\* A decision pushes the advance that pays for its tool on its own frame,
\* which keeps its target and now names the NPC and the trigger it answers.
LEMMA DecisionStack ==
    ASSUME FramesOK, frames # <<>>, NEW f, NEW g,
           frames' = <<f>> \o (<<g>> \o Tail(frames))
    PROVE  /\ IsSeq(frames') /\ Len(frames) \in Nat \ {0}
           /\ Len(frames') = Len(frames) + 1
           /\ frames'[1] = f /\ frames'[2] = g
           /\ \A i \in 3 .. Len(frames) + 1 : frames'[i] = frames[i - 1]
  <1>1. PICK fr : fr = frames
    OBVIOUS
  <1>2. PICK fs : fs = <<f>> \o (<<g>> \o Tail(fr))
    OBVIOUS
  <1>3. IsSeq(fr) /\ fr # <<>>
    BY <1>1 DEF FramesOK
  <1>4. IsSeq(fs) /\ Len(fr) \in Nat \ {0}
    BY <1>2, <1>3, UpdatePush
  <1>5. Len(fs) = Len(fr) + 1
    BY <1>2, <1>3, UpdatePush
  <1>6. fs[1] = f /\ fs[2] = g
    BY <1>2, <1>3, UpdatePush
  <1>7. \A i \in 3 .. Len(fr) + 1 : fs[i] = fr[i - 1]
    BY <1>2, <1>3, UpdatePush
  <1> QED
    BY <1>1, <1>2, <1>4, <1>5, <1>6, <1>7

\* A decision puts its NPC on the stack with the trigger it answers.
LEMMA DecidingStack ==
    ASSUME SimulationInv, frames \in Seq(FrameType),
           queues \in [Npc -> Seq(Trigger)],
           NEW e \in heap, NEW to, NEW cost \in NpcCosts, NpcActs(e, to, cost)
    PROVE  /\ frames' \in Seq(FrameType) /\ e.who \in Npc /\ e.fire_at \in Nat
           /\ Handling(e.who) = {} /\ Handling(e.who)' = {2}
           /\ frames'[2].head = HeadTrigger(queues[e.who])
           /\ \A p \in Npc : p # e.who => SameHandlers(p)
  <1> DEFINE npc == e.who
             f == Frame(e.fire_at + cost, Nobody, NoTrigger)
             g == Frame(Head(frames).target, npc, HeadTrigger(queues[npc]))
             n == Len(frames)
  <1>0. NumbersOK /\ HeapOK /\ FramesOK /\ OnePollPerNpc
    BY DEF SimulationInv
  <1>1. /\ npc \in Npc /\ e.fire_at \in Nat /\ e.kind = "npc_poll"
        /\ frames # <<>> /\ Head(frames).npc = Nobody
        /\ queues[npc] # <<>> /\ queues[npc] \in Seq(Trigger)
        /\ frames' = <<f>> \o (<<g>> \o Tail(frames))
    BY <1>0 DEF NpcActs, Enter, Pops, HeapOK
  <1>2. /\ Head(frames) = frames[1] /\ 1 \in DOMAIN frames
        /\ frames[1].target \in Nat /\ DOMAIN frames = 1 .. n
    BY <1>0, <1>1, Pop, SeqDomain DEF FramesOK
  <1>3. f \in FrameType /\ g \in FrameType
    <2>1. HeadTrigger(queues[npc]) \in Trigger
      BY <1>1, HeadTriggerIsQueued, ElementOfSeq, LenProperties
    <2>2. e.fire_at + cost \in Nat
      BY <1>1, NpcCostsAssumption
    <2> QED
      BY <1>1, <1>2, <2>1, <2>2 DEF Frame, FrameType
  <1>4. /\ f.npc = Nobody /\ g.npc = npc /\ g.head = HeadTrigger(queues[npc])
    BY DEF Frame
  <1> HIDE DEF f, g
  <1>5. frames' \in Seq(FrameType)
    <2>1. /\ Tail(frames) \in Seq(FrameType) /\ <<f>> \in Seq(FrameType)
          /\ <<g>> \in Seq(FrameType)
      BY <1>1, <1>3, HeadTailProperties
    <2>2. <<g>> \o Tail(frames) \in Seq(FrameType)
      BY <2>1, ConcatProperties
    <2> QED
      BY <1>1, <2>1, <2>2, ConcatProperties
  <1>6. /\ n \in Nat \ {0} /\ Len(frames') = n + 1
        /\ frames'[1] = f /\ frames'[2] = g
        /\ \A i \in 3 .. n + 1 : frames'[i] = frames[i - 1]
        /\ DOMAIN frames' = 1 .. n + 1
    <2>1. /\ n \in Nat \ {0} /\ Len(frames') = n + 1
          /\ frames'[1] = f /\ frames'[2] = g
          /\ \A i \in 3 .. n + 1 : frames'[i] = frames[i - 1]
          /\ IsSeq(frames')
      BY <1>0, <1>1, DecisionStack
    <2> QED
      BY <2>1, SeqDomain
  <1>7. Handling(npc) = {}
    <2>1. e \in PendingPolls(npc)
      BY <1>1 DEF PendingPolls
    <2> QED
      BY <1>0, <1>1, <2>1 DEF OnePollPerNpc
  <1> HIDE DEF n
  <1>8. \A i \in DOMAIN frames' : i = 1 \/ i = 2 \/ i \in 3 .. n + 1
    BY <1>6
  <1>9. Handling(npc)' = {2}
    <2>1. 2 \in Handling(npc)'
      BY <1>4, <1>6 DEF Handling, npc
    <2>2. ASSUME NEW i \in Handling(npc)' PROVE i = 2
      <3>1. i \in DOMAIN frames' /\ frames'[i].npc = npc
        BY DEF Handling, npc
      <3>2. i # 1
        BY <1>1, <1>4, <1>6, <3>1, NamesAssumption DEF Person
      <3>3. i \notin 3 .. n + 1
        <4> SUFFICES ASSUME i \in 3 .. n + 1 PROVE FALSE
          OBVIOUS
        <4>1. i - 1 \in DOMAIN frames /\ frames[i - 1].npc = npc
          BY <1>2, <1>6, <3>1 DEF n
        <4> QED
          BY <1>7, <4>1 DEF Handling
      <3> QED
        BY <1>8, <3>1, <3>2, <3>3
    <2> QED
      BY <2>1, <2>2
  <1>10. ASSUME NEW p \in Npc, p # npc, NEW i \in Handling(p)'
         PROVE  \E j \in Handling(p) : frames'[i] = frames[j]
    <2>1. i \in DOMAIN frames' /\ frames'[i].npc = p
      BY DEF Handling
    <2>2. i # 1 /\ i # 2
      BY <1>4, <1>6, <1>10, <2>1, NamesAssumption DEF Person
    <2>3. i \in 3 .. n + 1
      BY <1>8, <2>1, <2>2
    <2>4. i - 1 \in DOMAIN frames /\ frames'[i] = frames[i - 1]
      BY <1>2, <1>6, <2>3 DEF n
    <2> QED
      BY <2>1, <2>4 DEF Handling
  <1>11. ASSUME NEW p \in Npc, p # npc, NEW j \in Handling(p)
         PROVE  \E i \in Handling(p)' : frames'[i] = frames[j]
    <2>1. j \in DOMAIN frames /\ frames[j].npc = p /\ j # 1
      BY <1>1, <1>2, NamesAssumption DEF Handling, Person
    <2>2. j + 1 \in 3 .. n + 1 /\ j + 1 \in DOMAIN frames' /\ frames'[j + 1] = frames[j]
      BY <1>2, <1>6, <2>1 DEF n
    <2> QED
      BY <2>1, <2>2 DEF Handling
  <1> QED
    BY <1>1, <1>4, <1>5, <1>6, <1>7, <1>9, <1>10, <1>11 DEF SameHandlers

\* When its advance has returned, the NPC leaves the stack.
LEMMA FinishingStack ==
    ASSUME SimulationInv, frames \in Seq(FrameType), NpcFinishes
    PROVE  /\ frames' \in Seq(FrameType)
           /\ Head(frames).npc \in Npc /\ Head(frames) = frames[1]
           /\ Handling(Head(frames).npc) = {1}
           /\ \A i \in DOMAIN frames' : frames'[i].npc # Head(frames).npc
           /\ \A p \in Npc : p # Head(frames).npc => SameHandlers(p)
  <1> DEFINE npc == Head(frames).npc
             f == Frame(Head(frames).target, Nobody, NoTrigger)
             n == Len(frames)
  <1>0. FramesOK /\ OnePollPerNpc
    BY DEF SimulationInv
  <1>1. /\ frames # <<>> /\ npc # Nobody /\ frames' = <<f>> \o Tail(frames)
    BY DEF NpcFinishes, NpcInControl
  <1>2. /\ Head(frames) = frames[1] /\ 1 \in DOMAIN frames
        /\ frames[1].target \in Nat /\ DOMAIN frames = 1 .. n
        /\ npc \in Npc
    BY <1>0, <1>1, Pop, SeqDomain DEF FramesOK
  <1>3. f \in FrameType /\ f.npc = Nobody
    BY <1>2 DEF Frame, FrameType
  <1> HIDE DEF f
  <1>4. frames' \in Seq(FrameType)
    <2>1. Tail(frames) \in Seq(FrameType) /\ <<f>> \in Seq(FrameType)
      BY <1>1, <1>3, HeadTailProperties
    <2> QED
      BY <1>1, <2>1, ConcatProperties
  <1>5. /\ n \in Nat \ {0} /\ frames'[1] = f
        /\ \A i \in 2 .. n : frames'[i] = frames[i]
        /\ DOMAIN frames' = 1 .. n
    <2>1. IsSeq(frames)
      BY <1>0 DEF FramesOK
    <2>2. /\ n \in Nat \ {0} /\ Len(frames') = n /\ frames'[1] = f
          /\ \A i \in 2 .. n : frames'[i] = frames[i] /\ IsSeq(frames')
      BY <1>1, <2>1, Update
    <2>3. IsSeq(frames')
      BY <1>4 DEF IsSeq
    <2> QED
      BY <2>2, <2>3, SeqDomain
  <1>6. Handling(npc) = {1}
    <2>1. 1 \in Handling(npc)
      BY <1>2 DEF Handling
    <2> QED
      BY <1>0, <1>2, <2>1 DEF OnePollPerNpc
  <1>7. ASSUME NEW i \in DOMAIN frames' PROVE frames'[i].npc # npc
    <2>1. CASE i = 1
      BY <1>1, <1>3, <1>5, <2>1
    <2>2. CASE i \in 2 .. n
      <3>1. i \in DOMAIN frames /\ i # 1 /\ frames'[i] = frames[i]
        BY <1>2, <1>5, <2>2
      <3> QED
        BY <1>6, <3>1 DEF Handling
    <2> QED
      BY <1>5, <2>1, <2>2
  <1>8. ASSUME NEW p \in Npc, p # npc
        PROVE  /\ Handling(p)' = Handling(p)
               /\ \A i \in Handling(p) : frames'[i] = frames[i]
    <2>1. \A i \in DOMAIN frames : i = 1 \/ i \in 2 .. n
      BY <1>2, <1>5
    <2>2. frames[1].npc # p /\ frames'[1].npc # p
      BY <1>2, <1>3, <1>5, <1>8, NamesAssumption DEF Person
    <2> QED
      BY <1>2, <1>5, <2>1, <2>2 DEF Handling
  <1> QED
    BY <1>2, <1>4, <1>6, <1>7, <1>8 DEF SameHandlers

-----------------------------------------------------------------------------
(* Triggers.  That a reply spends exactly one trigger when it finishes     *)
(* needs that the trigger it answers is still queued by then: nothing but  *)
(* the NPC's own poll ever takes from its queue, and it has one poll.      *)

QueueType ==
    /\ queues \in [Npc -> Seq(Trigger)]
    /\ owed \in [Npc -> Int]
    /\ frames \in Seq(FrameType)

TriggerOK(p) ==
    /\ Len(queues[p]) = owed[p] + (IF Handling(p) = {} THEN 0 ELSE 1)
    /\ \A i \in Handling(p) : \E k \in DOMAIN queues[p] :
            queues[p][k] = frames[i].head

TriggersOK == \A p \in Npc : TriggerOK(p)

\* An NPC's account still balances when it keeps its place and its queue
\* grows by what it is owed.
LEMMA BystanderKeepsTriggers ==
    ASSUME QueueType, NEW p \in Npc, TriggerOK(p), SameHandlers(p),
           NEW n \in Int, owed'[p] = owed[p] + n,
           Len(queues'[p]) = Len(queues[p]) + n,
           \A k \in DOMAIN queues[p] :
              k \in DOMAIN queues'[p] /\ queues'[p][k] = queues[p][k]
    PROVE  TriggerOK(p)'
  <1>0. Len(queues[p]) \in Nat /\ owed[p] \in Int
    BY LenProperties DEF QueueType
  <1>1. Handling(p)' = {} <=> Handling(p) = {}
    BY DEF SameHandlers
  <1>2. Len(queues'[p]) = owed'[p] + (IF Handling(p)' = {} THEN 0 ELSE 1)
    BY <1>0, <1>1 DEF TriggerOK
  <1>3. ASSUME NEW i \in Handling(p)'
        PROVE  \E k \in DOMAIN queues'[p] : queues'[p][k] = frames'[i].head
    <2>1. PICK j \in Handling(p) : frames'[i] = frames[j]
      BY DEF SameHandlers
    <2>2. PICK k \in DOMAIN queues[p] : queues[p][k] = frames[j].head
      BY DEF TriggerOK
    <2> QED
      BY <2>1, <2>2
  <1> QED
    BY <1>2, <1>3 DEF TriggerOK

\* Messages reach the NPCs in `to` while nobody enters or leaves the stack.
LEMMA DeliveryKeepsTriggers ==
    ASSUME QueueType, TriggersOK, NEW from \in Person \cup {Nobody}, NEW to,
           NEW now \in Nat, Route(from, to, now),
           frames' \in Seq(FrameType), \A p \in Npc : SameHandlers(p),
           owed' = [p \in Npc |-> owed[p] + (IF p \in to THEN 1 ELSE 0)]
    PROVE  QueueType' /\ TriggersOK'
  <1>1. /\ queues' \in [Npc -> Seq(Trigger)]
        /\ \A p \in Npc :
              /\ Len(queues'[p]) = Len(queues[p]) + (IF p \in to THEN 1 ELSE 0)
              /\ \A k \in DOMAIN queues[p] :
                    k \in DOMAIN queues'[p] /\ queues'[p][k] = queues[p][k]
    BY RouteAppends DEF QueueType
  <1>2. QueueType'
    BY <1>1 DEF QueueType
  <1>3. ASSUME NEW p \in Npc PROVE TriggerOK(p)'
    <2> DEFINE n == IF p \in to THEN 1 ELSE 0
    <2>1. n \in Int /\ owed'[p] = owed[p] + n /\ Len(queues'[p]) = Len(queues[p]) + n
      <3>1. Len(queues'[p]) = Len(queues[p]) + n
        BY <1>1
      <3>2. owed'[p] = owed[p] + n
        OBVIOUS
      <3> QED
        BY <3>1, <3>2
    <2> HIDE DEF n
    <2>2. TriggerOK(p) /\ SameHandlers(p)
      BY DEF TriggersOK
    <2> QED
      BY <1>1, <2>1, <2>2, BystanderKeepsTriggers
  <1> QED
    BY <1>2, <1>3 DEF TriggersOK

\* Nothing happens to any queue.
LEMMA SilenceKeepsTriggers ==
    ASSUME QueueType, TriggersOK, UNCHANGED <<queues, owed>>,
           frames' \in Seq(FrameType), \A p \in Npc : SameHandlers(p)
    PROVE  QueueType' /\ TriggersOK'
  <1>1. QueueType'
    BY DEF QueueType
  <1>2. ASSUME NEW p \in Npc PROVE TriggerOK(p)'
    <2>1. TriggerOK(p) /\ SameHandlers(p)
      BY DEF TriggersOK
    <2>2. /\ owed[p] \in Int /\ Len(queues[p]) \in Nat
      BY LenProperties DEF QueueType
    <2>3. 0 \in Int /\ owed'[p] = owed[p] + 0 /\ Len(queues'[p]) = Len(queues[p]) + 0
      BY <2>2
    <2>4. \A k \in DOMAIN queues[p] :
              k \in DOMAIN queues'[p] /\ queues'[p][k] = queues[p][k]
      OBVIOUS
    <2> QED
      BY <2>1, <2>3, <2>4, BystanderKeepsTriggers
  <1> QED
    BY <1>1, <1>2 DEF TriggersOK

\* A decision: its NPC answers the head of its queue, others hear of it.
LEMMA DecidingKeepsTriggers ==
    ASSUME SimulationInv, QueueType, TriggersOK,
           NEW e \in heap, NEW to \in Reach(e.who), NEW cost \in NpcCosts,
           NpcActs(e, to, cost)
    PROVE  QueueType' /\ TriggersOK'
  <1> DEFINE npc == e.who
  <1>1. /\ frames' \in Seq(FrameType) /\ npc \in Npc /\ e.fire_at \in Nat
        /\ Handling(npc) = {} /\ Handling(npc)' = {2}
        /\ frames'[2].head = HeadTrigger(queues[npc])
        /\ \A p \in Npc : p # npc => SameHandlers(p)
    BY DecidingStack DEF QueueType
  <1>2. /\ Route(npc, to, e.fire_at) /\ queues[npc] # <<>>
        /\ owed' = [p \in Npc |-> owed[p] + (IF p \in to THEN 1 ELSE 0)
                                         - (IF p = npc THEN 1 ELSE 0)]
        /\ npc \notin to
    BY DEF NpcActs, Reach
  <1> HIDE DEF npc
  <1>3. /\ queues' \in [Npc -> Seq(Trigger)]
        /\ \A p \in Npc :
              /\ Len(queues'[p]) = Len(queues[p]) + (IF p \in to THEN 1 ELSE 0)
              /\ \A k \in DOMAIN queues[p] :
                    k \in DOMAIN queues'[p] /\ queues'[p][k] = queues[p][k]
    <2>1. npc \in Person \cup {Nobody}
      BY <1>1 DEF Person
    <2> QED
      BY <1>1, <1>2, <2>1, RouteAppends DEF QueueType
  <1>4. QueueType'
    BY <1>1, <1>2, <1>3 DEF QueueType
  <1>5. ASSUME NEW p \in Npc, p # npc PROVE TriggerOK(p)'
    <2> DEFINE n == IF p \in to THEN 1 ELSE 0
    <2>0. owed[p] \in Int
      BY DEF QueueType
    <2>1. n \in Int /\ owed'[p] = owed[p] + n /\ Len(queues'[p]) = Len(queues[p]) + n
      <3>1. Len(queues'[p]) = Len(queues[p]) + n
        BY <1>3
      <3>2. owed'[p] = owed[p] + (n - 0)
        BY <1>2, <1>5
      <3>3. n \in Int
        OBVIOUS
      <3> HIDE DEF n
      <3> QED
        BY <2>0, <3>1, <3>2, <3>3
    <2> HIDE DEF n
    <2>2. TriggerOK(p) /\ SameHandlers(p)
      BY <1>1, <1>5 DEF TriggersOK
    <2> QED
      BY <1>3, <2>1, <2>2, BystanderKeepsTriggers
  <1>6. TriggerOK(npc)'
    <2>1. queues[npc] \in Seq(Trigger) /\ Len(queues[npc]) \in Nat /\ owed[npc] \in Int
      BY <1>1, LenProperties DEF QueueType
    <2>2. Len(queues[npc]) = owed[npc]
      BY <1>1, <2>1 DEF TriggersOK, TriggerOK
    <2>3. Len(queues'[npc]) = Len(queues[npc]) /\ owed'[npc] = owed[npc] - 1
      <3>1. Len(queues'[npc]) = Len(queues[npc]) + 0
        BY <1>1, <1>2, <1>3
      <3>2. owed'[npc] = owed[npc] + (0 - 1)
        BY <1>1, <1>2
      <3> QED
        BY <2>1, <3>1, <3>2
    <2>4. Len(queues'[npc]) = owed'[npc] + 1
      BY <2>1, <2>2, <2>3
    <2>5. PICK k \in DOMAIN queues[npc] : HeadTrigger(queues[npc]) = queues[npc][k]
      BY <1>2, <2>1, HeadTriggerIsQueued
    <2>6. k \in DOMAIN queues'[npc] /\ queues'[npc][k] = frames'[2].head
      BY <1>1, <1>3, <2>5
    <2> QED
      BY <1>1, <2>4, <2>6 DEF TriggerOK
  <1> QED
    BY <1>4, <1>5, <1>6 DEF TriggersOK

\* The reply is over: the trigger it answered is there to be taken.
LEMMA FinishingKeepsTriggers ==
    ASSUME SimulationInv, QueueType, TriggersOK, NpcFinishes
    PROVE  QueueType' /\ TriggersOK'
  <1>a. PICK npc : npc = Head(frames).npc
    OBVIOUS
  <1>b. PICK head : head = Head(frames).head
    OBVIOUS
  <1>1. /\ frames' \in Seq(FrameType) /\ npc \in Npc /\ Head(frames) = frames[1]
        /\ Handling(npc) = {1}
        /\ \A i \in DOMAIN frames' : frames'[i].npc # npc
        /\ \A p \in Npc : p # npc => SameHandlers(p)
    BY <1>a, FinishingStack DEF QueueType
  <1>2. /\ queues' = [queues EXCEPT ![npc] = Consume(queues[npc], head)]
        /\ owed' = owed
    BY <1>a, <1>b DEF NpcFinishes
  <1>3. \E k \in DOMAIN queues[npc] : queues[npc][k] = head
    BY <1>1, <1>b DEF TriggersOK, TriggerOK
  <1>4. queues[npc] \in Seq(Trigger) /\ Len(queues[npc]) \in Nat /\ owed[npc] \in Int
    BY <1>1, LenProperties DEF QueueType
  <1>5. /\ Consume(queues[npc], head) \in Seq(Trigger)
        /\ Len(Consume(queues[npc], head)) = Len(queues[npc]) - 1
    BY <1>3, <1>4, ConsumeTakesOne
  <1>6. /\ queues'[npc] = Consume(queues[npc], head)
        /\ \A p \in Npc : p # npc => queues'[p] = queues[p]
        /\ queues' \in [Npc -> Seq(Trigger)]
    BY <1>1, <1>2, <1>5 DEF QueueType
  <1>7. QueueType'
    BY <1>1, <1>2, <1>6 DEF QueueType
  <1>8. TriggerOK(npc)'
    <2>1. Handling(npc)' = {}
      BY <1>1 DEF Handling
    <2>2. Len(queues[npc]) = owed[npc] + 1
      BY <1>1 DEF TriggersOK, TriggerOK
    <2>3. Len(queues'[npc]) = owed'[npc] + 0
      BY <1>2, <1>4, <1>5, <1>6, <2>2
    <2> QED
      BY <2>1, <2>3 DEF TriggerOK
  <1>9. ASSUME NEW p \in Npc, p # npc PROVE TriggerOK(p)'
    <2>1. TriggerOK(p) /\ SameHandlers(p)
      BY <1>1, <1>9 DEF TriggersOK
    <2>2. owed[p] \in Int /\ Len(queues[p]) \in Nat
      BY LenProperties DEF QueueType
    <2>3. 0 \in Int /\ owed'[p] = owed[p] + 0 /\ Len(queues'[p]) = Len(queues[p]) + 0
      BY <1>2, <1>6, <1>9, <2>2
    <2>4. \A k \in DOMAIN queues[p] :
              k \in DOMAIN queues'[p] /\ queues'[p][k] = queues[p][k]
      BY <1>6, <1>9
    <2> QED
      BY <2>1, <2>3, <2>4, BystanderKeepsTriggers
  <1> QED
    BY <1>7, <1>8, <1>9 DEF TriggersOK

\* What the driver does to the queues: only a tool that sends reaches them.
LEMMA DriverKeepsTriggers ==
    ASSUME SimulationInv, QueueType, TriggersOK, DriverStep
    PROVE  QueueType' /\ TriggersOK'
  <1>0. sim_time \in Nat /\ Agent \in Person /\ NumbersOK /\ HeapOK
    BY DEF SimulationInv, NumbersOK, Person
  <1>1. ASSUME frames' = frames
        PROVE  frames' \in Seq(FrameType) /\ \A p \in Npc : SameHandlers(p)
    BY <1>1 DEF SameHandlers, Handling, QueueType
  <1>2. ASSUME frames = <<>>, NEW target \in Nat, Enter(target, frames)
        PROVE  frames' \in Seq(FrameType) /\ \A p \in Npc : SameHandlers(p)
    BY <1>2, EnteringKeepsHandlers DEF SameHandlers
  <1>3. ASSUME NEW c \in AgentCalls, NEW to, DecideAct(c, to)
        PROVE  QueueType' /\ TriggersOK'
    <2>1. frames' \in Seq(FrameType) /\ \A p \in Npc : SameHandlers(p)
      <3>1. CASE c.cost > 0
        <4>1. sim_time + c.cost \in Nat
          BY <1>0, <1>3, <3>1, DriverAssumption DEF DecideAct, Call
        <4>2. frames = <<>> /\ Enter(sim_time + c.cost, frames)
          BY <1>3, <3>1 DEF DecideAct, MayDecide, DriverInControl
        <4> QED
          BY <1>2, <4>1, <4>2
      <3>2. CASE ~(c.cost > 0)
        BY <1>1, <1>3, <3>2 DEF DecideAct
      <3> QED
        BY <3>1, <3>2
    <2>2. /\ Route(Agent, to, sim_time) /\ Agent \in Person \cup {Nobody}
          /\ owed' = [p \in Npc |-> owed[p] + (IF p \in to THEN 1 ELSE 0)]
      BY <1>0, <1>3 DEF DecideAct
    <2> QED
      BY <1>0, <2>1, <2>2, DeliveryKeepsTriggers
  <1>4. CASE DriverStep /\ ~(\E c \in AgentCalls, to \in SUBSET Npc : DecideAct(c, to))
    <2>1. UNCHANGED <<queues, owed>>
      BY <1>4 DEF DriverStep, LoopHead, WaitAdvances, WaitFindsNothing, WaitEnds,
           AgentPollFires, SkipPoll, OpenTick, StopTick, DecideIdle,
           DecideAbandon, CallReturns, CloseTick, RunOut, RunIsOut, npcVars
    <2>2. frames' = frames \/ (frames = <<>> /\ \E target \in Nat : Enter(target, frames))
      <3>1. CASE WaitAdvances
        BY <1>0, <3>1, DriverAssumption DEF WaitAdvances, DriverInControl, HeapOK
      <3>2. ASSUME NEW c \in AgentCalls, DecideIdle(c) \/ DecideAbandon(c)
            PROVE  frames = <<>> /\ \E target \in Nat : Enter(target, frames)
        <4>1. sim_time + 1 \in Nat /\ sim_time + 2 \in Nat
          BY <1>0
        <4> QED
          BY <3>2, <4>1 DEF DecideIdle, DecideAbandon, MayDecide, DriverInControl
      <3>3. CASE RunOut
        BY <3>3, DriverAssumption DEF RunOut, DriverInControl
      <3>4. CASE \/ LoopHead \/ WaitFindsNothing \/ WaitEnds \/ SkipPoll
                 \/ OpenTick \/ StopTick \/ CallReturns \/ CloseTick \/ RunIsOut
                 \/ \E e \in heap : AgentPollFires(e)
        BY <3>4 DEF LoopHead, WaitFindsNothing, WaitEnds, SkipPoll, OpenTick,
             StopTick, CallReturns, CloseTick, RunIsOut, AgentPollFires, kernelVars
      <3> QED
        BY <1>4, <3>1, <3>2, <3>3, <3>4 DEF DriverStep
    <2>3. frames' \in Seq(FrameType) /\ \A p \in Npc : SameHandlers(p)
      BY <1>1, <1>2, <2>2
    <2> QED
      BY <2>1, <2>3, SilenceKeepsTriggers
  <1> QED
    BY <1>3, <1>4

\* Every step keeps the accounts of all NPCs.
LEMMA TriggersPreserved ==
    ASSUME SimulationInv, QueueType, TriggersOK, [Next]_vars
    PROVE  QueueType' /\ TriggersOK'
  <1>0. HeapOK /\ FramesOK
    BY DEF SimulationInv
  <1>1. ASSUME frames' = frames
        PROVE  frames' \in Seq(FrameType) /\ \A p \in Npc : SameHandlers(p)
    BY <1>1 DEF SameHandlers, Handling, QueueType
  <1>2. CASE DriverStep
    BY <1>2, DriverKeepsTriggers
  <1>3. CASE AdvanceReturns /\ UNCHANGED npcVars
    BY <1>0, <1>3, ReturningKeepsHandlers, SilenceKeepsTriggers
       DEF QueueType, npcVars
  <1>4. CASE NpcFinishes
    BY <1>4, FinishingKeepsTriggers
  <1>5. ASSUME NEW e \in heap, NEW to \in Reach(e.who), NEW cost \in NpcCosts,
               NpcActs(e, to, cost)
        PROVE  QueueType' /\ TriggersOK'
    BY <1>5, DecidingKeepsTriggers
  <1>6. ASSUME NEW e \in heap, NEW dropped \in BOOLEAN, ScriptedMessage(e, dropped)
        PROVE  QueueType' /\ TriggersOK'
    <2>0. e.who \in Npc /\ e.fire_at \in Nat /\ frames' = frames
      BY <1>0, <1>6 DEF ScriptedMessage, HeapOK
    <2>1. CASE dropped
      BY <1>1, <1>6, <2>0, <2>1, SilenceKeepsTriggers DEF ScriptedMessage
    <2>2. CASE ~dropped
      <3>1. Route(Nobody, {e.who}, e.fire_at) /\ owed' = [owed EXCEPT ![e.who] = owed[e.who] + 1]
        BY <1>6, <2>2 DEF ScriptedMessage
      <3>2. owed' = [p \in Npc |-> owed[p] + (IF p \in {e.who} THEN 1 ELSE 0)]
        <4>1. owed \in [Npc -> Int]
          BY DEF QueueType
        <4>2. \A p \in Npc : owed'[p] = owed[p] + (IF p \in {e.who} THEN 1 ELSE 0)
          BY <2>0, <3>1, <4>1
        <4>3. owed' = [p \in Npc |-> owed'[p]]
          BY <3>1, <4>1
        <4> QED
          BY <4>2, <4>3
      <3> QED
        BY <1>1, <2>0, <3>1, <3>2, DeliveryKeepsTriggers
    <2> QED
      BY <2>1, <2>2
  <1>7. ASSUME NEW e \in heap,
               \/ NpcSkips(e) \/ MeetingStarts(e)
               \/ HeartbeatFires(e) /\ UNCHANGED npcVars
        PROVE  QueueType' /\ TriggersOK'
    BY <1>1, <1>7, SilenceKeepsTriggers
       DEF NpcSkips, MeetingStarts, HeartbeatFires, npcVars
  <1>8. CASE UNCHANGED vars
    BY <1>1, <1>8, SilenceKeepsTriggers DEF vars, kernelVars, npcVars
  <1> QED
    BY <1>2, <1>3, <1>4, <1>5, <1>6, <1>7, <1>8 DEF Next, NpcStep

-----------------------------------------------------------------------------
(* The driver's variables.                                                 *)

DriverType ==
    /\ pc \in PC /\ captured \in Seq(Nat) /\ call \in Call
    /\ poll_at \in Nat /\ baseline \in Nat /\ turns \in Nat /\ chain \in Nat
    /\ last_processed_poll_at \in Nat \cup {-1}
    /\ last_turn_sim_time \in Nat \cup {-1}

\* Each step of the driver.
LEMMA DriverTypePreserved ==
    ASSUME SimulationInv, DriverType, [Next]_vars PROVE DriverType'
  <1>0. /\ sim_time \in Nat /\ next_poll_at \in Nat
        /\ \A e \in heap : e.fire_at \in Nat
    BY DEF SimulationInv, NumbersOK, HeapOK
  <1>1. CASE UNCHANGED driverVars
    BY <1>1 DEF driverVars, pollVars, turnVars, DriverType
  <1>2. CASE LoopHead \/ WaitAdvances \/ WaitFindsNothing \/ SkipPoll \/ StopTick
             \/ CloseTick \/ RunOut \/ RunIsOut
    <2>1. pc' \in PC
      BY <1>2 DEF LoopHead, WaitAdvances, WaitFindsNothing, SkipPoll, StopTick,
           CloseTick, RunOut, RunIsOut, Goto, PC
    <2>2. UNCHANGED <<captured, call, poll_at, baseline, turns, chain,
                      last_processed_poll_at, last_turn_sim_time>>
      BY <1>2 DEF LoopHead, WaitAdvances, WaitFindsNothing, SkipPoll, StopTick,
           CloseTick, RunOut, RunIsOut, pollVars, turnVars
    <2> QED
      BY <2>1, <2>2 DEF DriverType
  <1>3. CASE WaitEnds
    <2>1. captured # <<>> => Head(captured) \in Nat
      BY HeadTailProperties DEF DriverType
    <2>2. captured' \in Seq(Nat)
      BY <1>3, EmptySeq DEF WaitEnds
    <2> QED
      BY <1>3, <2>1, <2>2 DEF WaitEnds, Goto, PC, turnVars, DriverType
  <1>4. ASSUME NEW e \in heap, AgentPollFires(e) PROVE DriverType'
    <2>1. Append(captured, e.fire_at) \in Seq(Nat)
      BY <1>0, AppendProperties DEF DriverType
    <2> QED
      BY <1>4, <2>1 DEF AgentPollFires, turnVars, DriverType
  <1>5. CASE OpenTick
    BY <1>0, <1>5 DEF OpenTick, Goto, PC, DriverType
  <1>6. ASSUME NEW c \in AgentCalls, NEW to,
               DecideAct(c, to) \/ DecideIdle(c) \/ DecideAbandon(c)
        PROVE  DriverType'
    <2>1. call' \in Call /\ pc' \in PC
      BY <1>6, DriverAssumption
         DEF DecideAct, DecideIdle, DecideAbandon, Goto, PC
    <2>2. UNCHANGED <<captured, poll_at, baseline, turns, chain,
                      last_processed_poll_at, last_turn_sim_time>>
      BY <1>6 DEF DecideAct, DecideIdle, DecideAbandon, pollVars
    <2> QED
      BY <2>1, <2>2 DEF DriverType
  <1>7. CASE CallReturns
    <2>1. call' \in Call /\ pc' \in PC
      BY <1>7 DEF CallReturns, NoCall, Call, Goto, PC
    <2> QED
      BY <1>0, <1>7, <2>1 DEF CallReturns, DriverType
  <1> QED
    BY <1>1, <1>2, <1>3, <1>4, <1>5, <1>6, <1>7
       DEF Next, DriverStep, vars

-----------------------------------------------------------------------------
(* The theorems.                                                           *)

RuntimeInv == HeapType /\ QueueType /\ TriggersOK /\ DriverType

\* A run begins with a finite heap of typed events.
LEMMA InitialHeapType == Init => HeapType
  <1> SUFFICES ASSUME Init PROVE HeapType
    OBVIOUS
  <1> DEFINE first == NextPollAt(0, 0)
             hours == EndTime \div Hour
             polls == Len(Script) + hours
             markers == polls + Len(Npcs)
             scripted == [i \in DOMAIN Script |->
                 InitialEvent(Script[i][1], i, "scripted", Script[i][2])]
             beats == [h \in 1 .. hours |->
                 InitialEvent(h * Hour, Len(Script) + h, "agent_heartbeat", Agent)]
             pollOf == [i \in DOMAIN Npcs |->
                 InitialEvent(first, polls + i, "npc_poll", Npcs[i])]
             starts == [i \in DOMAIN Meeting |->
                 InitialEvent(Meeting[i].start, markers + i, "calendar_start", i)]
             agent == InitialEvent(first, markers + Len(Meeting) + 1, "agent_poll",
                           Agent)
  <1>1. /\ first \in Nat /\ hours \in Nat /\ Hour \in Nat
        /\ Script \in Seq(Nat \X Npc) /\ Npcs \in Seq(Range(Npcs))
        /\ Meeting \in Seq(Range(Meeting))
    <2>1. first \in Nat
      <3>1. 0 \in Nat
        OBVIOUS
      <3> QED
        BY <3>1, NextPollAtBounds
    <2>2. hours \in Nat /\ Hour \in Nat
      BY DriverAssumption, HourAssumption
    <2>3. Script \in Seq(Nat \X Npc) /\ Npcs \in Seq(Range(Npcs))
      BY ScriptAssumption, NpcsAssumption DEF Npc
    <2>4. Meeting \in Seq(Range(Meeting))
      BY MeetingAssumption
    <2> QED
      BY <2>1, <2>2, <2>3, <2>4
  <1>2. /\ Len(Script) \in Nat /\ DOMAIN Script = 1 .. Len(Script)
        /\ Len(Npcs) \in Nat /\ DOMAIN Npcs = 1 .. Len(Npcs)
        /\ Len(Meeting) \in Nat /\ DOMAIN Meeting = 1 .. Len(Meeting)
    BY <1>1, LenProperties
  <1>3. polls \in Nat /\ markers \in Nat
    BY <1>1, <1>2
  <1>4. heap = {scripted[i] : i \in DOMAIN Script} \cup {beats[h] : h \in 1 .. hours}
               \cup {pollOf[i] : i \in DOMAIN Npcs}
               \cup {starts[i] : i \in DOMAIN Meeting} \cup {agent}
    BY DEF Init, InitialHeap
  <1>5. \A i \in DOMAIN Script : scripted[i] \in Event
    <2>1. \A i \in DOMAIN Script : Script[i] \in Nat \X Npc /\ i \in Nat
      BY <1>1, <1>2, ElementOfSeq
    <2> QED
      BY <2>1 DEF InitialEvent, Event, Kind, Person
  <1>6. \A h \in 1 .. hours : beats[h] \in Event
    <2>1. \A h \in 1 .. hours : h * Hour \in Nat /\ Len(Script) + h \in Nat
      <3> HIDE DEF hours
      <3> QED
        BY <1>1, <1>2
    <2> HIDE DEF hours
    <2> QED
      BY <2>1 DEF InitialEvent, Event, Kind, Person
  <1>7. \A i \in DOMAIN Npcs : pollOf[i] \in Event
    <2>1. \A i \in DOMAIN Npcs : Npcs[i] \in Npc /\ polls + i \in Nat
      <3>1. \A i \in DOMAIN Npcs : Npcs[i] \in Npc
        BY DEF Npc, Range
      <3> HIDE DEF polls
      <3> QED
        BY <1>2, <1>3, <3>1
    <2> HIDE DEF polls, first
    <2> QED
      BY <1>1, <2>1 DEF InitialEvent, Event, Kind, Person
  <1>8. \A i \in DOMAIN Meeting : starts[i] \in Event
    <2>1. \A i \in DOMAIN Meeting : markers + i \in Nat /\ Meeting[i].start \in Nat
      <3> HIDE DEF markers
      <3> QED
        BY <1>2, <1>3, MeetingAssumption
    <2> HIDE DEF markers
    <2> QED
      BY <2>1 DEF InitialEvent, Event, Kind
  <1>9. agent \in Event
    <2>1. markers + Len(Meeting) + 1 \in Nat
      <3> HIDE DEF markers
      <3> QED
        BY <1>2, <1>3
    <2> HIDE DEF markers, first
    <2> QED
      BY <1>1, <2>1 DEF InitialEvent, Event, Kind, Person
  <1> HIDE DEF first, hours, polls, markers, agent
  <1>10. heap \subseteq Event
    <2> HIDE DEF scripted, beats, pollOf, starts
    <2> QED
      BY <1>4, <1>5, <1>6, <1>7, <1>8, <1>9
  <1>11. /\ IsFiniteSet(DOMAIN Script) /\ IsFiniteSet(1 .. hours)
         /\ IsFiniteSet(DOMAIN Npcs) /\ IsFiniteSet(DOMAIN Meeting)
    BY <1>1, <1>2, FS_Interval
  <1>12. /\ scripted = [i \in DOMAIN Script |-> scripted[i]]
         /\ beats = [h \in 1 .. hours |-> beats[h]]
         /\ pollOf = [i \in DOMAIN Npcs |-> pollOf[i]]
         /\ starts = [i \in DOMAIN Meeting |-> starts[i]]
    OBVIOUS
  <1> HIDE DEF scripted, beats, pollOf, starts
  <1>13. /\ IsFiniteSet({scripted[i] : i \in DOMAIN Script})
         /\ IsFiniteSet({beats[h] : h \in 1 .. hours})
         /\ IsFiniteSet({pollOf[i] : i \in DOMAIN Npcs})
         /\ IsFiniteSet({starts[i] : i \in DOMAIN Meeting})
    <2>1. IsFiniteSet({scripted[i] : i \in DOMAIN Script})
      BY <1>11, <1>12, FiniteImage
    <2>2. IsFiniteSet({beats[h] : h \in 1 .. hours})
      <3>1. PICK H : H = 1 .. hours
        OBVIOUS
      <3>2. IsFiniteSet(H) /\ beats = [h \in H |-> beats[h]]
        BY <1>11, <1>12, <3>1
      <3>3. IsFiniteSet({beats[h] : h \in H})
        BY <3>2, FiniteImage
      <3> QED
        BY <3>1, <3>3
    <2>3. IsFiniteSet({pollOf[i] : i \in DOMAIN Npcs})
      BY <1>11, <1>12, FiniteImage
    <2>4. IsFiniteSet({starts[i] : i \in DOMAIN Meeting})
      BY <1>11, <1>12, FiniteImage
    <2> QED
      BY <2>1, <2>2, <2>3, <2>4
  <1>14. IsFiniteSet(heap)
    <2>1. IsFiniteSet({agent})
      BY FS_Singleton
    <2> QED
      BY <1>4, <1>13, <2>1, FS_Union
  <1> QED
    BY <1>10, <1>14 DEF HeapType

\* Nobody is owed anything when a run begins.
LEMMA RuntimeInit == Init => RuntimeInv
  <1> SUFFICES ASSUME Init PROVE RuntimeInv
    OBVIOUS
  <1>1. HeapType
    BY InitialHeapType
  <1>2. QueueType /\ frames = <<>>
    BY EmptySeq DEF Init, QueueType
  <1>3. \A p \in Npc : Handling(p) = {} /\ Len(queues[p]) = 0 /\ owed[p] = 0
    BY EmptySeq DEF Init, Handling
  <1>4. TriggersOK
    BY <1>3 DEF TriggersOK, TriggerOK
  <1>5. DriverType
    BY EmptySeq DEF Init, DriverType, PC, NoCall, Call
  <1> QED
    BY <1>1, <1>2, <1>4, <1>5 DEF RuntimeInv

\* The types and the accounts hold throughout.
LEMMA RuntimeInvariance == Spec => [](SimulationInv /\ RuntimeInv)
  <1>1. SimulationInv /\ RuntimeInv /\ [Next]_vars => RuntimeInv'
    BY HeapTypePreserved, TriggersPreserved, DriverTypePreserved DEF RuntimeInv
  <1> QED
    BY Invariance, RuntimeInit, <1>1, PTL DEF Spec

\* Every variable of a run keeps its type: no event, trigger, frame or counter
\* of another shape is ever stored.
THEOREM TypeCorrect == Spec => []TypeOK
  <1>1. SimulationInv /\ RuntimeInv => TypeOK
    BY DEF SimulationInv, NumbersOK, RuntimeInv, HeapType, QueueType, DriverType,
           FrameType, TypeOK
  <1> QED
    BY RuntimeInvariance, <1>1, PTL

\* Each decision spends exactly one trigger: what is queued is what was
\* accepted less what was answered, and one more while a reply is under way.
THEOREM RepliesSpendOneTrigger == Spec => []OneTriggerPerReply
  <1>1. SimulationInv /\ RuntimeInv => OneTriggerPerReply
    <2> SUFFICES ASSUME SimulationInv, TriggersOK, NEW p \in Npc
                 PROVE  Len(queues[p]) = owed[p] + Cardinality(Handling(p))
      BY DEF OneTriggerPerReply, RuntimeInv
    <2>1. Handling(p) = {} \/ \E i : Handling(p) = {i}
      BY DEF SimulationInv, OnePollPerNpc
    <2>2. Cardinality(Handling(p)) = IF Handling(p) = {} THEN 0 ELSE 1
      BY <2>1, FS_EmptySet, FS_Singleton
    <2> QED
      BY <2>2 DEF TriggersOK, TriggerOK
  <1> QED
    BY RuntimeInvariance, <1>1, PTL
=============================================================================
