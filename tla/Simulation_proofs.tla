------------------------- MODULE Simulation_proofs -------------------------
(***************************************************************************)
(* Proofs about a run of the simulation, for any number of NPCs, any tick, *)
(* costs, meetings, script and agent: the poll handlers re-enter the       *)
(* scheduler, and the clock moves back when an outer advance ends, yet no  *)
(* NPC is polled twice at once, decides twice in a tick, or decides in a   *)
(* meeting.                                                                *)
(***************************************************************************)
EXTENDS Simulation, SequenceTheorems, TLAPS

-----------------------------------------------------------------------------
(* The stack of frames.                                                    *)

IsSeq(s) == \E S : s \in Seq(S)

\* A frame pushed on the stack becomes its first element.
LEMMA Push ==
    ASSUME NEW s, IsSeq(s), NEW f
    PROVE  /\ IsSeq(<<f>> \o s)
           /\ Len(s) \in Nat /\ Len(<<f>> \o s) = Len(s) + 1
           /\ (<<f>> \o s)[1] = f
           /\ \A i \in 1 .. Len(s) : (<<f>> \o s)[i + 1] = s[i]
           /\ \A i \in 2 .. Len(s) + 1 : (<<f>> \o s)[i] = s[i - 1]
           /\ <<f>> \o s # <<>> /\ Head(<<f>> \o s) = f
  <1>1. PICK S : s \in Seq(S)
    BY DEF IsSeq
  <1> DEFINE R == S \cup {f}
  <1>2. s \in Seq(R) /\ <<f>> \in Seq(R) /\ Len(<<f>>) = 1 /\ <<f>>[1] = f
    BY <1>1, SeqMonotonic
  <1>3. /\ <<f>> \o s \in Seq(R)
        /\ Len(<<f>> \o s) = 1 + Len(s)
        /\ \A i \in 1 .. 1 + Len(s) : (<<f>> \o s)[i] =
                 IF i <= 1 THEN <<f>>[i] ELSE s[i - 1]
    BY <1>2, ConcatProperties
  <1>4. Len(s) \in Nat
    BY <1>1, LenProperties
  <1>5. IsSeq(<<f>> \o s)
    BY <1>3 DEF IsSeq
  <1> QED
    BY <1>2, <1>3, <1>4, <1>5, HeadTailProperties

\* A stack without its first element.
LEMMA Pop ==
    ASSUME NEW s, IsSeq(s), s # <<>>
    PROVE  /\ IsSeq(Tail(s))
           /\ Len(s) \in Nat \ {0} /\ Len(Tail(s)) = Len(s) - 1
           /\ \A i \in 1 .. Len(s) - 1 : Tail(s)[i] = s[i + 1]
           /\ Head(s) = s[1]
  <1>1. PICK S : s \in Seq(S)
    BY DEF IsSeq
  <1>2. Tail(s) \in Seq(S)
    BY <1>1, HeadTailProperties
  <1> QED
    BY <1>1, <1>2, HeadTailProperties, LenProperties, EmptySeq DEF IsSeq

\* A stack with another first element.
LEMMA Update ==
    ASSUME NEW s, IsSeq(s), s # <<>>, NEW f
    PROVE  /\ IsSeq(<<f>> \o Tail(s))
           /\ Len(s) \in Nat \ {0} /\ Len(<<f>> \o Tail(s)) = Len(s)
           /\ (<<f>> \o Tail(s))[1] = f
           /\ \A i \in 2 .. Len(s) : (<<f>> \o Tail(s))[i] = s[i]
  <1>1. /\ IsSeq(Tail(s)) /\ Len(s) \in Nat \ {0}
        /\ Len(Tail(s)) = Len(s) - 1
        /\ \A i \in 1 .. Len(s) - 1 : Tail(s)[i] = s[i + 1]
    BY Pop
  <1>2. /\ IsSeq(<<f>> \o Tail(s))
        /\ Len(<<f>> \o Tail(s)) = Len(Tail(s)) + 1
        /\ (<<f>> \o Tail(s))[1] = f
        /\ \A i \in 2 .. Len(Tail(s)) + 1 : (<<f>> \o Tail(s))[i] = Tail(s)[i - 1]
    BY <1>1, Push
  <1>3. \A i \in 2 .. Len(s) : i - 1 \in 1 .. Len(s) - 1
    BY <1>1
  <1> QED
    BY <1>1, <1>2, <1>3

\* A stack with another first element and one more on top of it.
LEMMA UpdatePush ==
    ASSUME NEW s, IsSeq(s), s # <<>>, NEW f, NEW g,
           NEW r, r = <<f>> \o (<<g>> \o Tail(s))
    PROVE  /\ IsSeq(r) /\ Len(s) \in Nat \ {0} /\ Len(r) = Len(s) + 1
           /\ r[1] = f /\ r[2] = g
           /\ \A i \in 3 .. Len(s) + 1 : r[i] = s[i - 1]
  <1> DEFINE t == <<g>> \o Tail(s)
  <1>1. PICK S : t \in Seq(S)
    BY Update DEF IsSeq
  <1>2. /\ Len(s) \in Nat \ {0} /\ Len(t) = Len(s)
        /\ t[1] = g /\ \A i \in 2 .. Len(s) : t[i] = s[i]
    BY Update
  <1> HIDE DEF t
  <1> DEFINE R == S \cup {f}
  <1>3. t \in Seq(R) /\ <<f>> \in Seq(R) /\ Len(<<f>>) = 1 /\ <<f>>[1] = f
    BY <1>1, SeqMonotonic
  <1>4. /\ <<f>> \o t \in Seq(R)
        /\ Len(<<f>> \o t) = 1 + Len(t)
        /\ \A i \in 1 .. 1 + Len(t) : (<<f>> \o t)[i] =
                 IF i <= 1 THEN <<f>>[i] ELSE t[i - 1]
    BY <1>3, ConcatProperties
  <1>5. /\ IsSeq(<<f>> \o t) /\ (<<f>> \o t)[1] = f /\ (<<f>> \o t)[2] = g
    BY <1>2, <1>3, <1>4 DEF IsSeq
  <1>6. \A i \in 3 .. Len(s) + 1 : (<<f>> \o t)[i] = s[i - 1]
    BY <1>2, <1>4
  <1> QED
    BY <1>2, <1>4, <1>5, <1>6 DEF t

\* The indices of a sequence.
LEMMA SeqDomain == ASSUME NEW s, IsSeq(s) PROVE DOMAIN s = 1 .. Len(s)
  BY LenProperties DEF IsSeq

-----------------------------------------------------------------------------
(* The heap.                                                               *)

\* The next poll lies at least one tick ahead and not before busy_until ends.
LEMMA NextPollAtBounds ==
    ASSUME NEW now \in Nat, NEW busy \in Nat
    PROVE  /\ NextPollAt(now, busy) \in Nat
           /\ NextPollAt(now, busy) >= now + Tick
           /\ NextPollAt(now, busy) >= now
           /\ NextPollAt(now, busy) >= busy
  BY TickAssumption DEF NextPollAt, Later

-----------------------------------------------------------------------------
(* The inductive invariant.  What is wanted, one poll per NPC, does not    *)
(* stand alone: that a poll is due no sooner than a tick after the NPC's   *)
(* last decision needs that a handler still on the stack began in the past *)
(* of the clock and of every advance nested in it, because the clock will  *)
(* be set to the targets of those advances when they return.               *)

HeapOK ==
    \A e \in heap :
        /\ e.fire_at \in Nat /\ e.fire_at >= sim_time
        /\ e.kind \in {"npc_poll", "scripted"} => e.who \in Npc
        /\ e.kind = "calendar_start" =>
              e.who \in DOMAIN Meeting /\ e.fire_at = Meeting[e.who].start

FramesOK ==
    /\ IsSeq(frames)
    /\ \A i \in DOMAIN frames :
          frames[i].target \in Nat /\ frames[i].npc \in Npc \cup {Nobody}

NumbersOK ==
    /\ sim_time \in Nat
    /\ next_poll_at \in Nat
    /\ busy_until \in [Person -> Nat]
    /\ acted_at \in [Npc -> Nat \cup {-1}]

HandlersBeganInThePast ==
    \A p \in Npc : \A i \in Handling(p) :
        /\ acted_at[p] <= sim_time
        /\ \A j \in DOMAIN frames : j < i => acted_at[p] <= frames[j].target

PollsAreSpaced ==
    \A p \in Npc : \A e \in PendingPolls(p) :
        acted_at[p] = -1 \/ e.fire_at >= acted_at[p] + Tick

MeetingsAreAnnounced ==
    \A m \in DOMAIN Meeting : \A p \in Meeting[m].attendees \cap Npc :
        \/ \E e \in heap : e.kind = "calendar_start" /\ e.who = m
        \/ busy_until[p] >= Meeting[m].end

SimulationInv ==
    /\ NumbersOK /\ HeapOK /\ FramesOK /\ OnePollPerNpc
    /\ HandlersBeganInThePast /\ PollsAreSpaced
    /\ MeetingsAreAnnounced /\ NoDecisionInMeeting

-----------------------------------------------------------------------------
(* What the driver does to the part of the state the NPCs depend on.       *)

\* Events leave the heap in order: what stays is not earlier than the clock.
LEMMA PopsInOrder ==
    ASSUME NumbersOK, HeapOK, FramesOK, NEW e \in heap, Pops(e)
    PROVE  /\ sim_time' = e.fire_at /\ sim_time' \in Nat /\ sim_time <= sim_time'
           /\ \A f \in heap : f.fire_at \in Nat /\ f.fire_at >= sim_time'
           /\ frames # <<>> /\ 1 \in DOMAIN frames /\ frames[1] = Head(frames)
           /\ frames[1].npc = Nobody /\ frames[1].target \in Nat
           /\ e.fire_at <= frames[1].target
  <1>1. 1 \in DOMAIN frames /\ frames[1] = Head(frames)
    BY Pop, SeqDomain DEF FramesOK, Pops
  <1> QED
    BY <1>1 DEF Pops, IsNext, Before, HeapOK, FramesOK, NumbersOK

\* The state every invariant below is about is left alone.
SameKernel == UNCHANGED <<sim_time, heap, frames>>

\* An advance begins while none is active.
AdvanceBegins ==
    /\ frames = <<>>
    /\ \E t \in Nat : frames' = <<Frame(t, Nobody, NoTrigger)>> \o <<>>
    /\ UNCHANGED <<sim_time, heap>>

\* A poll of the agent is scheduled, at or after the clock.
AgentPollAdded ==
    /\ UNCHANGED <<sim_time, frames>>
    /\ \E at \in Nat :
          /\ at >= sim_time
          /\ \E id : heap' = heap \cup {[fire_at |-> at, event_id |-> id,
                                         kind |-> "agent_poll", who |-> Agent]}

\* A poll of the agent fires.
AgentPollTaken ==
    \E e \in heap : /\ e.kind = "agent_poll" /\ Pops(e)
                    /\ heap' = heap \ {e} /\ frames' = frames

\* Every step of the driver is one of these four, and no decision of an NPC.
LEMMA DriverEffect ==
    ASSUME NumbersOK, HeapOK, FramesOK, DriverStep
    PROVE  /\ SameKernel \/ AdvanceBegins \/ AgentPollAdded \/ AgentPollTaken
           /\ acted_at' = acted_at
           /\ next_poll_at' \in Nat
           /\ busy_until' \in [Person -> Nat]
           /\ \A p \in Npc : busy_until'[p] = busy_until[p]
  <1> DEFINE Goal == /\ SameKernel \/ AdvanceBegins \/ AgentPollAdded
                        \/ AgentPollTaken
                     /\ acted_at' = acted_at
                     /\ next_poll_at' \in Nat
                     /\ busy_until' \in [Person -> Nat]
                     /\ \A p \in Npc : busy_until'[p] = busy_until[p]
  <1>0. /\ sim_time \in Nat /\ next_poll_at \in Nat
        /\ busy_until \in [Person -> Nat] /\ Agent \in Person
        /\ \A e \in heap : e.fire_at \in Nat
    BY DEF NumbersOK, HeapOK, Person
  <1>1. CASE LoopHead
    BY <1>0, <1>1 DEF LoopHead, kernelVars, npcVars, pollVars, SameKernel
  <1>2. CASE WaitAdvances
    <2>1. PICK e \in heap : Enter(IF e.fire_at <= EndTime THEN e.fire_at
                                                         ELSE EndTime, frames)
      BY <1>2 DEF WaitAdvances
    <2>2. AdvanceBegins
      BY <1>0, <1>2, <2>1, DriverAssumption
         DEF WaitAdvances, Enter, AdvanceBegins, DriverInControl
    <2> QED
      BY <1>0, <1>2, <2>2 DEF WaitAdvances, npcVars, pollVars
  <1>3. CASE WaitFindsNothing
    BY <1>0, <1>3 DEF WaitFindsNothing, kernelVars, npcVars, pollVars, SameKernel
  <1>4. CASE WaitEnds
    BY <1>0, <1>4 DEF WaitEnds, kernelVars, npcVars, SameKernel
  <1>5. ASSUME NEW e \in heap, AgentPollFires(e) PROVE Goal
    BY <1>0, <1>5 DEF AgentPollFires, npcVars, AgentPollTaken
  <1>6. CASE SkipPoll
    BY <1>0, <1>6 DEF SkipPoll, kernelVars, npcVars, pollVars, SameKernel
  <1>7. CASE OpenTick
    BY <1>0, <1>7 DEF OpenTick, kernelVars, npcVars, SameKernel
  <1>8. CASE StopTick
    BY <1>0, <1>8 DEF StopTick, kernelVars, npcVars, pollVars, SameKernel
  <1>9. ASSUME NEW c \in AgentCalls, NEW to, DecideAct(c, to) PROVE Goal
    <2>1. c.cost > 0 => c.cost \in Nat
      BY <1>9, DriverAssumption DEF DecideAct, Call
    <2>2. SameKernel \/ AdvanceBegins
      BY <1>0, <1>9, <2>1
         DEF DecideAct, MayDecide, Enter, AdvanceBegins, DriverInControl, SameKernel
    <2> QED
      BY <1>0, <1>9, <2>2 DEF DecideAct, pollVars
  <1>10. ASSUME NEW c \in AgentCalls, DecideIdle(c) PROVE Goal
    <2>1. AdvanceBegins
      BY <1>0, <1>10 DEF DecideIdle, MayDecide, Enter, AdvanceBegins, DriverInControl
    <2>2. next_poll_at' \in Nat
      BY <1>0, <1>10, DriverAssumption DEF DecideIdle, Call
    <2> QED
      BY <1>0, <1>10, <2>1, <2>2 DEF DecideIdle, npcVars
  <1>11. ASSUME NEW c \in AgentCalls, DecideAbandon(c) PROVE Goal
    <2>1. AdvanceBegins
      BY <1>0, <1>11
         DEF DecideAbandon, MayDecide, Enter, AdvanceBegins, DriverInControl
    <2>2. /\ busy_until' \in [Person -> Nat]
          /\ \A p \in Npc : busy_until'[p] = busy_until[p]
      BY <1>0, <1>11, NamesAssumption DEF DecideAbandon, Person
    <2> QED
      BY <1>0, <1>11, <2>1, <2>2 DEF DecideAbandon, pollVars
  <1>12. CASE CallReturns
    <2> DEFINE promised == IF next_poll_at <= sim_time THEN sim_time + 1
                                                       ELSE next_poll_at
    <2>1. promised \in Nat /\ promised >= sim_time
      BY <1>0
    <2>2. \/ /\ next_poll_at' = promised /\ UNCHANGED <<sim_time, frames>>
             /\ heap' = Enqueue(heap, promised, "agent_poll", Agent)
          \/ UNCHANGED next_poll_at /\ SameKernel
      BY <1>12 DEF CallReturns, SameKernel
    <2> HIDE DEF promised
    <2>3. PICK id : Enqueue(heap, promised, "agent_poll", Agent) =
                heap \cup {[fire_at |-> promised, event_id |-> id,
                           kind |-> "agent_poll", who |-> Agent]}
      BY DEF Enqueue
    <2>4. next_poll_at' \in Nat /\ (SameKernel \/ AgentPollAdded)
      BY <1>0, <2>1, <2>2, <2>3 DEF AgentPollAdded
    <2> QED
      BY <1>0, <1>12, <2>4 DEF CallReturns, npcVars
  <1>13. CASE CloseTick
    <2> DEFINE at == NextPollAt(sim_time, busy_until[Agent])
    <2>1. at \in Nat /\ at >= sim_time
      BY <1>0, NextPollAtBounds
    <2>2. \/ /\ next_poll_at' = at /\ UNCHANGED <<sim_time, frames>>
             /\ heap' = Enqueue(heap, at, "agent_poll", Agent)
          \/ UNCHANGED next_poll_at /\ SameKernel
      BY <1>13 DEF CloseTick, SameKernel
    <2> HIDE DEF at
    <2>3. PICK id : Enqueue(heap, at, "agent_poll", Agent) =
                heap \cup {[fire_at |-> at, event_id |-> id,
                           kind |-> "agent_poll", who |-> Agent]}
      BY DEF Enqueue
    <2>4. next_poll_at' \in Nat /\ (SameKernel \/ AgentPollAdded)
      BY <1>0, <2>1, <2>2, <2>3 DEF AgentPollAdded
    <2> QED
      BY <1>0, <1>13, <2>4 DEF CloseTick, npcVars
  <1>14. CASE RunOut
    <2>1. SameKernel \/ AdvanceBegins
      BY <1>0, <1>14, DriverAssumption
         DEF RunOut, Enter, AdvanceBegins, DriverInControl, SameKernel
    <2> QED
      BY <1>0, <1>14, <2>1 DEF RunOut, npcVars, pollVars
  <1>15. CASE RunIsOut
    BY <1>0, <1>15 DEF RunIsOut, kernelVars, npcVars, pollVars, SameKernel
  <1> QED
    BY <1>1, <1>2, <1>3, <1>4, <1>5, <1>6, <1>7, <1>8, <1>9, <1>10, <1>11,
       <1>12, <1>13, <1>14, <1>15 DEF DriverStep

-----------------------------------------------------------------------------
(* Preservation.                                                           *)

\* A step of the driver, which never touches an NPC's poll, preserves the
\* invariant.
LEMMA DriverPreserves ==
    ASSUME SimulationInv, DriverStep PROVE SimulationInv'
  <1>0. /\ NumbersOK /\ HeapOK /\ FramesOK /\ OnePollPerNpc
        /\ HandlersBeganInThePast /\ PollsAreSpaced
        /\ MeetingsAreAnnounced /\ NoDecisionInMeeting
    BY DEF SimulationInv
  <1>1. /\ SameKernel \/ AdvanceBegins \/ AgentPollAdded \/ AgentPollTaken
        /\ acted_at' = acted_at /\ next_poll_at' \in Nat
        /\ busy_until' \in [Person -> Nat]
        /\ \A p \in Npc : busy_until'[p] = busy_until[p]
    BY <1>0, DriverEffect
  <1>2. /\ NumbersOK' /\ HeapOK' /\ sim_time' >= sim_time
        /\ \A e : e.kind # "agent_poll" => (e \in heap' <=> e \in heap)
    <2>1. CASE SameKernel \/ AdvanceBegins
      BY <1>0, <1>1, <2>1 DEF SameKernel, AdvanceBegins, NumbersOK, HeapOK
    <2>2. CASE AgentPollAdded
      <3>a. PICK at \in Nat :
                /\ at >= sim_time
                /\ \E id : heap' = heap \cup {[fire_at |-> at, event_id |-> id,
                                     kind |-> "agent_poll", who |-> Agent]}
        BY <2>2 DEF AgentPollAdded
      <3>1. PICK id : heap' = heap \cup {[fire_at |-> at, event_id |-> id,
                                         kind |-> "agent_poll", who |-> Agent]}
        BY <3>a
      <3> QED
        BY <1>0, <1>1, <2>2, <3>a, <3>1 DEF AgentPollAdded, NumbersOK, HeapOK
    <2>3. CASE AgentPollTaken
      <3>1. PICK e \in heap : /\ e.kind = "agent_poll" /\ Pops(e)
                             /\ heap' = heap \ {e} /\ frames' = frames
        BY <2>3 DEF AgentPollTaken
      <3>2. /\ sim_time' \in Nat /\ sim_time' >= sim_time
            /\ \A f \in heap : f.fire_at \in Nat /\ f.fire_at >= sim_time'
        BY <1>0, <3>1, PopsInOrder DEF NumbersOK
      <3> QED
        BY <1>0, <1>1, <3>1, <3>2 DEF NumbersOK, HeapOK
    <2> QED
      BY <1>1, <2>1, <2>2, <2>3
  <1>3. /\ FramesOK'
        /\ \/ frames' = frames
           \/ \A p \in Npc : Handling(p) = {} /\ Handling(p)' = {}
    <2>1. CASE AdvanceBegins
      <3>1. PICK t \in Nat : frames' = <<Frame(t, Nobody, NoTrigger)>> \o <<>>
        BY <2>1 DEF AdvanceBegins
      <3>2. frames = <<>> /\ IsSeq(<<>>)
        BY <1>0, <2>1 DEF AdvanceBegins, FramesOK
      <3>3. frames = <<>> /\ frames' = <<Frame(t, Nobody, NoTrigger)>>
        BY <3>1, <3>2
      <3>4. IsSeq(frames') /\ DOMAIN frames' = {1}
        <4>1. Len(<<>>) = 0 /\ IsSeq(frames') /\ Len(frames') = Len(<<>>) + 1
          BY <3>1, <3>2, Push, EmptySeq
        <4> QED
          BY <4>1, SeqDomain
      <3>5. frames'[1].npc = Nobody /\ frames'[1].target = t
        BY <3>3 DEF Frame
      <3>6. \A p \in Npc : Handling(p) = {} /\ Handling(p)' = {}
        BY <3>3, <3>4, <3>5, NamesAssumption DEF Handling, Person
      <3> QED
        BY <3>4, <3>5, <3>6 DEF FramesOK
    <2>2. CASE frames' = frames
      BY <1>0, <2>2 DEF FramesOK
    <2> QED
      BY <1>1, <2>1, <2>2 DEF SameKernel, AgentPollAdded, AgentPollTaken
  <1>4. /\ \A p \in Npc : PendingPolls(p)' = PendingPolls(p)
        /\ \A p \in Npc : Handling(p)' = Handling(p)
    BY <1>2, <1>3 DEF PendingPolls, Handling
  <1>5. OnePollPerNpc'
    <2> SUFFICES ASSUME NEW p \in Npc
                 PROVE  \/ /\ Handling(p)' = {}
                           /\ \E e \in heap' : PendingPolls(p)' = {e}
                        \/ /\ PendingPolls(p)' = {}
                           /\ \E i \in DOMAIN frames' : Handling(p)' = {i}
      BY DEF OnePollPerNpc
    <2>1. CASE Handling(p) = {} /\ \E e \in heap : PendingPolls(p) = {e}
      <3>1. PICK e \in heap : PendingPolls(p) = {e}
        BY <2>1
      <3>2. e \in heap'
        BY <1>4, <3>1 DEF PendingPolls
      <3> QED
        BY <1>4, <2>1, <3>1, <3>2
    <2>2. CASE PendingPolls(p) = {} /\ \E i \in DOMAIN frames : Handling(p) = {i}
      BY <1>3, <1>4, <2>2 DEF Handling
    <2> QED
      BY <1>0, <2>1, <2>2 DEF OnePollPerNpc
  <1>6. HandlersBeganInThePast'
    <2>1. CASE frames' = frames
      <3> SUFFICES ASSUME NEW p \in Npc, NEW i \in Handling(p)
                   PROVE  /\ acted_at[p] <= sim_time'
                          /\ \A j \in DOMAIN frames : j < i =>
                                acted_at[p] <= frames[j].target
        BY <1>1, <1>4, <2>1 DEF HandlersBeganInThePast
      <3> QED
        BY <1>0, <1>2 DEF HandlersBeganInThePast, NumbersOK
    <2>2. CASE \A p \in Npc : Handling(p)' = {}
      BY <2>2 DEF HandlersBeganInThePast
    <2> QED
      BY <1>3, <2>1, <2>2
  <1>7. PollsAreSpaced'
    BY <1>0, <1>1, <1>4 DEF PollsAreSpaced
  <1>8. MeetingsAreAnnounced'
    BY <1>0, <1>1, <1>2 DEF MeetingsAreAnnounced
  <1>9. NoDecisionInMeeting'
    BY <1>0, <1>1 DEF NoDecisionInMeeting
  <1> QED
    BY <1>2, <1>3, <1>5, <1>6, <1>7, <1>8, <1>9 DEF SimulationInv

\* An advance that ends sets the clock to its target, forwards or backwards:
\* nothing pending is overdue there and every handler still open began before.
LEMMA AdvanceReturnsPreserves ==
    ASSUME SimulationInv, AdvanceReturns, UNCHANGED <<npcVars, driverVars>>
    PROVE  SimulationInv'
  <1>0. /\ NumbersOK /\ HeapOK /\ FramesOK /\ OnePollPerNpc
        /\ HandlersBeganInThePast /\ PollsAreSpaced
        /\ MeetingsAreAnnounced /\ NoDecisionInMeeting
    BY DEF SimulationInv
  <1>1. /\ acted_at' = acted_at /\ busy_until' = busy_until
        /\ next_poll_at' = next_poll_at /\ heap' = heap
        /\ frames # <<>> /\ Head(frames).npc = Nobody
        /\ sim_time' = Head(frames).target /\ frames' = Tail(frames)
        /\ \A e \in heap : ~(e.fire_at <= sim_time')
    BY DEF AdvanceReturns, npcVars, driverVars, pollVars, Due
  <1>2. /\ IsSeq(frames) /\ IsSeq(frames') /\ Len(frames) \in Nat \ {0}
        /\ DOMAIN frames = 1 .. Len(frames)
        /\ DOMAIN frames' = 1 .. Len(frames) - 1
        /\ \A i \in DOMAIN frames' : frames'[i] = frames[i + 1]
        /\ frames[1].npc = Nobody /\ sim_time' = frames[1].target
    <2>1. IsSeq(frames)
      BY <1>0 DEF FramesOK
    <2> QED
      BY <1>1, <2>1, Pop, SeqDomain
  <1>3. sim_time' \in Nat /\ NumbersOK' /\ HeapOK' /\ FramesOK'
    BY <1>0, <1>1, <1>2 DEF NumbersOK, HeapOK, FramesOK
  <1>4. \A p \in Npc : /\ PendingPolls(p)' = PendingPolls(p)
                       /\ \A i \in DOMAIN frames' :
                            i \in Handling(p)' <=> i + 1 \in Handling(p)
                       /\ \A i \in Handling(p) : i - 1 \in DOMAIN frames'
    BY <1>1, <1>2, NamesAssumption DEF PendingPolls, Handling, Person
  <1>5. OnePollPerNpc'
    <2> SUFFICES ASSUME NEW p \in Npc
                 PROVE  \/ /\ Handling(p)' = {}
                           /\ \E e \in heap' : PendingPolls(p)' = {e}
                        \/ /\ PendingPolls(p)' = {}
                           /\ \E i \in DOMAIN frames' : Handling(p)' = {i}
      BY DEF OnePollPerNpc
    <2>0. Handling(p)' \subseteq DOMAIN frames'
      BY DEF Handling
    <2>1. CASE Handling(p) = {} /\ \E e \in heap : PendingPolls(p) = {e}
      BY <1>1, <1>4, <2>0, <2>1
    <2>2. CASE PendingPolls(p) = {} /\ \E i \in DOMAIN frames : Handling(p) = {i}
      <3>1. PICK i \in DOMAIN frames : Handling(p) = {i}
        BY <2>2
      <3>2. i - 1 \in DOMAIN frames' /\ i - 1 \in Handling(p)'
        BY <1>2, <1>4, <3>1
      <3>3. \A k \in Handling(p)' : k = i - 1
        BY <1>2, <1>4, <2>0, <3>1
      <3> QED
        BY <1>4, <2>2, <3>2, <3>3
    <2> QED
      BY <1>0, <2>1, <2>2 DEF OnePollPerNpc
  <1>6. HandlersBeganInThePast'
    <2> SUFFICES ASSUME NEW p \in Npc, NEW i \in Handling(p)'
                 PROVE  /\ acted_at[p] <= sim_time'
                        /\ \A j \in DOMAIN frames' : j < i =>
                              acted_at[p] <= frames'[j].target
      BY <1>1 DEF HandlersBeganInThePast
    <2>1. i \in DOMAIN frames' /\ i + 1 \in Handling(p)
      BY <1>4 DEF Handling
    <2>2. \A j \in DOMAIN frames : j < i + 1 => acted_at[p] <= frames[j].target
      BY <1>0, <2>1 DEF HandlersBeganInThePast
    <2> QED
      BY <1>2, <2>1, <2>2
  <1>7. PollsAreSpaced' /\ MeetingsAreAnnounced' /\ NoDecisionInMeeting'
    BY <1>0, <1>1, <1>4
       DEF PollsAreSpaced, MeetingsAreAnnounced, NoDecisionInMeeting
  <1> QED
    BY <1>3, <1>5, <1>6, <1>7 DEF SimulationInv

\* The start of a meeting, the arrival of a scripted message and a heartbeat take
\* an event that is no poll; busy_until only grows, to the end of the meeting
\* announced.
LEMMA InboundPreserves ==
    ASSUME SimulationInv, NEW e \in heap, UNCHANGED driverVars,
           \/ MeetingStarts(e)
           \/ \E dropped \in BOOLEAN : ScriptedMessage(e, dropped)
           \/ HeartbeatFires(e) /\ UNCHANGED npcVars
    PROVE  SimulationInv'
  <1>0. /\ NumbersOK /\ HeapOK /\ FramesOK /\ OnePollPerNpc
        /\ HandlersBeganInThePast /\ PollsAreSpaced
        /\ MeetingsAreAnnounced /\ NoDecisionInMeeting
    BY DEF SimulationInv
  <1>1. /\ Pops(e) /\ heap' = heap \ {e} /\ frames' = frames
        /\ acted_at' = acted_at /\ next_poll_at' = next_poll_at
        /\ e.kind # "npc_poll"
    BY DEF MeetingStarts, ScriptedMessage, HeartbeatFires, driverVars,
           pollVars, npcVars
  <1>2. /\ sim_time' \in Nat /\ sim_time <= sim_time'
        /\ \A f \in heap : f.fire_at \in Nat /\ f.fire_at >= sim_time'
    BY <1>0, <1>1, PopsInOrder
  <1>3. /\ busy_until' \in [Person -> Nat]
        /\ \A p \in Npc : busy_until'[p] >= busy_until[p]
        /\ e.kind = "calendar_start" =>
              \A p \in Meeting[e.who].attendees \cap Npc :
                 busy_until'[p] >= Meeting[e.who].end
    <2>1. CASE MeetingStarts(e)
      <3>1. /\ e.who \in DOMAIN Meeting
            /\ Meeting[e.who].end \in Nat
            /\ busy_until \in [Person -> Nat] /\ Npc \subseteq Person
        BY <1>0, <2>1, MeetingAssumption DEF MeetingStarts, HeapOK, NumbersOK, Person
      <3>2. busy_until' = [p \in Person |->
                 IF p \in Meeting[e.who].attendees \cap Npc
                 THEN Later(busy_until[p], Meeting[e.who].end)
                 ELSE busy_until[p]]
        BY <2>1 DEF MeetingStarts
      <3> QED
        BY <3>1, <3>2 DEF Later
    <2>2. CASE \/ \E dropped \in BOOLEAN : ScriptedMessage(e, dropped)
               \/ HeartbeatFires(e) /\ UNCHANGED npcVars
      BY <1>0, <2>2 DEF ScriptedMessage, HeartbeatFires, npcVars, NumbersOK, Person
    <2> QED
      BY <2>1, <2>2
  <1>4. NumbersOK' /\ HeapOK' /\ FramesOK'
    BY <1>0, <1>1, <1>2, <1>3 DEF NumbersOK, HeapOK, FramesOK
  <1>5. \A p \in Npc : /\ PendingPolls(p)' = PendingPolls(p)
                       /\ Handling(p)' = Handling(p)
    BY <1>1 DEF PendingPolls, Handling
  <1>6. OnePollPerNpc'
    <2> SUFFICES ASSUME NEW p \in Npc
                 PROVE  \/ /\ Handling(p) = {}
                           /\ \E f \in heap' : PendingPolls(p) = {f}
                        \/ /\ PendingPolls(p) = {}
                           /\ \E i \in DOMAIN frames : Handling(p) = {i}
      BY <1>1, <1>5 DEF OnePollPerNpc
    <2>1. \A f \in PendingPolls(p) : f \in heap'
      BY <1>1 DEF PendingPolls
    <2> QED
      BY <1>0, <2>1 DEF OnePollPerNpc
  <1>7. HandlersBeganInThePast'
    <2> SUFFICES ASSUME NEW p \in Npc, NEW i \in Handling(p)
                 PROVE  /\ acted_at[p] <= sim_time'
                        /\ \A j \in DOMAIN frames : j < i =>
                              acted_at[p] <= frames[j].target
      BY <1>1, <1>5 DEF HandlersBeganInThePast
    <2> QED
      BY <1>0, <1>2 DEF HandlersBeganInThePast, NumbersOK
  <1>8. PollsAreSpaced' /\ NoDecisionInMeeting'
    BY <1>0, <1>1, <1>5 DEF PollsAreSpaced, NoDecisionInMeeting
  <1>9. MeetingsAreAnnounced'
    <2> SUFFICES ASSUME NEW m \in DOMAIN Meeting,
                        NEW p \in Meeting[m].attendees \cap Npc,
                        ~\E f \in heap' : f.kind = "calendar_start" /\ f.who = m
                 PROVE  busy_until'[p] >= Meeting[m].end
      BY DEF MeetingsAreAnnounced
    <2>1. CASE e.kind = "calendar_start" /\ e.who = m
      BY <1>3, <2>1
    <2>2. CASE ~(e.kind = "calendar_start" /\ e.who = m)
      <3>1. busy_until[p] >= Meeting[m].end
        BY <1>0, <1>1, <2>2 DEF MeetingsAreAnnounced
      <3>2. /\ busy_until[p] \in Nat /\ busy_until'[p] \in Nat
            /\ Meeting[m].end \in Nat /\ busy_until'[p] >= busy_until[p]
        BY <1>0, <1>3, MeetingAssumption DEF NumbersOK, Person
      <3> QED
        BY <3>1, <3>2
    <2> QED
      BY <2>1, <2>2
  <1> QED
    BY <1>4, <1>6, <1>7, <1>8, <1>9 DEF SimulationInv

\* What the one pending poll of an NPC says when it is popped.
LEMMA PolledNpc ==
    ASSUME NumbersOK, HeapOK, FramesOK, OnePollPerNpc, PollsAreSpaced,
           NEW e \in heap, e.kind = "npc_poll", Pops(e)
    PROVE  /\ e.who \in Npc
           /\ Handling(e.who) = {} /\ PendingPolls(e.who) = {e}
           /\ acted_at[e.who] = -1 \/ e.fire_at >= acted_at[e.who] + Tick
  <1>1. e.who \in Npc /\ e \in PendingPolls(e.who)
    BY DEF HeapOK, PendingPolls
  <1> QED
    BY <1>1 DEF OnePollPerNpc, PollsAreSpaced

\* A poll that takes no decision is replaced by one at least a tick later.
LEMMA NpcSkipsPreserves ==
    ASSUME SimulationInv, NEW e \in heap, UNCHANGED driverVars, NpcSkips(e)
    PROVE  SimulationInv'
  <1> DEFINE npc == e.who
             at == NextPollAt(e.fire_at, busy_until[npc])
  <1>0. /\ NumbersOK /\ HeapOK /\ FramesOK /\ OnePollPerNpc
        /\ HandlersBeganInThePast /\ PollsAreSpaced
        /\ MeetingsAreAnnounced /\ NoDecisionInMeeting
    BY DEF SimulationInv
  <1>1. /\ Pops(e) /\ frames' = frames /\ e.kind = "npc_poll"
        /\ heap' = Reschedule(heap \ {e}, npc, e.fire_at)
        /\ acted_at' = acted_at /\ next_poll_at' = next_poll_at
        /\ busy_until' = busy_until
    BY DEF NpcSkips, driverVars, pollVars, npcVars
  <1>2. /\ sim_time' = e.fire_at /\ sim_time' \in Nat /\ sim_time <= sim_time'
        /\ \A f \in heap : f.fire_at \in Nat /\ f.fire_at >= sim_time'
    BY <1>0, <1>1, PopsInOrder
  <1>3. /\ npc \in Npc /\ Handling(npc) = {} /\ PendingPolls(npc) = {e}
        /\ acted_at[npc] = -1 \/ e.fire_at >= acted_at[npc] + Tick
    BY <1>0, <1>1, PolledNpc
  <1>4. at \in Nat /\ at >= sim_time'
    <2>1. busy_until[npc] \in Nat
      BY <1>0, <1>3 DEF NumbersOK, Person
    <2> QED
      BY <1>2, <2>1, NextPollAtBounds
  <1> HIDE DEF npc, at
  <1>5. PICK id : heap' = (heap \ {e}) \cup {[fire_at |-> at, event_id |-> id,
                                             kind |-> "npc_poll", who |-> npc]}
    BY <1>1 DEF Reschedule, Enqueue, npc, at
  <1> DEFINE new == [fire_at |-> at, event_id |-> id,
                     kind |-> "npc_poll", who |-> npc]
  <1>6. /\ new.fire_at = at /\ new.kind = "npc_poll" /\ new.who = npc
        /\ heap' = (heap \ {e}) \cup {new}
    BY <1>5
  <1> HIDE DEF new
  <1>7. NumbersOK' /\ HeapOK' /\ FramesOK'
    BY <1>0, <1>1, <1>2, <1>3, <1>4, <1>6 DEF NumbersOK, HeapOK, FramesOK
  <1>8. /\ PendingPolls(npc)' = {new}
        /\ \A p \in Npc : p # npc => PendingPolls(p)' = PendingPolls(p)
        /\ \A p \in Npc : Handling(p)' = Handling(p)
    <2>1. PendingPolls(npc)' = {new}
      BY <1>3, <1>6 DEF PendingPolls
    <2>2. \A p \in Npc : p # npc => PendingPolls(p)' = PendingPolls(p)
      BY <1>1, <1>6 DEF PendingPolls, npc
    <2> QED
      BY <1>1, <2>1, <2>2 DEF Handling
  <1>9. OnePollPerNpc'
    <2> SUFFICES ASSUME NEW p \in Npc
                 PROVE  \/ /\ Handling(p) = {}
                           /\ \E f \in heap' : PendingPolls(p)' = {f}
                        \/ /\ PendingPolls(p)' = {}
                           /\ \E i \in DOMAIN frames : Handling(p) = {i}
      BY <1>1, <1>8 DEF OnePollPerNpc
    <2>1. CASE p = npc
      BY <1>3, <1>6, <1>8, <2>1
    <2>2. CASE p # npc
      <3>1. \A f \in PendingPolls(p) : f \in heap'
        BY <1>8, <2>2 DEF PendingPolls
      <3> QED
        BY <1>0, <1>8, <2>2, <3>1 DEF OnePollPerNpc
    <2> QED
      BY <2>1, <2>2
  <1>10. HandlersBeganInThePast'
    <2> SUFFICES ASSUME NEW p \in Npc, NEW i \in Handling(p)
                 PROVE  /\ acted_at[p] <= sim_time'
                        /\ \A j \in DOMAIN frames : j < i =>
                              acted_at[p] <= frames[j].target
      BY <1>1, <1>8 DEF HandlersBeganInThePast
    <2> QED
      BY <1>0, <1>2 DEF HandlersBeganInThePast, NumbersOK
  <1>11. PollsAreSpaced'
    <2>1. acted_at[npc] = -1 \/ at >= acted_at[npc] + Tick
      <3>1. acted_at[npc] \in Nat \cup {-1} /\ Tick \in Nat
        BY <1>0, <1>3, TickAssumption DEF NumbersOK
      <3> QED
        BY <1>2, <1>3, <1>4, <3>1
    <2> QED
      BY <1>0, <1>1, <1>6, <1>8, <2>1 DEF PollsAreSpaced
  <1>12. MeetingsAreAnnounced' /\ NoDecisionInMeeting'
    <2>1. \A f \in heap : f.kind = "calendar_start" => f \in heap'
      BY <1>1, <1>6
    <2> QED
      BY <1>0, <1>1, <2>1 DEF MeetingsAreAnnounced, NoDecisionInMeeting
  <1> QED
    BY <1>7, <1>9, <1>10, <1>11, <1>12 DEF SimulationInv

\* A handler that ends schedules the next poll of its NPC from a clock that is
\* not before the minute its NPC decided.
LEMMA NpcFinishesPreserves ==
    ASSUME SimulationInv, UNCHANGED driverVars, NpcFinishes
    PROVE  SimulationInv'
  <1> DEFINE f1 == Frame(Head(frames).target, Nobody, NoTrigger)
  <1>0. /\ NumbersOK /\ HeapOK /\ FramesOK /\ OnePollPerNpc
        /\ HandlersBeganInThePast /\ PollsAreSpaced
        /\ MeetingsAreAnnounced /\ NoDecisionInMeeting
    BY DEF SimulationInv
  <1>1. /\ frames # <<>> /\ Head(frames).npc # Nobody
        /\ heap' = Reschedule(heap, Head(frames).npc, sim_time)
        /\ frames' = <<f1>> \o Tail(frames)
        /\ sim_time' = sim_time
        /\ acted_at' = acted_at /\ next_poll_at' = next_poll_at
        /\ busy_until' = busy_until
    BY DEF NpcFinishes, NpcInControl, driverVars, pollVars
  <1>2. f1.target = Head(frames).target /\ f1.npc = Nobody
    BY DEF Frame
  <1> HIDE DEF f1
  <1>3. /\ IsSeq(frames) /\ IsSeq(frames') /\ Len(frames) \in Nat \ {0}
        /\ DOMAIN frames = 1 .. Len(frames) /\ DOMAIN frames' = DOMAIN frames
        /\ frames[1] = Head(frames) /\ 1 \in DOMAIN frames
        /\ frames'[1] = f1
        /\ \A i \in DOMAIN frames : i # 1 => frames'[i] = frames[i]
    <2>1. IsSeq(frames)
      BY <1>0 DEF FramesOK
    <2>2. /\ IsSeq(frames') /\ Len(frames) \in Nat \ {0}
          /\ Len(frames') = Len(frames) /\ frames'[1] = f1
          /\ \A i \in 2 .. Len(frames) : frames'[i] = frames[i]
      BY <1>1, <2>1, Update
    <2> QED
      BY <1>1, <2>1, <2>2, Pop, SeqDomain
  <1>a. PICK npc \in Npc : npc = Head(frames).npc
    BY <1>0, <1>1, <1>3 DEF FramesOK
  <1> DEFINE at == NextPollAt(sim_time, busy_until[npc])
  <1>4. /\ Handling(npc) = {1} /\ PendingPolls(npc) = {}
        /\ acted_at[npc] <= sim_time
    <2>1. 1 \in Handling(npc)
      BY <1>3, <1>a DEF Handling
    <2> QED
      BY <1>0, <2>1 DEF OnePollPerNpc, HandlersBeganInThePast
  <1>5. at \in Nat /\ at >= sim_time /\ at >= sim_time + Tick
    <2>1. busy_until[npc] \in Nat /\ sim_time \in Nat
      BY <1>0 DEF NumbersOK, Person
    <2> QED
      BY <2>1, NextPollAtBounds
  <1>6. PICK id : heap' = heap \cup {[fire_at |-> at, event_id |-> id,
                                     kind |-> "npc_poll", who |-> npc]}
    BY <1>1, <1>a DEF Reschedule, Enqueue
  <1> HIDE DEF at
  <1> DEFINE new == [fire_at |-> at, event_id |-> id,
                     kind |-> "npc_poll", who |-> npc]
  <1>7. /\ new.fire_at = at /\ new.kind = "npc_poll" /\ new.who = npc
        /\ heap' = heap \cup {new}
    BY <1>6
  <1> HIDE DEF new
  <1>8. NumbersOK' /\ HeapOK' /\ FramesOK'
    <2>1. FramesOK'
      BY <1>0, <1>2, <1>3 DEF FramesOK
    <2> QED
      BY <1>0, <1>1, <1>4, <1>5, <1>7, <2>1 DEF NumbersOK, HeapOK
  <1>9. /\ PendingPolls(npc)' = {new} /\ Handling(npc)' = {}
        /\ \A p \in Npc : p # npc => /\ PendingPolls(p)' = PendingPolls(p)
                                    /\ Handling(p)' = Handling(p)
    <2>1. PendingPolls(npc)' = {new}
      BY <1>4, <1>7 DEF PendingPolls
    <2>2. \A p \in Npc : p # npc => PendingPolls(p)' = PendingPolls(p)
      BY <1>7 DEF PendingPolls
    <2>3. Handling(npc)' = {}
      BY <1>2, <1>3, <1>4, NamesAssumption DEF Handling, Person
    <2>4. \A p \in Npc : p # npc => Handling(p)' = Handling(p)
      BY <1>2, <1>3, <1>a, NamesAssumption DEF Handling, Person
    <2> QED
      BY <2>1, <2>2, <2>3, <2>4
  <1>10. OnePollPerNpc'
    <2> SUFFICES ASSUME NEW p \in Npc
                 PROVE  \/ /\ Handling(p)' = {}
                           /\ \E f \in heap' : PendingPolls(p)' = {f}
                        \/ /\ PendingPolls(p)' = {}
                           /\ \E i \in DOMAIN frames : Handling(p)' = {i}
      BY <1>3 DEF OnePollPerNpc
    <2>1. CASE p = npc
      BY <1>7, <1>9, <2>1
    <2>2. CASE p # npc
      <3>1. \A f \in PendingPolls(p) : f \in heap'
        BY <1>7 DEF PendingPolls
      <3> QED
        BY <1>0, <1>9, <2>2, <3>1 DEF OnePollPerNpc
    <2> QED
      BY <2>1, <2>2
  <1>11. HandlersBeganInThePast'
    <2> SUFFICES ASSUME NEW p \in Npc, NEW i \in Handling(p)'
                 PROVE  /\ acted_at[p] <= sim_time
                        /\ \A j \in DOMAIN frames : j < i =>
                              acted_at[p] <= frames'[j].target
      BY <1>1, <1>3 DEF HandlersBeganInThePast
    <2>1. p # npc /\ i \in Handling(p)
      BY <1>9
    <2>2. /\ acted_at[p] <= sim_time
          /\ \A j \in DOMAIN frames : j < i => acted_at[p] <= frames[j].target
      BY <1>0, <2>1 DEF HandlersBeganInThePast
    <2> QED
      BY <1>2, <1>3, <2>2
  <1>12. PollsAreSpaced'
    <2>1. at >= acted_at[npc] + Tick
      <3>1. /\ acted_at[npc] \in Nat \cup {-1} /\ Tick \in Nat
            /\ sim_time \in Nat
        BY <1>0, <1>4, TickAssumption DEF NumbersOK
      <3> QED
        BY <1>4, <1>5, <3>1
    <2> QED
      BY <1>0, <1>1, <1>7, <1>9, <2>1 DEF PollsAreSpaced
  <1>13. MeetingsAreAnnounced' /\ NoDecisionInMeeting'
    BY <1>0, <1>1, <1>7 DEF MeetingsAreAnnounced, NoDecisionInMeeting
  <1> QED
    BY <1>8, <1>10, <1>11, <1>12, <1>13 DEF SimulationInv

\* A poll with a decision moves the NPC from the heap to the stack.  The advance
\* that pays for the tool ends at or after the minute of the decision.
LEMMA NpcActsPreserves ==
    ASSUME SimulationInv, UNCHANGED driverVars, NEW e \in heap,
           NEW to, NEW cost \in NpcCosts, NpcActs(e, to, cost)
    PROVE  /\ SimulationInv'
           /\ acted_at[e.who] = -1 \/ e.fire_at >= acted_at[e.who] + Tick
           /\ e.who \in Npc
           /\ acted_at' = [acted_at EXCEPT ![e.who] = e.fire_at]
  <1> DEFINE npc == e.who
  <1>b. PICK f1 : f1 = Frame(e.fire_at + cost, Nobody, NoTrigger)
    OBVIOUS
  <1>c. PICK f2 : f2 = Frame(Head(frames).target, npc, HeadTrigger(queues[npc]))
    OBVIOUS
  <1>0. /\ NumbersOK /\ HeapOK /\ FramesOK /\ OnePollPerNpc
        /\ HandlersBeganInThePast /\ PollsAreSpaced
        /\ MeetingsAreAnnounced /\ NoDecisionInMeeting
    BY DEF SimulationInv
  <1>1. /\ Pops(e) /\ e.kind = "npc_poll"
        /\ busy_until[npc] <= e.fire_at
        /\ heap' = heap \ {e}
        /\ frames' = <<f1>> \o (<<f2>> \o Tail(frames))
        /\ acted_at' = [acted_at EXCEPT ![npc] = e.fire_at]
        /\ next_poll_at' = next_poll_at /\ busy_until' = busy_until
    BY <1>b, <1>c DEF NpcActs, Enter, driverVars, pollVars
  <1>2. /\ sim_time' = e.fire_at /\ sim_time' \in Nat /\ sim_time <= sim_time'
        /\ \A f \in heap : f.fire_at \in Nat /\ f.fire_at >= sim_time'
        /\ frames # <<>> /\ 1 \in DOMAIN frames /\ frames[1] = Head(frames)
        /\ frames[1].npc = Nobody /\ frames[1].target \in Nat
        /\ e.fire_at <= frames[1].target
    BY <1>0, <1>1, PopsInOrder
  <1>3. /\ npc \in Npc /\ Handling(npc) = {} /\ PendingPolls(npc) = {e}
        /\ acted_at[npc] = -1 \/ e.fire_at >= acted_at[npc] + Tick
    BY <1>0, <1>1, PolledNpc
  <1>4. /\ f1.npc = Nobody /\ f1.target \in Nat /\ f1.target >= sim_time'
        /\ f2.npc = npc /\ f2.target = frames[1].target
    <2>1. cost \in Nat
      BY NpcCostsAssumption
    <2> QED
      BY <1>2, <1>b, <1>c, <2>1 DEF Frame
  <1> HIDE DEF npc
  <1>5. /\ IsSeq(frames') /\ Len(frames) \in Nat \ {0}
        /\ DOMAIN frames = 1 .. Len(frames)
        /\ DOMAIN frames' = 1 .. Len(frames) + 1
        /\ frames'[1] = f1 /\ frames'[2] = f2
        /\ \A i \in 3 .. Len(frames) + 1 : frames'[i] = frames[i - 1]
    <2>1. IsSeq(frames)
      BY <1>0 DEF FramesOK
    <2>a. PICK fr : fr = frames
      OBVIOUS
    <2>b. PICK fs : fs = <<f1>> \o (<<f2>> \o Tail(fr))
      OBVIOUS
    <2>c. IsSeq(fr) /\ fr # <<>>
      BY <1>2, <2>1, <2>a
    <2>2. /\ IsSeq(fs) /\ Len(fr) \in Nat \ {0}
          /\ Len(fs) = Len(fr) + 1 /\ fs[1] = f1 /\ fs[2] = f2
          /\ \A i \in 3 .. Len(fr) + 1 : fs[i] = fr[i - 1]
      <3>1. IsSeq(fs) /\ Len(fr) \in Nat \ {0}
        BY <2>b, <2>c, UpdatePush
      <3>2. Len(fs) = Len(fr) + 1
        BY <2>b, <2>c, UpdatePush
      <3>3. fs[1] = f1
        BY <2>b, <2>c, UpdatePush
      <3>4. fs[2] = f2
        BY <2>b, <2>c, UpdatePush
      <3>5. \A i \in 3 .. Len(fr) + 1 : fs[i] = fr[i - 1]
        BY <2>b, <2>c, UpdatePush
      <3> QED
        BY <3>1, <3>2, <3>3, <3>4, <3>5
    <2>3. DOMAIN frames = 1 .. Len(frames) /\ DOMAIN fs = 1 .. Len(fs)
      BY <2>1, <2>2, SeqDomain
    <2> QED
      BY <1>1, <2>a, <2>b, <2>2, <2>3
  <1>6. NumbersOK' /\ HeapOK'
    BY <1>0, <1>1, <1>2, <1>3 DEF NumbersOK, HeapOK
  <1>7. FramesOK'
    <2> SUFFICES ASSUME NEW i \in DOMAIN frames'
                 PROVE  /\ frames'[i].target \in Nat
                        /\ frames'[i].npc \in Npc \cup {Nobody}
      BY <1>5 DEF FramesOK
    <2>1. CASE i = 1
      BY <1>4, <1>5, <2>1
    <2>2. CASE i = 2
      BY <1>2, <1>3, <1>4, <1>5, <2>2
    <2>3. CASE i \in 3 .. Len(frames) + 1
      <3>1. i - 1 \in DOMAIN frames /\ frames'[i] = frames[i - 1]
        BY <1>5, <2>3
      <3> QED
        BY <1>0, <3>1 DEF FramesOK
    <2> QED
      BY <1>5, <2>1, <2>2, <2>3
  <1>8. /\ PendingPolls(npc)' = {} /\ Handling(npc)' = {2}
        /\ \A p \in Npc : p # npc =>
              /\ PendingPolls(p)' = PendingPolls(p)
              /\ \A i \in Handling(p)' : i - 1 \in Handling(p) /\ i \in 3 .. Len(frames) + 1
              /\ \A i \in Handling(p) : i + 1 \in Handling(p)'
    <2>1. PendingPolls(npc)' = {}
      BY <1>1, <1>3 DEF PendingPolls, npc
    <2>2. Handling(npc)' = {2}
      <3>1. 2 \in Handling(npc)'
        BY <1>4, <1>5 DEF Handling, npc
      <3>2. ASSUME NEW i \in Handling(npc)' PROVE i = 2
        <4>1. i \in DOMAIN frames' /\ frames'[i].npc = npc
          BY DEF Handling, npc
        <4>2. i # 1
          BY <1>3, <1>4, <1>5, <4>1, NamesAssumption DEF Person
        <4>3. CASE i \in 3 .. Len(frames) + 1
          BY <1>3, <1>5, <4>1, <4>3 DEF Handling
        <4> QED
          BY <1>5, <4>1, <4>2, <4>3
      <3> QED
        BY <3>1, <3>2
    <2>3. ASSUME NEW p \in Npc, p # npc
          PROVE  PendingPolls(p)' = PendingPolls(p)
      BY <1>1, <2>3 DEF PendingPolls, npc
    <2>4. ASSUME NEW p \in Npc, p # npc, NEW i \in Handling(p)'
          PROVE  i - 1 \in Handling(p) /\ i \in 3 .. Len(frames) + 1
      <3>1. i \in DOMAIN frames' /\ frames'[i].npc = p
        BY DEF Handling
      <3>2. i # 1 /\ i # 2
        BY <1>4, <1>5, <2>4, <3>1, NamesAssumption DEF Person
      <3> QED
        BY <1>5, <3>1, <3>2 DEF Handling
    <2>5. ASSUME NEW p \in Npc, NEW i \in Handling(p)
          PROVE  i + 1 \in Handling(p)'
      <3>1. i \in DOMAIN frames /\ frames[i].npc = p /\ i # 1
        BY <1>2, NamesAssumption DEF Handling, Person
      <3> QED
        BY <1>5, <3>1 DEF Handling
    <2> QED
      BY <2>1, <2>2, <2>3, <2>4, <2>5
  <1>9. OnePollPerNpc'
    <2> SUFFICES ASSUME NEW p \in Npc
                 PROVE  \/ /\ Handling(p)' = {}
                           /\ \E f \in heap' : PendingPolls(p)' = {f}
                        \/ /\ PendingPolls(p)' = {}
                           /\ \E i \in DOMAIN frames' : Handling(p)' = {i}
      BY DEF OnePollPerNpc
    <2>1. CASE p = npc
      BY <1>5, <1>8, <2>1 DEF npc
    <2>2. CASE p # npc
      <3>1. CASE Handling(p) = {} /\ \E f \in heap : PendingPolls(p) = {f}
        <4>1. \A f \in PendingPolls(p) : f \in heap'
          BY <1>8, <2>2 DEF PendingPolls
        <4> QED
          BY <1>8, <2>2, <3>1, <4>1
      <3>2. CASE PendingPolls(p) = {} /\ \E i \in DOMAIN frames : Handling(p) = {i}
        <4>1. PICK i \in DOMAIN frames : Handling(p) = {i}
          BY <3>2
        <4>2. i + 1 \in Handling(p)' /\ i + 1 \in DOMAIN frames'
          BY <1>5, <1>8, <2>2, <4>1
        <4>3. \A k \in Handling(p)' : k = i + 1
          BY <1>5, <1>8, <2>2, <4>1
        <4> QED
          BY <1>8, <2>2, <3>2, <4>2, <4>3
      <3> QED
        BY <1>0, <3>1, <3>2 DEF OnePollPerNpc
    <2> QED
      BY <2>1, <2>2
  <1>10. acted_at'[npc] = e.fire_at /\ \A p \in Npc : p # npc => acted_at'[p] = acted_at[p]
    BY <1>0, <1>1, <1>3 DEF NumbersOK
  <1>11. HandlersBeganInThePast'
    <2> SUFFICES ASSUME NEW p \in Npc, NEW i \in Handling(p)'
                 PROVE  /\ acted_at'[p] <= sim_time'
                        /\ \A j \in DOMAIN frames' : j < i =>
                              acted_at'[p] <= frames'[j].target
      BY DEF HandlersBeganInThePast
    <2>1. CASE p = npc
      <3>1. i = 2
        BY <1>8, <2>1 DEF npc
      <3> QED
        BY <1>2, <1>4, <1>5, <1>10, <2>1, <3>1
    <2>2. CASE p # npc
      <3>1. i - 1 \in Handling(p) /\ i \in 3 .. Len(frames) + 1
        BY <1>8, <2>2
      <3>2. /\ acted_at[p] <= sim_time
            /\ \A j \in DOMAIN frames : j < i - 1 => acted_at[p] <= frames[j].target
        BY <1>0, <3>1 DEF HandlersBeganInThePast
      <3>3. acted_at[p] \in Nat \cup {-1} /\ sim_time \in Nat
        BY <1>0 DEF NumbersOK
      <3>4. acted_at[p] <= sim_time'
        BY <1>2, <3>2, <3>3
      <3>5. ASSUME NEW j \in DOMAIN frames', j < i
            PROVE  acted_at[p] <= frames'[j].target
        <4>1. CASE j = 1
          BY <1>2, <1>4, <1>5, <3>3, <3>4, <4>1
        <4>2. CASE j = 2
          BY <1>2, <1>4, <1>5, <3>1, <3>2, <4>2
        <4>3. CASE j \in 3 .. Len(frames) + 1
          BY <1>5, <3>1, <3>2, <3>5, <4>3
        <4> QED
          BY <1>5, <4>1, <4>2, <4>3
      <3> QED
        BY <1>10, <2>2, <3>4, <3>5
    <2> QED
      BY <2>1, <2>2
  <1>12. PollsAreSpaced'
    BY <1>0, <1>8, <1>10 DEF PollsAreSpaced, npc
  <1>13. MeetingsAreAnnounced'
    BY <1>0, <1>1 DEF MeetingsAreAnnounced
  <1>14. NoDecisionInMeeting'
    <2> SUFFICES ASSUME NEW p \in Npc, NEW m \in DOMAIN Meeting,
                        p \in Meeting[m].attendees,
                        Meeting[m].start < acted_at'[p],
                        acted_at'[p] < Meeting[m].end
                 PROVE  FALSE
      BY DEF NoDecisionInMeeting
    <2>1. CASE p # npc
      BY <1>0, <1>10, <2>1 DEF NoDecisionInMeeting
    <2>2. CASE p = npc
      <3>1. /\ Meeting[m].start \in Nat /\ Meeting[m].end \in Nat
            /\ busy_until[npc] \in Nat
        BY <1>0, <1>3, MeetingAssumption DEF NumbersOK, Person
      <3>2. CASE \E f \in heap : f.kind = "calendar_start" /\ f.who = m
        <4>1. PICK f \in heap : f.kind = "calendar_start" /\ f.who = m
          BY <3>2
        <4>2. f.fire_at = Meeting[m].start /\ f.fire_at >= e.fire_at
          BY <1>0, <1>2, <4>1 DEF HeapOK
        <4> QED
          BY <1>2, <1>10, <2>2, <3>1, <4>2
      <3>3. CASE busy_until[npc] >= Meeting[m].end
        BY <1>1, <1>2, <1>10, <2>2, <3>1, <3>3
      <3> QED
        BY <1>0, <2>2, <3>2, <3>3 DEF MeetingsAreAnnounced
    <2> QED
      BY <2>1, <2>2
  <1>15. SimulationInv'
    BY <1>6, <1>7, <1>9, <1>11, <1>12, <1>13, <1>14 DEF SimulationInv
  <1> QED
    BY <1>1, <1>3, <1>15 DEF npc

-----------------------------------------------------------------------------
(* The theorems.                                                           *)

\* A run starts in the invariant: no two first polls are of the same NPC, and
\* every meeting's start marker is in the heap.
LEMMA InvInit == Init => SimulationInv
  <1> SUFFICES ASSUME Init PROVE SimulationInv
    OBVIOUS
  <1> DEFINE first == NextPollAt(0, 0)
             polls == Len(Script) + EndTime \div Hour
             poll(i) == InitialEvent(first, polls + i, "npc_poll", Npcs[i])
  <1>1. first \in Nat
    BY NextPollAtBounds
  <1> HIDE DEF first
  <1>2. \A e \in heap :
            \/ /\ e.kind = "scripted"
               /\ \E i \in DOMAIN Script : e.fire_at = Script[i][1] /\ e.who = Script[i][2]
            \/ \E i \in DOMAIN Npcs : e = poll(i) /\ e.kind = "npc_poll"
                                  /\ e.fire_at = first /\ e.who = Npcs[i]
            \/ /\ e.kind = "calendar_start"
               /\ e.who \in DOMAIN Meeting /\ e.fire_at = Meeting[e.who].start
            \/ e.kind = "agent_poll" /\ e.fire_at = first
            \/ /\ e.kind = "agent_heartbeat"
               /\ \E h \in 1 .. EndTime \div Hour : e.fire_at = h * Hour
    BY DEF Init, InitialHeap, InitialEvent, first
  <1>3. /\ \A i \in DOMAIN Npcs : poll(i) \in heap /\ Npcs[i] \in Npc
        /\ \A m \in DOMAIN Meeting :
              \E e \in heap : e.kind = "calendar_start" /\ e.who = m
    <2>1. \A i \in DOMAIN Npcs : poll(i) \in heap /\ Npcs[i] \in Npc
      BY DEF Init, InitialHeap, first, Npc, Range
    <2>2. ASSUME NEW m \in DOMAIN Meeting
          PROVE  \E e \in heap : e.kind = "calendar_start" /\ e.who = m
      <3> DEFINE marker == InitialEvent(Meeting[m].start,
                               polls + Len(Npcs) + m, "calendar_start", m)
      <3>1. marker \in heap
        BY DEF Init, InitialHeap
      <3>2. marker.kind = "calendar_start" /\ marker.who = m
        BY DEF InitialEvent
      <3> QED
        BY <3>1, <3>2
    <2> QED
      BY <2>1, <2>2
  <1>4. /\ \A i \in DOMAIN Script : Script[i][1] \in Nat /\ Script[i][2] \in Npc
        /\ \A h \in 1 .. EndTime \div Hour : h * Hour \in Nat
    <2>1. EndTime \div Hour \in Nat
      BY DriverAssumption, HourAssumption
    <2>2. \A h \in 1 .. EndTime \div Hour : h * Hour \in Nat
      BY <2>1, HourAssumption
    <2> QED
      BY <2>2, ScriptAssumption
  <1>5. sim_time = 0 /\ frames = <<>> /\ next_poll_at = 0
        /\ busy_until = [p \in Person |-> 0] /\ acted_at = [p \in Npc |-> -1]
    BY DEF Init
  <1>6. NumbersOK
    BY <1>5 DEF NumbersOK
  <1>7. HeapOK
    BY <1>1, <1>2, <1>3, <1>4, <1>5, MeetingAssumption DEF HeapOK
  <1>8. FramesOK /\ DOMAIN frames = {}
    BY <1>5 DEF FramesOK, IsSeq
  <1>9. OnePollPerNpc
    <2> SUFFICES ASSUME NEW p \in Npc
                 PROVE  Handling(p) = {} /\ \E e \in heap : PendingPolls(p) = {e}
      BY DEF OnePollPerNpc
    <2>1. PICK i \in DOMAIN Npcs : Npcs[i] = p
      BY DEF Npc, Range
    <2>2. \A j \in DOMAIN Npcs : Npcs[j] = p => j = i
      BY <2>1, NpcsAssumption DEF IsInjective
    <2>3. poll(i) \in PendingPolls(p)
      BY <1>3, <2>1 DEF PendingPolls, InitialEvent
    <2>4. \A e \in PendingPolls(p) : e = poll(i)
      BY <1>2, <2>2 DEF PendingPolls
    <2> QED
      BY <1>3, <1>8, <2>3, <2>4 DEF Handling
  <1>10. HandlersBeganInThePast
    BY <1>8 DEF HandlersBeganInThePast, Handling
  <1>11. PollsAreSpaced /\ MeetingsAreAnnounced
    BY <1>3, <1>5 DEF PollsAreSpaced, MeetingsAreAnnounced
  <1>12. NoDecisionInMeeting
    <2> SUFFICES ASSUME NEW p \in Npc, NEW m \in DOMAIN Meeting
                 PROVE  ~(Meeting[m].start < acted_at[p])
      BY DEF NoDecisionInMeeting
    <2> QED
      BY <1>5, MeetingAssumption
  <1> QED
    BY <1>6, <1>7, <1>8, <1>9, <1>10, <1>11, <1>12 DEF SimulationInv

\* A step either is a decision of one NPC, in a poll a tick or more after its
\* last decision, or leaves every acted_at alone.
DecisionsAreSpaced ==
    \A p \in Npc : acted_at'[p] # acted_at[p] =>
        acted_at[p] = -1 \/ acted_at'[p] >= acted_at[p] + Tick

\* Every step preserves the invariant and spaces decisions.
LEMMA InvStep ==
    SimulationInv /\ [Next]_vars => SimulationInv' /\ DecisionsAreSpaced
  <1> SUFFICES ASSUME SimulationInv, [Next]_vars
               PROVE  SimulationInv' /\ DecisionsAreSpaced
    OBVIOUS
  <1>1. CASE DriverStep
    <2>1. acted_at' = acted_at
      BY <1>1, DriverEffect DEF SimulationInv
    <2> QED
      BY <1>1, <2>1, DriverPreserves DEF DecisionsAreSpaced
  <1>2. CASE AdvanceReturns /\ UNCHANGED <<npcVars, driverVars>>
    BY <1>2, AdvanceReturnsPreserves DEF DecisionsAreSpaced, npcVars
  <1>3. CASE NpcStep /\ UNCHANGED driverVars
    <2>1. ASSUME NEW e \in heap, NpcSkips(e)
          PROVE  SimulationInv' /\ DecisionsAreSpaced
      BY <1>3, <2>1, NpcSkipsPreserves DEF NpcSkips, npcVars, DecisionsAreSpaced
    <2>2. ASSUME NEW e \in heap, NEW to, NEW cost \in NpcCosts, NpcActs(e, to, cost)
          PROVE  SimulationInv' /\ DecisionsAreSpaced
      <3>1. /\ SimulationInv' /\ e.who \in Npc
            /\ acted_at[e.who] = -1 \/ e.fire_at >= acted_at[e.who] + Tick
            /\ acted_at' = [acted_at EXCEPT ![e.who] = e.fire_at]
        BY <1>3, <2>2, NpcActsPreserves
      <3>2. acted_at \in [Npc -> Nat \cup {-1}]
        BY DEF SimulationInv, NumbersOK
      <3> QED
        BY <3>1, <3>2 DEF DecisionsAreSpaced
    <2>3. CASE NpcFinishes
      BY <1>3, <2>3, NpcFinishesPreserves DEF NpcFinishes, DecisionsAreSpaced
    <2>4. ASSUME NEW e \in heap, MeetingStarts(e)
          PROVE  SimulationInv' /\ DecisionsAreSpaced
      BY <1>3, <2>4, InboundPreserves DEF MeetingStarts, DecisionsAreSpaced
    <2>5. ASSUME NEW e \in heap, NEW dropped \in BOOLEAN, ScriptedMessage(e, dropped)
          PROVE  SimulationInv' /\ DecisionsAreSpaced
      BY <1>3, <2>5, InboundPreserves DEF ScriptedMessage, DecisionsAreSpaced
    <2> QED
      BY <1>3, <2>1, <2>2, <2>3, <2>4, <2>5 DEF NpcStep
  <1>4. ASSUME NEW e \in heap, HeartbeatFires(e), UNCHANGED <<npcVars, driverVars>>
        PROVE  SimulationInv' /\ DecisionsAreSpaced
    BY <1>4, InboundPreserves DEF npcVars, DecisionsAreSpaced
  <1>5. CASE UNCHANGED vars
    <2>1. /\ SimulationInv' <=> SimulationInv
          /\ acted_at' = acted_at
      BY <1>5 DEF vars, kernelVars, npcVars, driverVars, pollVars, SimulationInv,
           NumbersOK, HeapOK, FramesOK, OnePollPerNpc, HandlersBeganInThePast,
           PollsAreSpaced, MeetingsAreAnnounced, NoDecisionInMeeting,
           PendingPolls, Handling
    <2> QED
      BY <2>1 DEF DecisionsAreSpaced
  <1> QED
    BY <1>1, <1>2, <1>3, <1>4, <1>5 DEF Next

\* Every reachable state satisfies the invariant.
THEOREM Invariance == Spec => []SimulationInv
  <1>1. SimulationInv /\ [Next]_vars => SimulationInv'
    BY InvStep
  <1> QED
    BY InvInit, <1>1, PTL DEF Spec

\* No NPC is ever polled twice at once, nor forgotten: each has one poll, in
\* the heap or on the stack, however deeply handlers nest.
THEOREM EveryNpcHasOnePoll == Spec => []OnePollPerNpc
  <1>1. SimulationInv => OnePollPerNpc
    BY DEF SimulationInv
  <1> QED
    BY Invariance, <1>1, PTL

\* No pending event is earlier than the clock, although nested advances set
\* the clock back.
THEOREM NeverOverdue == Spec => []NothingOverdue
  <1>1. SimulationInv => NothingOverdue
    BY DEF SimulationInv, HeapOK, NothingOverdue
  <1> QED
    BY Invariance, <1>1, PTL

\* Two decisions of an NPC are a tick or more apart.
THEOREM NpcsDecideOncePerTick == Spec => OneDecisionPerTick
  <1>1. SimulationInv /\ [Next]_vars =>
            [\A p \in Npc : acted_at'[p] # acted_at[p] =>
                acted_at[p] = -1 \/ acted_at'[p] >= acted_at[p] + Tick]_vars
    BY InvStep DEF DecisionsAreSpaced
  <1> QED
    BY Invariance, <1>1, PTL DEF Spec, OneDecisionPerTick

\* No NPC decides while a meeting it attends is under way.
THEOREM NpcsAreSilentInMeetings == Spec => []NoDecisionInMeeting
  <1>1. SimulationInv => NoDecisionInMeeting
    BY DEF SimulationInv
  <1> QED
    BY Invariance, <1>1, PTL
=============================================================================
