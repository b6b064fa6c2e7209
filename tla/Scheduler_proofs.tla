-------------------------- MODULE Scheduler_proofs --------------------------
(***************************************************************************)
(* Proofs about the re-entrant scheduler, for every bound.                 *)
(***************************************************************************)
EXTENDS Scheduler, SequenceTheorems, TLAPS

-----------------------------------------------------------------------------
(* The call stack as a sequence whose head is the innermost activation.    *)

\* What pushing an element does to a stack.
LEMMA PushLemma ==
    ASSUME NEW S, NEW f \in S, NEW s \in Seq(S)
    PROVE  /\ <<f>> \o s \in Seq(S)
           /\ <<f>> \o s # <<>>
           /\ Len(<<f>> \o s) = Len(s) + 1
           /\ (<<f>> \o s)[1] = f
           /\ \A i \in 1 .. Len(s) : (<<f>> \o s)[i + 1] = s[i]
           /\ \A i \in 2 .. Len(s) + 1 : (<<f>> \o s)[i] = s[i - 1]
           /\ Head(<<f>> \o s) = f
  <1>1. <<f>> \in Seq(S) /\ Len(<<f>>) = 1 /\ <<f>>[1] = f
    OBVIOUS
  <1>2. /\ <<f>> \o s \in Seq(S)
        /\ Len(<<f>> \o s) = 1 + Len(s)
        /\ \A i \in 1 .. 1 + Len(s) : (<<f>> \o s)[i] =
                 IF i <= 1 THEN <<f>>[i] ELSE s[i - 1]
    BY <1>1, ConcatProperties
  <1>3. Len(s) \in Nat
    BY LenProperties
  <1> QED
    BY <1>1, <1>2, <1>3, HeadTailProperties

\* What popping does to a non-empty stack.
LEMMA PopLemma ==
    ASSUME NEW S, NEW s \in Seq(S), s # <<>>
    PROVE  /\ Tail(s) \in Seq(S)
           /\ Len(s) \in Nat \ {0}
           /\ Len(Tail(s)) = Len(s) - 1
           /\ \A i \in 1 .. Len(s) - 1 : Tail(s)[i] = s[i + 1]
           /\ Head(s) = s[1]
           /\ Head(s) \in S
  BY HeadTailProperties, LenProperties, EmptySeq

\* Replacing the head of a non-empty stack leaves the rest in place.
LEMMA UpdateLemma ==
    ASSUME NEW S, NEW s \in Seq(S), s # <<>>, NEW f \in S
    PROVE  /\ <<f>> \o Tail(s) \in Seq(S)
           /\ Len(<<f>> \o Tail(s)) = Len(s)
           /\ (<<f>> \o Tail(s))[1] = f
           /\ \A i \in 2 .. Len(s) : (<<f>> \o Tail(s))[i] = s[i]
           /\ 1 \in 1 .. Len(s)
  <1>1. /\ Tail(s) \in Seq(S) /\ Len(s) \in Nat \ {0}
        /\ Len(Tail(s)) = Len(s) - 1
        /\ \A i \in 1 .. Len(s) - 1 : Tail(s)[i] = s[i + 1]
    BY PopLemma
  <1>2. /\ <<f>> \o Tail(s) \in Seq(S)
        /\ Len(<<f>> \o Tail(s)) = Len(Tail(s)) + 1
        /\ (<<f>> \o Tail(s))[1] = f
        /\ \A i \in 2 .. Len(Tail(s)) + 1 :
              (<<f>> \o Tail(s))[i] = Tail(s)[i - 1]
    BY <1>1, PushLemma
  <1>3. \A i \in 2 .. Len(s) : i - 1 \in 1 .. Len(s) - 1
    BY <1>1
  <1> QED
    BY <1>1, <1>2, <1>3

-----------------------------------------------------------------------------
(* Type correctness.                                                       *)

\* Every variable keeps its type (clock.py:30-34).
THEOREM TypeCorrect == Spec => []TypeOK
  <1>1. Init => TypeOK
    BY BoundsAssumption DEF Init, TypeOK, Time
  <1>2. TypeOK /\ [Next]_vars => TypeOK'
    <2> SUFFICES ASSUME TypeOK, [Next]_vars PROVE TypeOK'
      OBVIOUS
    <2> USE DEF TypeOK
    <2>1. ASSUME NEW at \in Time, Schedule(at) PROVE TypeOK'
      BY <2>1 DEF Schedule, Event
    <2>2. ASSUME NEW target \in Time, AdvanceTo(target) PROVE TypeOK'
      <3> DEFINE f == [target |-> target, began |-> sim_time,
                       popped |-> {}, handling |-> FALSE]
      <3>1. f \in Call
        BY <2>2 DEF Call
      <3> QED
        BY <3>1, <2>2, PushLemma DEF AdvanceTo
    <2>3. ASSUME NEW e \in heap, NEW handled \in BOOLEAN,
                 FireNext(e, handled)
          PROVE  TypeOK'
      <3> DEFINE f == [Head(calls) EXCEPT !.popped = {e},
                                          !.handling = handled]
      <3>1. Head(calls) \in Call /\ Tail(calls) \in Seq(Call)
        BY <2>3, PopLemma DEF FireNext
      <3>2. e \in Event /\ e.fire_at \in Time /\ e.event_id \in Nat
        BY DEF Event
      <3>3. f \in Call
        BY <3>1, <3>2 DEF Call
      <3>4. <<f>> \o Tail(calls) \in Seq(Call)
        BY <3>1, <3>3, PushLemma
      <3> QED
        BY <3>2, <3>4, <2>3 DEF FireNext
    <2>4. CASE HandlerReturns
      <3> DEFINE f == [Head(calls) EXCEPT !.handling = FALSE]
      <3>1. Head(calls) \in Call /\ Tail(calls) \in Seq(Call)
        BY <2>4, PopLemma DEF HandlerReturns
      <3>2. f \in Call
        BY <3>1 DEF Call
      <3>3. <<f>> \o Tail(calls) \in Seq(Call)
        BY <3>1, <3>2, PushLemma
      <3> QED
        BY <3>3, <2>4 DEF HandlerReturns
    <2>5. CASE HandlerRaises
      BY <2>5, PopLemma DEF HandlerRaises
    <2>6. CASE AdvanceReturns
      <3>1. Head(calls) \in Call /\ Tail(calls) \in Seq(Call)
        BY <2>6, PopLemma DEF AdvanceReturns
      <3> QED
        BY <3>1, <2>6 DEF AdvanceReturns, Call
    <2>7. CASE UNCHANGED vars
      BY <2>7 DEF vars
    <2> QED
      BY <2>1, <2>2, <2>3, <2>4, <2>5, <2>6, <2>7 DEF Next
  <1> QED
    BY <1>1, <1>2, PTL DEF Spec

-----------------------------------------------------------------------------
(* The inductive invariant.  What an activation popped lies between the    *)
(* clock it was called at and every clock seen since, and precedes all that*)
(* is still pending; an inner activation began no earlier than what the    *)
(* outer ones popped.                                                      *)

CallsInv ==
    /\ \A i \in 1 .. Len(calls) :
          /\ calls[i].began <= calls[i].target
          /\ calls[i].began <= sim_time
          /\ \A e \in calls[i].popped :
                /\ e.fire_at >= calls[i].began
                /\ e.fire_at <= sim_time
                /\ e.event_id < next_event_id
                /\ \A f \in heap : Before(e, f)
    /\ \A i, j \in 1 .. Len(calls) : i < j =>
          /\ calls[j].began <= calls[i].began
          /\ \A e \in calls[j].popped : e.fire_at <= calls[i].began

HeapInv ==
    /\ \A e \in heap : e.fire_at >= sim_time
    /\ \A e \in heap : e.event_id < next_event_id

SchedulerInv == TypeOK /\ HeapInv /\ CallsInv

\* The event at the head of the heap comes before everything left.
LEMMA NextIsFirst ==
    ASSUME NEW e, NEW h, IsNext(e, h)
    PROVE  e \in h /\ \A f \in h \ {e} : Before(e, f)
  BY DEF IsNext

\* The fields of an activation and of an event are numbers.
LEMMA FieldTypes ==
    ASSUME TypeOK
    PROVE  /\ \A e \in heap : e.fire_at \in Nat /\ e.event_id \in Nat
           /\ Len(calls) \in Nat
           /\ \A i \in 1 .. Len(calls) :
                 /\ calls[i] \in Call
                 /\ calls[i].began \in Nat /\ calls[i].target \in Nat
                 /\ \A e \in calls[i].popped :
                        e.fire_at \in Nat /\ e.event_id \in Nat
           /\ sim_time \in Nat /\ next_event_id \in Nat
  <1>1. \A t \in Time : t \in Nat
    BY BoundsAssumption DEF Time
  <1>2. \A e \in Event : e.fire_at \in Nat /\ e.event_id \in Nat
    BY <1>1 DEF Event
  <1>3. Len(calls) \in Nat /\ \A i \in 1 .. Len(calls) : calls[i] \in Call
    BY LenProperties, ElementOfSeq DEF TypeOK
  <1>4. \A c \in Call : /\ c.began \in Nat /\ c.target \in Nat
                       /\ c.popped \subseteq Event
    BY <1>1 DEF Call
  <1> QED
    BY <1>1, <1>2, <1>3, <1>4 DEF TypeOK

\* Every step preserves what is known of the heap and of the activations.
LEMMA InvInductive ==
    ASSUME SchedulerInv, TypeOK', [Next]_vars
    PROVE  SchedulerInv'
  <1> USE DEF SchedulerInv
  <1>0. TypeOK /\ HeapInv /\ CallsInv
    OBVIOUS
  <1>1. ASSUME NEW at \in Time, Schedule(at) PROVE HeapInv' /\ CallsInv'
    <2> DEFINE n == [fire_at |-> at, event_id |-> next_event_id]
    <2>1. at \in Nat /\ at >= sim_time
      BY <1>1, BoundsAssumption DEF Schedule, Time
    <2>2. heap' = heap \cup {n} /\ next_event_id' = next_event_id + 1
          /\ sim_time' = sim_time /\ calls' = calls
      BY <1>1 DEF Schedule
    <2>3. HeapInv'
      BY <2>1, <2>2, FieldTypes DEF HeapInv
    <2>4. ASSUME NEW i \in 1 .. Len(calls), NEW e \in calls[i].popped
          PROVE  Before(e, n) /\ e.event_id < next_event_id + 1
      BY <2>1, FieldTypes DEF CallsInv, Before
    <2> QED
      BY <2>2, <2>3, <2>4 DEF CallsInv
  <1>2. ASSUME NEW target \in Time, AdvanceTo(target)
        PROVE  HeapInv' /\ CallsInv'
    <2> DEFINE n == [target |-> target, began |-> sim_time,
                     popped |-> {}, handling |-> FALSE]
    <2>1. /\ calls' = <<n>> \o calls
          /\ target >= sim_time
          /\ UNCHANGED <<sim_time, heap, next_event_id>>
      BY <1>2 DEF AdvanceTo
    <2>2. n \in Call
      BY DEF Call, TypeOK
    <2>3. /\ Len(calls') = Len(calls) + 1 /\ calls'[1] = n
          /\ \A i \in 2 .. Len(calls) + 1 : calls'[i] = calls[i - 1]
      BY <2>1, <2>2, PushLemma DEF TypeOK
    <2>4. \A i \in 2 .. Len(calls') : i - 1 \in 1 .. Len(calls)
      BY <2>3, FieldTypes
    <2>5. ASSUME NEW i \in 1 .. Len(calls')
          PROVE  /\ calls'[i].began <= calls'[i].target
                 /\ calls'[i].began <= sim_time
                 /\ \A e \in calls'[i].popped :
                       /\ e.fire_at >= calls'[i].began
                       /\ e.fire_at <= sim_time
                       /\ e.event_id < next_event_id
                       /\ \A f \in heap : Before(e, f)
      <3>1. CASE i = 1
        BY <3>1, <2>1, <2>3, FieldTypes
      <3>2. CASE i # 1
        BY <3>2, <2>3, <2>4 DEF CallsInv
      <3> QED
        BY <3>1, <3>2
    <2>6. ASSUME NEW i \in 1 .. Len(calls'), NEW j \in 1 .. Len(calls'), i < j
          PROVE  /\ calls'[j].began <= calls'[i].began
                 /\ \A e \in calls'[j].popped : e.fire_at <= calls'[i].began
      <3>0. j # 1 /\ j - 1 \in 1 .. Len(calls) /\ calls'[j] = calls[j - 1]
        BY <2>6, <2>3, <2>4, FieldTypes
      <3>1. CASE i = 1
        BY <3>0, <3>1, <2>3 DEF CallsInv
      <3>2. CASE i # 1
        <4>1. i - 1 \in 1 .. Len(calls) /\ calls'[i] = calls[i - 1]
              /\ i - 1 < j - 1
          BY <3>2, <2>6, <2>3, <2>4
        <4> QED
          BY <4>1, <3>0 DEF CallsInv
      <3> QED
        BY <3>1, <3>2
    <2> QED
      BY <2>1, <2>5, <2>6 DEF HeapInv, CallsInv

  <1>3. ASSUME NEW e \in heap, NEW handled \in BOOLEAN, FireNext(e, handled)
        PROVE  HeapInv' /\ CallsInv'
    <2> DEFINE n == [Head(calls) EXCEPT !.popped = {e}, !.handling = handled]
    <2>1. /\ calls # <<>> /\ calls' = <<n>> \o Tail(calls)
          /\ heap' = heap \ {e}
          /\ sim_time' = e.fire_at
          /\ next_event_id' = next_event_id
      BY <1>3 DEF FireNext
    <2>2. /\ Head(calls) = calls[1] /\ Head(calls) \in Call
          /\ 1 \in 1 .. Len(calls)
      BY <2>1, PopLemma, UpdateLemma DEF TypeOK
    <2>3. /\ n \in Call
          /\ n.began = calls[1].began /\ n.target = calls[1].target
          /\ n.popped = {e}
      BY <2>2 DEF Call, TypeOK
    <2>4. /\ Len(calls') = Len(calls) /\ calls'[1] = n
          /\ \A i \in 2 .. Len(calls) : calls'[i] = calls[i]
      BY <2>1, <2>3, UpdateLemma DEF TypeOK
    <2> HIDE DEF n
    <2>5. /\ e.fire_at \in Nat /\ e.event_id \in Nat
          /\ e.fire_at >= sim_time /\ e.event_id < next_event_id
          /\ \A f \in heap \ {e} : Before(e, f)
      BY <1>3, FieldTypes DEF HeapInv, FireNext, IsNext
    <2>6. \A f \in heap \ {e} : f.fire_at >= e.fire_at
      BY <2>5, FieldTypes DEF Before
    <2>7. HeapInv'
      BY <2>1, <2>6 DEF HeapInv
    <2>8. ASSUME NEW i \in 1 .. Len(calls')
          PROVE  /\ calls'[i].began <= calls'[i].target
                 /\ calls'[i].began <= sim_time'
                 /\ \A x \in calls'[i].popped :
                       /\ x.fire_at >= calls'[i].began
                       /\ x.fire_at <= sim_time'
                       /\ x.event_id < next_event_id'
                       /\ \A f \in heap' : Before(x, f)
      <3>1. CASE i = 1
        BY <3>1, <2>1, <2>2, <2>3, <2>4, <2>5, FieldTypes DEF CallsInv
      <3>2. CASE i # 1
        <4>1. i \in 1 .. Len(calls) /\ calls'[i] = calls[i]
          BY <3>2, <2>4, FieldTypes
        <4> QED
          BY <4>1, <2>1, <2>5, FieldTypes DEF CallsInv
      <3> QED
        BY <3>1, <3>2
    <2>9. ASSUME NEW i \in 1 .. Len(calls'), NEW j \in 1 .. Len(calls'), i < j
          PROVE  /\ calls'[j].began <= calls'[i].began
                 /\ \A x \in calls'[j].popped : x.fire_at <= calls'[i].began
      <3>1. i \in 1 .. Len(calls) /\ j \in 1 .. Len(calls)
            /\ calls'[j] = calls[j] /\ calls'[i].began = calls[i].began
        BY <2>9, <2>3, <2>4, FieldTypes
      <3> QED
        BY <3>1, <2>9 DEF CallsInv
    <2> QED
      BY <2>7, <2>8, <2>9 DEF CallsInv
  <1>4. CASE HandlerReturns
    <2> DEFINE n == [Head(calls) EXCEPT !.handling = FALSE]
    <2>1. /\ calls # <<>> /\ calls' = <<n>> \o Tail(calls)
          /\ UNCHANGED <<sim_time, heap, next_event_id>>
      BY <1>4 DEF HandlerReturns
    <2>2. /\ Head(calls) = calls[1] /\ Head(calls) \in Call
          /\ 1 \in 1 .. Len(calls)
      BY <2>1, PopLemma, UpdateLemma DEF TypeOK
    <2>3. /\ n \in Call
          /\ n.began = calls[1].began /\ n.target = calls[1].target
          /\ n.popped = calls[1].popped
      BY <2>2 DEF Call
    <2>4. /\ Len(calls') = Len(calls) /\ calls'[1] = n
          /\ \A i \in 2 .. Len(calls) : calls'[i] = calls[i]
      BY <2>1, <2>3, UpdateLemma DEF TypeOK
    <2> HIDE DEF n
    <2>5. \A i \in 1 .. Len(calls') :
             /\ i \in 1 .. Len(calls)
             /\ calls'[i].began = calls[i].began
             /\ calls'[i].target = calls[i].target
             /\ calls'[i].popped = calls[i].popped
      BY <2>3, <2>4, FieldTypes
    <2> QED
      BY <2>1, <2>5 DEF HeapInv, CallsInv
  <1>5. CASE HandlerRaises
    <2>1. /\ calls # <<>> /\ calls' = Tail(calls)
          /\ UNCHANGED <<sim_time, heap, next_event_id>>
      BY <1>5 DEF HandlerRaises
    <2>2. \A i \in 1 .. Len(calls') :
             i + 1 \in 1 .. Len(calls) /\ calls'[i] = calls[i + 1]
      BY <2>1, PopLemma DEF TypeOK
    <2>3. \A i, j \in 1 .. Len(calls') : i < j => i + 1 < j + 1
      BY <2>1, PopLemma DEF TypeOK
    <2> QED
      BY <2>1, <2>2, <2>3 DEF HeapInv, CallsInv
  <1>6. CASE AdvanceReturns
    <2> DEFINE t == Head(calls).target
    <2>1. /\ calls # <<>> /\ calls' = Tail(calls)
          /\ sim_time' = t
          /\ \A e \in heap : ~(e.fire_at <= t)
          /\ UNCHANGED <<heap, next_event_id>>
      BY <1>6 DEF AdvanceReturns, Due
    <2>2. Head(calls) = calls[1] /\ 1 \in 1 .. Len(calls)
      BY <2>1, PopLemma, UpdateLemma DEF TypeOK
    <2>3. \A i \in 1 .. Len(calls') :
             i + 1 \in 1 .. Len(calls) /\ 1 < i + 1
             /\ calls'[i] = calls[i + 1]
      BY <2>1, PopLemma DEF TypeOK
    <2>4. \A i, j \in 1 .. Len(calls') : i < j => i + 1 < j + 1
      BY <2>1, PopLemma DEF TypeOK
    <2>5. HeapInv'
      BY <2>1, <2>2, FieldTypes DEF HeapInv
    <2>6. ASSUME NEW i \in 1 .. Len(calls')
          PROVE  /\ calls'[i].began <= sim_time'
                 /\ \A e \in calls'[i].popped : e.fire_at <= sim_time'
      <3>1. /\ calls[i + 1].began <= calls[1].began
            /\ \A e \in calls[i + 1].popped : e.fire_at <= calls[1].began
            /\ calls[1].began <= calls[1].target
        BY <2>2, <2>3 DEF CallsInv
      <3>2. calls[i + 1].began <= t
        BY <3>1, <2>2, <2>3, FieldTypes
      <3>3. \A e \in calls[i + 1].popped : e.fire_at <= t
        BY <3>1, <2>2, <2>3, FieldTypes
      <3> QED
        BY <3>2, <3>3, <2>1, <2>3
    <2> QED
      BY <2>1, <2>3, <2>4, <2>5, <2>6 DEF CallsInv
  <1>7. CASE UNCHANGED vars
    BY <1>7 DEF vars, HeapInv, CallsInv
  <1>8. HeapInv' /\ CallsInv'
    BY <1>1, <1>2, <1>3, <1>4, <1>5, <1>6, <1>7 DEF Next
  <1> QED
    BY <1>8

\* Initially nothing is pending and nothing is called.
LEMMA InvInit == Init => SchedulerInv
  BY BoundsAssumption DEF Init, SchedulerInv, TypeOK, HeapInv, CallsInv, Time

\* The inductive invariant holds of every behaviour.
THEOREM Invariance == Spec => []SchedulerInv
  <1>1. SchedulerInv /\ TypeOK' /\ [Next]_vars => SchedulerInv'
    BY InvInductive
  <1> QED
    BY InvInit, TypeCorrect, <1>1, PTL DEF Spec

\* No pending event is ever earlier than the clock (clock.py:90-107).
THEOREM NeverOverdue == Spec => []NothingOverdue
  <1>1. SchedulerInv => NothingOverdue
    BY DEF SchedulerInv, HeapInv, NothingOverdue
  <1> QED
    BY <1>1, Invariance, PTL

-----------------------------------------------------------------------------
(* Every event is popped exactly once.                                     *)

\* One step keeps the ids split between the heap and the popped events.
LEMMA ExactlyOnceStep ==
    ASSUME TypeOK, ExactlyOnce, [Next]_vars PROVE ExactlyOnce'
  <1> DEFINE Ids(h) == {x.event_id : x \in h}
  <1>0. next_event_id \in Nat /\ \A x \in heap : x.event_id \in Nat
    BY FieldTypes
  <1>1. ASSUME NEW at \in Time, Schedule(at) PROVE ExactlyOnce'
    <2> DEFINE n == [fire_at |-> at, event_id |-> next_event_id]
    <2>1. /\ heap' = heap \cup {n} /\ next_event_id' = next_event_id + 1
          /\ fired' = fired
      BY <1>1 DEF Schedule
    <2>2. Ids(heap') = Ids(heap) \cup {next_event_id}
      <3>1. n.event_id = next_event_id
        OBVIOUS
      <3> HIDE DEF n
      <3>2. \A k : k \in Ids(heap \cup {n}) <=> k \in Ids(heap) \/ k = n.event_id
        OBVIOUS
      <3> QED
        BY <2>1, <3>1, <3>2
    <2>3. next_event_id \notin 0 .. next_event_id - 1
      BY <1>0
    <2>4. 0 .. next_event_id' - 1 = (0 .. next_event_id - 1) \cup {next_event_id}
      BY <2>1, <1>0
    <2>5. next_event_id \notin Ids(heap) /\ next_event_id \notin fired
      BY <2>3 DEF ExactlyOnce
    <2>6. Ids(heap') \cup fired' = 0 .. next_event_id' - 1
      BY <2>1, <2>2, <2>4 DEF ExactlyOnce
    <2>7. \A x \in heap' : x.event_id \notin fired'
      BY <2>1, <2>5 DEF ExactlyOnce
    <2>8. \A x, y \in heap' : x.event_id = y.event_id => x = y
      BY <2>1, <2>5 DEF ExactlyOnce
    <2> QED
      BY <2>6, <2>7, <2>8 DEF ExactlyOnce
  <1>2. ASSUME NEW e \in heap, NEW handled \in BOOLEAN, FireNext(e, handled)
        PROVE  ExactlyOnce'
    <2>1. /\ heap' = heap \ {e} /\ next_event_id' = next_event_id
          /\ fired' = fired \cup {e.event_id}
      BY <1>2 DEF FireNext
    <2>2. Ids(heap') \cup fired' = Ids(heap) \cup fired
      BY <2>1
    <2>3. \A x \in heap' : x.event_id # e.event_id
      BY <2>1 DEF ExactlyOnce
    <2> QED
      BY <2>1, <2>2, <2>3 DEF ExactlyOnce
  <1>3. CASE UNCHANGED <<heap, next_event_id, fired>>
    BY <1>3 DEF ExactlyOnce
  <1> QED
    BY <1>1, <1>2, <1>3 DEF Next, AdvanceTo, HandlerReturns, HandlerRaises,
                            AdvanceReturns, vars

\* No event is lost, duplicated or fired twice, however the advances nest and
\* whichever handlers raise (clock.py:43-63 and 96-105).
THEOREM EventsFireExactlyOnce == Spec => []ExactlyOnce
  <1>1. Init => ExactlyOnce
    BY DEF Init, ExactlyOnce
  <1>2. TypeOK /\ ExactlyOnce /\ [Next]_vars => ExactlyOnce'
    BY ExactlyOnceStep
  <1> QED
    BY <1>1, <1>2, TypeCorrect, PTL DEF Spec

-----------------------------------------------------------------------------
(* What the caller of an advance can rely on.                              *)

\* The list an advance_to call returns is sorted, nested calls or not
\* (clock.py:95-107).
THEOREM ReturnedListsAreSorted == Spec => ReturnedListSorted
  <1>1. ASSUME SchedulerInv, [Next]_vars
        PROVE  \A e \in heap \ heap' :
                 \A last \in Head(calls).popped : Before(last, e)
    <2> SUFFICES ASSUME NEW e \in heap, e \notin heap',
                        NEW last \in Head(calls).popped
                 PROVE  Before(last, e)
      OBVIOUS
    <2>1. calls # <<>>
      BY <1>1 DEF Next, vars, Schedule, AdvanceTo, FireNext, HandlerReturns,
                  HandlerRaises, AdvanceReturns
    <2>2. Head(calls) = calls[1] /\ 1 \in 1 .. Len(calls)
      BY <1>1, <2>1, PopLemma, UpdateLemma DEF SchedulerInv, TypeOK
    <2> QED
      BY <1>1, <2>2 DEF SchedulerInv, CallsInv
  <1> QED
    BY <1>1, Invariance, PTL DEF Spec, ReturnedListSorted

\* A caller never sees the clock move back across its own call, although the
\* clock does move back inside it (clock.py:90-107).
THEOREM CallersSeeAMonotoneClock == Spec => CallerClockMonotone
  <1>1. ASSUME SchedulerInv, [Next]_vars, Len(calls') < Len(calls)
        PROVE  sim_time' >= Head(calls).began
    <2>1. calls # <<>> /\ calls' = Tail(calls)
          /\ (sim_time' = sim_time \/ sim_time' = Head(calls).target)
      <3>0. Len(calls) \in Nat
        BY <1>1, FieldTypes DEF SchedulerInv
      <3>1. ASSUME NEW at \in Time, Schedule(at) PROVE FALSE
        BY <1>1, <3>0, <3>1 DEF Schedule
      <3>2. ASSUME NEW target \in Time, AdvanceTo(target) PROVE FALSE
        <4>1. [target |-> target, began |-> sim_time, popped |-> {},
               handling |-> FALSE] \in Call
          BY <1>1 DEF Call, SchedulerInv, TypeOK
        <4>2. Len(calls') = Len(calls) + 1
          BY <1>1, <3>2, <4>1, PushLemma DEF SchedulerInv, TypeOK, AdvanceTo
        <4> QED
          BY <1>1, <3>0, <4>2
      <3>3. ASSUME NEW f, calls # <<>>, calls' = <<f>> \o Tail(calls),
                   f \in Call
            PROVE  FALSE
        <4>1. Len(calls') = Len(calls)
          BY <1>1, <3>3, UpdateLemma DEF SchedulerInv, TypeOK
        <4> QED
          BY <1>1, <3>0, <4>1
      <3>4. calls # <<>> => Head(calls) \in Call
        BY <1>1, PopLemma DEF SchedulerInv, TypeOK
      <3>5. ASSUME NEW e \in heap, NEW handled \in BOOLEAN,
                   FireNext(e, handled)
            PROVE  FALSE
        <4>1. [Head(calls) EXCEPT !.popped = {e}, !.handling = handled] \in Call
          BY <1>1, <3>4, <3>5 DEF Call, FireNext, SchedulerInv, TypeOK
        <4> QED
          BY <3>3, <3>5, <4>1 DEF FireNext
      <3>6. CASE HandlerReturns
        <4>1. [Head(calls) EXCEPT !.handling = FALSE] \in Call
          BY <3>4, <3>6 DEF Call, HandlerReturns
        <4> QED
          BY <3>3, <3>6, <4>1 DEF HandlerReturns
      <3>7. CASE HandlerRaises
        BY <3>7 DEF HandlerRaises
      <3>8. CASE AdvanceReturns
        BY <3>8 DEF AdvanceReturns
      <3>9. CASE UNCHANGED vars
        BY <1>1, <3>0, <3>9 DEF vars
      <3> QED
        BY <1>1, <3>1, <3>2, <3>5, <3>6, <3>7, <3>8, <3>9 DEF Next
    <2>2. Head(calls) = calls[1] /\ 1 \in 1 .. Len(calls)
      BY <1>1, <2>1, PopLemma, UpdateLemma DEF SchedulerInv, TypeOK
    <2> QED
      BY <1>1, <2>1, <2>2, FieldTypes DEF SchedulerInv, CallsInv
  <1> QED
    BY <1>1, Invariance, PTL DEF Spec, CallerClockMonotone

-----------------------------------------------------------------------------
(* Without nesting the scheduler implements the agenda.                    *)

\* At most one activation, and the clock has not passed its target.
FlatInv == /\ Len(calls) <= 1
           /\ \A i \in 1 .. Len(calls) : sim_time <= calls[i].target

\* Without nesting every step keeps it so.
LEMMA FlatStep ==
    ASSUME MaxDepth = 1, SchedulerInv, FlatInv, TypeOK', [Next]_vars
    PROVE  FlatInv'
  <1>0. Len(calls) \in Nat /\ calls \in Seq(Call) /\ sim_time \in Nat
    BY FieldTypes DEF SchedulerInv, TypeOK
  <1>1. ASSUME NEW at \in Time, Schedule(at) PROVE FlatInv'
    BY <1>1 DEF Schedule, FlatInv
  <1>2. ASSUME NEW target \in Time, AdvanceTo(target) PROVE FlatInv'
    <2> DEFINE n == [target |-> target, began |-> sim_time,
                     popped |-> {}, handling |-> FALSE]
    <2>1. n \in Call
      BY DEF Call, TypeOK, SchedulerInv
    <2>2. Len(calls') = Len(calls) + 1 /\ calls'[1] = n /\ Len(calls) < 1
      BY <1>0, <1>2, <2>1, PushLemma DEF AdvanceTo
    <2>3. \A i \in 1 .. Len(calls') : i = 1
      BY <1>0, <2>2
    <2> QED
      BY <1>0, <1>2, <2>2, <2>3 DEF AdvanceTo, FlatInv
  <1>3. ASSUME NEW f \in Call, calls # <<>>, calls' = <<f>> \o Tail(calls),
               f.target = Head(calls).target,
               sim_time' <= Head(calls).target \/ sim_time' = sim_time
        PROVE  FlatInv'
    <2>1. Len(calls') = Len(calls) /\ calls'[1] = f /\ 1 \in 1 .. Len(calls)
          /\ Head(calls) = calls[1]
      BY <1>0, <1>3, UpdateLemma, PopLemma
    <2>2. \A i \in 1 .. Len(calls') : i = 1
      BY <1>0, <2>1 DEF FlatInv
    <2> QED
      BY <1>3, <2>1, <2>2 DEF FlatInv
  <1>4. calls # <<>> => Head(calls) \in Call
    BY <1>0, PopLemma
  <1>5. ASSUME NEW e \in heap, NEW handled \in BOOLEAN, FireNext(e, handled)
        PROVE  FlatInv'
    <2> DEFINE n == [Head(calls) EXCEPT !.popped = {e}, !.handling = handled]
    <2>1. n \in Call /\ n.target = Head(calls).target
      BY <1>4, <1>5 DEF Call, FireNext, TypeOK, SchedulerInv
    <2> QED
      BY <1>3, <1>5, <2>1 DEF FireNext
  <1>6. CASE HandlerReturns
    <2> DEFINE n == [Head(calls) EXCEPT !.handling = FALSE]
    <2>1. n \in Call /\ n.target = Head(calls).target
      BY <1>4, <1>6 DEF Call, HandlerReturns
    <2> QED
      BY <1>3, <1>6, <2>1 DEF HandlerReturns
  <1>7. ASSUME calls # <<>>, calls' = Tail(calls) PROVE FlatInv'
    <2>1. Len(calls') = Len(calls) - 1
      BY <1>0, <1>7, PopLemma
    <2>2. 1 .. Len(calls') = {}
      BY <1>0, <2>1 DEF FlatInv
    <2> QED
      BY <1>0, <2>1, <2>2 DEF FlatInv
  <1>8. CASE UNCHANGED vars
    BY <1>8 DEF vars, FlatInv
  <1> QED
    BY <1>1, <1>2, <1>5, <1>6, <1>7, <1>8
    DEF Next, HandlerRaises, AdvanceReturns

\* A step of the scheduler is one of the agenda, or sets the clock back.
LEMMA AgendaStep ==
    SchedulerInv /\ ExactlyOnce /\ [Next]_vars => [A!RewindNext]_(A!AgendaVars)
  <1> SUFFICES ASSUME SchedulerInv, ExactlyOnce, [Next]_vars
               PROVE  [A!RewindNext]_(A!AgendaVars)
    OBVIOUS
  <1>1. ASSUME NEW at \in Time, Schedule(at) PROVE A!RewindNext
    <2> DEFINE n == [fire_at |-> at, event_id |-> next_event_id]
    <2>1. next_event_id \in 0 .. MaxEvents
      BY <1>1, BoundsAssumption DEF Schedule, SchedulerInv, TypeOK
    <2>2. \A k \in 0 .. next_event_id - 1 : k # next_event_id
      BY DEF SchedulerInv, TypeOK
    <2>3. next_event_id \notin fired
          /\ \A f \in heap : f.event_id # next_event_id
      BY <2>2 DEF ExactlyOnce
    <2>4. A!Book(n)
      BY <1>1, <2>3 DEF Schedule, A!Book
    <2> QED
      BY <2>1, <2>4 DEF A!AgendaNext, A!RewindNext
  <1>2. ASSUME NEW e \in heap, NEW handled \in BOOLEAN, FireNext(e, handled)
        PROVE  A!RewindNext
    <2>1. A!Keep(e)
      BY <1>2 DEF FireNext, A!Keep, A!IsNext, IsNext, A!Before, Before,
                  SchedulerInv, HeapInv
    <2> QED
      BY <2>1 DEF A!AgendaNext, A!RewindNext
  <1>3. CASE AdvanceReturns
    <2> DEFINE target == Head(calls).target
    <2>1. Head(calls) \in Call
      BY <1>3, PopLemma, UpdateLemma DEF SchedulerInv, TypeOK, AdvanceReturns
    <2>2. target \in Time
      BY <2>1 DEF Call
    <2>3. CASE target >= sim_time
      <3>1. A!Pass(target)
        BY <1>3, <2>3 DEF AdvanceReturns, A!Pass, A!Due, Due
      <3> QED
        BY <2>2, <3>1 DEF A!AgendaNext, A!RewindNext
    <2>4. CASE target < sim_time
      <3>1. A!Rewind(target)
        BY <1>3, <2>4 DEF AdvanceReturns, A!Rewind
      <3> QED
        BY <2>2, <3>1 DEF A!RewindNext
    <2>5. target \in Nat /\ sim_time \in Nat
      BY <2>2, BoundsAssumption, FieldTypes DEF SchedulerInv, Time
    <2> QED
      BY <2>3, <2>4, <2>5
  <1> QED
    BY <1>1, <1>2, <1>3
    DEF Next, vars, AdvanceTo, HandlerReturns, HandlerRaises, A!AgendaVars

\* At any depth: initially and at every step the scheduler does what the agenda
\* allows, or sets the clock back.
THEOREM SchedulerIsAnAgenda == Spec => ImplementsAgenda
  <1>1. Init => A!AgendaInit
    BY DEF Init, A!AgendaInit
  <1>2. SchedulerInv /\ ExactlyOnce /\ [Next]_vars => [A!RewindNext]_(A!AgendaVars)
    BY AgendaStep
  <1> QED
    BY <1>1, <1>2, Invariance, EventsFireExactlyOnce, PTL
    DEF Spec, ImplementsAgenda, A!RewindSpec

\* As long as no handler advances the clock it is never set back, and the
\* scheduler keeps its promise to the letter.
THEOREM FlatSchedulerIsAnAgenda == MaxDepth = 1 => (Spec => A!Spec)
  <1> SUFFICES ASSUME MaxDepth = 1 PROVE Spec => A!Spec
    OBVIOUS
  <1>1. Init => FlatInv
    BY DEF Init, FlatInv
  <1>2. SchedulerInv /\ FlatInv /\ TypeOK' /\ [Next]_vars => FlatInv'
    BY FlatStep
  <1>3. Spec => [](SchedulerInv /\ FlatInv)
    BY <1>1, <1>2, TypeCorrect, Invariance, PTL DEF Spec
  <1>4. Init => A!AgendaInit
    BY DEF Init, A!AgendaInit
  <1>5. ASSUME SchedulerInv, FlatInv, [Next]_vars PROVE ~(sim_time' < sim_time)
    <2>1. sim_time \in Nat
      BY <1>5, FieldTypes DEF SchedulerInv
    <2>2. ASSUME NEW e \in heap, NEW handled \in BOOLEAN, FireNext(e, handled)
          PROVE  ~(sim_time' < sim_time)
      <3>1. e.fire_at \in Nat /\ e.fire_at >= sim_time
        BY <1>5, FieldTypes DEF SchedulerInv, HeapInv
      <3> QED
        BY <2>1, <2>2, <3>1 DEF FireNext
    <2>3. CASE AdvanceReturns
      <3>1. Head(calls) = calls[1] /\ 1 \in 1 .. Len(calls)
            /\ Head(calls) \in Call
        BY <1>5, <2>3, PopLemma, UpdateLemma
        DEF SchedulerInv, TypeOK, AdvanceReturns
      <3>2. sim_time <= Head(calls).target /\ Head(calls).target \in Nat
        BY <1>5, <3>1, FieldTypes DEF FlatInv, SchedulerInv
      <3> QED
        BY <2>1, <2>3, <3>2 DEF AdvanceReturns
    <2>4. CASE UNCHANGED sim_time
      BY <2>1, <2>4
    <2>5. ASSUME NEW t \in Time, Schedule(t) \/ AdvanceTo(t)
          PROVE  UNCHANGED sim_time
      BY <2>5 DEF Schedule, AdvanceTo
    <2>6. HandlerReturns \/ HandlerRaises \/ UNCHANGED vars => UNCHANGED sim_time
      BY DEF HandlerReturns, HandlerRaises, vars
    <2> QED
      BY <1>5, <2>2, <2>3, <2>4, <2>5, <2>6 DEF Next
  <1>6. SchedulerInv /\ FlatInv /\ ExactlyOnce /\ [Next]_vars
            => [A!AgendaNext]_(A!AgendaVars)
    BY <1>5, AgendaStep DEF A!RewindNext, A!Rewind, A!AgendaVars
  <1> QED
    BY <1>3, <1>4, <1>6, EventsFireExactlyOnce, PTL DEF Spec, A!Spec
=============================================================================
