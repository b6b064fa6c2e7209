------------------------------ MODULE Scheduler ------------------------------
(***************************************************************************)
(* The discrete-event scheduler of src/sim/scheduler/clock.py.             *)
(*                                                                         *)
(* advance_to is re-entrant: a handler that runs inside the drain loop may *)
(* itself schedule and advance (an NPC poll handler dispatches a tool, and *)
(* the tool's cost advances the clock).  The Python call stack is the      *)
(* sequence calls, innermost activation first; user code - a handler, or   *)
(* the caller of the outermost advance_to - is in control when calls is    *)
(* empty or when the innermost activation has handed an event to a handler.*)
(***************************************************************************)
EXTENDS EventQueue, Sequences, FiniteSets

CONSTANTS MaxTime,      \* bound on every fire time and advance target
          MaxEvents,    \* bound on the number of events ever scheduled
          MaxDepth      \* bound on nested activations of advance_to; with 1
                        \* no handler advances the clock

ASSUME BoundsAssumption ==
    MaxTime \in Nat /\ MaxEvents \in Nat /\ MaxDepth \in Nat \ {0}

VARIABLES sim_time,       \* Scheduler.sim_time
          heap,           \* Scheduler._heap, as a set of events
          next_event_id,  \* Scheduler._next_event_id
          calls,          \* active advance_to calls, innermost first
          fired           \* history: the keys of all events ever popped

vars == <<sim_time, heap, next_event_id, calls, fired>>

Time == 0 .. MaxTime
Event == [fire_at : Time, event_id : Nat]

\* One activation: its argument, the clock when it was called, the event it
\* popped last, if any (its list `fired` ends with it), and whether that
\* event's handler is still running.
Call == [target : Time, began : Time, popped : SUBSET Event,
         handling : BOOLEAN]

UserInControl == calls # <<>> => Head(calls).handling

Init ==
    /\ sim_time = 0
    /\ heap = {}
    /\ next_event_id = 0
    /\ calls = <<>>
    /\ fired = {}

\* Slip: schedule accepts a time in the past.
ScheduleInThePast(at) ==
    /\ UserInControl /\ next_event_id < MaxEvents
    /\ heap' = heap \cup {[fire_at |-> at, event_id |-> next_event_id]}
    /\ next_event_id' = next_event_id + 1
    /\ UNCHANGED <<sim_time, calls, fired>>

\* Slip: schedule draws the id from the heap's length, not from a counter.
ScheduleReusesIds(at) ==
    /\ UserInControl /\ at >= sim_time /\ next_event_id < MaxEvents
    /\ heap' = heap \cup {[fire_at |-> at, event_id |-> Cardinality(heap)]}
    /\ next_event_id' = next_event_id + 1
    /\ UNCHANGED <<sim_time, calls, fired>>

\* schedule(fire_at, ...): refused (ValueError) for a time in the past.
Schedule(at) ==
    /\ UserInControl
    /\ at >= sim_time
    /\ next_event_id < MaxEvents
    /\ heap' = heap \cup {[fire_at |-> at, event_id |-> next_event_id]}
    /\ next_event_id' = next_event_id + 1
    /\ UNCHANGED <<sim_time, calls, fired>>

\* Slip: advance_to accepts a target before the clock.
AdvanceBackwards(target) ==
    /\ UserInControl /\ Len(calls) < MaxDepth
    /\ calls' = <<[target |-> target, began |-> sim_time,
                   popped |-> {}, handling |-> FALSE]>> \o calls
    /\ UNCHANGED <<sim_time, heap, next_event_id, fired>>

\* advance(minutes), _drain_due() and advance_to(target) enter the loop; a
\* target before the clock is refused (ValueError).
AdvanceTo(target) ==
    /\ UserInControl
    /\ target >= sim_time
    /\ Len(calls) < MaxDepth
    /\ calls' = <<[target |-> target, began |-> sim_time,
                   popped |-> {}, handling |-> FALSE]>> \o calls
    /\ UNCHANGED <<sim_time, heap, next_event_id, fired>>

\* Slip: the loop takes any due entry, as from a plain list.
FireAnyDue(e, handled) ==
    /\ calls # <<>> /\ ~Head(calls).handling
    /\ e.fire_at <= Head(calls).target
    /\ heap' = heap \ {e} /\ sim_time' = e.fire_at
    /\ fired' = fired \cup {e.event_id}
    /\ calls' = <<[Head(calls) EXCEPT !.popped = {e}, !.handling = handled]>>
                \o Tail(calls)
    /\ UNCHANGED next_event_id

\* One iteration of the drain loop: pop the head of the heap, step the clock
\* to it and call its handler.  `handled` is FALSE when neither the event nor
\* the fallback table has one: the event is then gone without an effect.
FireNext(e, handled) ==
    /\ calls # <<>> /\ ~Head(calls).handling
    /\ IsNext(e, heap)
    /\ e.fire_at <= Head(calls).target
    /\ heap' = heap \ {e}
    /\ sim_time' = e.fire_at
    /\ fired' = fired \cup {e.event_id}
    /\ calls' = <<[Head(calls) EXCEPT !.popped = {e}, !.handling = handled]>>
                \o Tail(calls)
    /\ UNCHANGED next_event_id

\* The handler of the event popped last returns to the loop.
HandlerReturns ==
    /\ calls # <<>> /\ Head(calls).handling
    /\ calls' = <<[Head(calls) EXCEPT !.handling = FALSE]>> \o Tail(calls)
    /\ UNCHANGED <<sim_time, heap, next_event_id, fired>>

\* The handler raises: the exception leaves advance_to before its last
\* assignment to sim_time, and the code that called it is in control.
HandlerRaises ==
    /\ calls # <<>> /\ Head(calls).handling
    /\ calls' = Tail(calls)
    /\ UNCHANGED <<sim_time, heap, next_event_id, fired>>

\* Slip: the clock ends one minute after the target.
AdvanceReturnsLate ==
    /\ calls # <<>> /\ ~Head(calls).handling
    /\ Due(heap, Head(calls).target) = {}
    /\ sim_time' = Head(calls).target + 1
    /\ calls' = Tail(calls)
    /\ UNCHANGED <<heap, next_event_id, fired>>

\* The loop ends: nothing is due, the clock takes the target.
AdvanceReturns ==
    /\ calls # <<>> /\ ~Head(calls).handling
    /\ Due(heap, Head(calls).target) = {}
    /\ sim_time' = Head(calls).target
    /\ calls' = Tail(calls)
    /\ UNCHANGED <<heap, next_event_id, fired>>

Next ==
    \/ \E at \in Time : Schedule(at)
    \/ \E target \in Time : AdvanceTo(target)
    \/ \E e \in heap, handled \in BOOLEAN : FireNext(e, handled)
    \/ HandlerReturns
    \/ HandlerRaises
    \/ AdvanceReturns

Spec == Init /\ [][Next]_vars

-----------------------------------------------------------------------------
\* Types.
TypeOK ==
    /\ sim_time \in Time
    /\ heap \subseteq Event
    /\ next_event_id \in Nat
    /\ calls \in Seq(Call)
    /\ fired \subseteq Nat

\* Whatever the nesting, the aborts and the backward steps of the clock, no
\* pending event is ever earlier than the clock: an event is never late
\* (clock.py:18-28, "all events with fire_at <= sim_time drain in order").
NothingOverdue == \A e \in heap : e.fire_at >= sim_time

\* No event is lost, duplicated or fired twice: the ids handed out so far are
\* split between the heap and the popped ones, one heap entry per id.
ExactlyOnce ==
    /\ {e.event_id : e \in heap} \cup fired = 0 .. next_event_id - 1
    /\ \A e \in heap : e.event_id \notin fired
    /\ \A e, f \in heap : e.event_id = f.event_id => e = f

\* The list an advance_to call returns is sorted by (fire_at, event_id), even
\* when handlers nest further calls that drain events of their own: what an
\* activation pops comes after what it popped before.
ReturnedListSorted ==
    [][\A e \in heap \ heap' :
            \A last \in Head(calls).popped : Before(last, e)]_vars

\* Code that calls advance_to never sees the clock move back across its own
\* call, whether the call returns or raises.
CallerClockMonotone ==
    [][Len(calls') < Len(calls) => sim_time' >= Head(calls).began]_vars

A == INSTANCE Agenda WITH Times <- Time, Ids <- 0 .. MaxEvents,
                          now <- sim_time, pending <- heap, kept <- fired

\* However deep handlers advance the clock, the scheduler implements the agenda
\* its docstrings describe but for the clock being set back when an outer
\* advance returns: every entry is still the first of all pending ones and not
\* late when it is kept, and time never passes over one that is due, neither
\* before nor after the clock was set back (clock.py:18-28 and 81-107,
\* event.py:17-24).
ImplementsAgenda == A!RewindSpec
=============================================================================
