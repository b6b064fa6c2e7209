----------------------------- MODULE EventQueue -----------------------------
(***************************************************************************)
(* The order of the scheduler's heap (src/sim/scheduler/event.py): events  *)
(* compare by (fire_at, event_id) and by nothing else, so ties on the fire *)
(* time resolve by insertion.                                              *)
(***************************************************************************)
EXTENDS Naturals

\* The dataclass order of Event: the other fields are declared compare=False.
Before(e, f) ==
    \/ e.fire_at < f.fire_at
    \/ e.fire_at = f.fire_at /\ e.event_id < f.event_id

\* e is heap[0]: the entry heapq.heappop takes.
IsNext(e, heap) == e \in heap /\ \A f \in heap \ {e} : Before(e, f)

\* The entries an advance_to(target) loop still has to drain.
Due(heap, target) == {e \in heap : e.fire_at <= target}
=============================================================================
