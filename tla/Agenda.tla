------------------------------- MODULE Agenda -------------------------------
(***************************************************************************)
(* What the scheduler promises (the docstrings of clock.py and event.py):  *)
(* an agenda whose clock only moves forward and whose entries are kept in  *)
(* (fire_at, event_id) order, each exactly once and exactly on time; and   *)
(* what is left of the promise when those who keep entries let time pass   *)
(* themselves.                                                             *)
(***************************************************************************)
EXTENDS EventQueue

CONSTANTS Times,    \* times the clock can show and entries can be booked for
          Ids       \* ids of entries

VARIABLES now,      \* the clock
          pending,  \* entries booked and not kept yet
          kept      \* ids of the entries kept

AgendaVars == <<now, pending, kept>>

AgendaInit == now = 0 /\ pending = {} /\ kept = {}

\* A new entry: not in the past, under an id never used before.
Book(e) ==
    /\ e.fire_at >= now
    /\ e.event_id \notin kept
    /\ \A f \in pending : f.event_id # e.event_id
    /\ pending' = pending \cup {e}
    /\ UNCHANGED <<now, kept>>

\* The first entry is kept at its own time.
Keep(e) ==
    /\ IsNext(e, pending)
    /\ e.fire_at >= now
    /\ now' = e.fire_at
    /\ pending' = pending \ {e}
    /\ kept' = kept \cup {e.event_id}

\* Time passes up to t when no entry is due by then.
Pass(t) ==
    /\ t >= now
    /\ Due(pending, t) = {}
    /\ now' = t
    /\ UNCHANGED <<pending, kept>>

AgendaNext ==
    \/ \E t \in Times, id \in Ids : Book([fire_at |-> t, event_id |-> id])
    \/ \E e \in pending : Keep(e)
    \/ \E t \in Times : Pass(t)

Spec == AgendaInit /\ [][AgendaNext]_AgendaVars

\* The clock is set back to t; the entries stay as they are.
Rewind(t) ==
    /\ t < now
    /\ now' = t
    /\ UNCHANGED <<pending, kept>>

RewindNext == AgendaNext \/ \E t \in Times : Rewind(t)

RewindSpec == AgendaInit /\ [][RewindNext]_AgendaVars
=============================================================================
