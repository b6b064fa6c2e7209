------------------------------- MODULE Session -------------------------------
(***************************************************************************)
(* A run as its recorder sees it: the agent's turns, the NPCs' calls and   *)
(* the scenario's scripted messages that fall between them or inside their *)
(* minutes, and the files RunLogger leaves (src/sim/logging/               *)
(* run_logger.py), with the process dying at any moment.  When a tick      *)
(* opens and in which order events fire is the subject of Simulation; here *)
(* a decision may come at any of a few minutes.                            *)
(***************************************************************************)
EXTENDS Office

CONSTANTS End,        \* end_sim_time
          Wakeups,    \* minutes at which a wait for the next poll may end
          Overrun,    \* how far a nested advance may run past its caller's
          HoistLimit, \* rows above which a result passes the size threshold
          Plots       \* what may be called in a run, see Plot

VARIABLES
    plot,       \* the index of the plot of this run
    clock,      \* scheduler.sim_time
    phase,      \* where the process stands, see Phases
    flight,     \* the call being dispatched
    turns,      \* AgentDriver.turns
    arrived,    \* the NPC calls and scripts of the plot that have happened
    npc_clock,  \* the minute of the last of them: they come in order
    turns_jsonl, files, snapshot, run_json   \* what is on disk

runVars == <<plot, clock, phase, flight, turns, arrived, npc_clock>>
diskVars == <<turns_jsonl, files, snapshot, run_json>>
vars == <<officeVars, runVars, diskVars>>

\* "waiting": meetings.attend advances to the start of its meeting.
Phases == {"idle", "waiting", "elapsing", "finalizing", "closed", "crashed"}

\* An NPC's call or a scripted message; a late one comes inside the cost of
\* another NPC's call, after the minute its caller's advance was to end at.
Plot(p) ==
    /\ p.max_turns \in Nat
    /\ \A c \in p.calls : WellFormed(c)
    /\ \A a \in p.arrivals \cup p.scripts :
          /\ a.who \in Person \ {Agent} /\ a.late \in BOOLEAN
          /\ WellFormed(a.call)

ASSUME SessionAssumption ==
    /\ End \in Nat /\ Wakeups \subseteq Nat /\ Overrun \in Nat \ {0}
    /\ HoistLimit \in Nat
    /\ \A i \in DOMAIN Plots : Plot(Plots[i])

NoFlight == [call |-> Blank, ok |-> FALSE, before |-> 0, until |-> 0,
             shown |-> Nothing]

\* What RunLogger.finalize writes, but for index.json, SCHEMA.md and
\* transcript.md, which nothing reads back.  The scenario is copied in whatever
\* order its directory is listed.
Artifacts == {"world_final.json", "run.json", "eval.yaml", "scenario.yaml"}
WrittenBefore(f) ==
    CASE f = "world_final.json" -> {}
      [] f = "run.json" -> {"world_final.json"}
      [] OTHER -> {"run.json"}

\* What evaluate_run opens without asking whether it is there.
Gradable == {"run.json", "eval.yaml", "scenario.yaml", "world_final.json"}
                \subseteq files

-----------------------------------------------------------------------------
\* ToolRegistry.dispatch: what the handler refuses still costs its price.
Attending(c) == c.tool = "meetings.attend" /\ Accepts(Agent, c, clock)

\* Slip: the handler does not wait for the meeting to start.
EndsAtOnce(c) ==
    IF ~Accepts(Agent, c, clock) THEN clock + DeclaredCost(c)
    ELSE CASE c.tool = "wait.until" -> c.end
           [] c.tool = "idle.until" -> clock + 1
           [] c.tool = "meetings.attend" -> clock
           [] OTHER -> clock + DeclaredCost(c)

Ends(c) ==
    IF ~Accepts(Agent, c, clock) THEN clock + DeclaredCost(c)
    ELSE CASE c.tool = "wait.until" -> c.end
           [] c.tool = "idle.until" -> clock + 1
           [] c.tool = "meetings.attend" ->
                Max2(clock, calendar[c.event].start)
           [] OTHER -> clock + DeclaredCost(c)

TurnsLeft == Len(turns) < Plots[plot].max_turns

\* A decision of the agent.  The handler acts at once, on the World of this
\* minute, and the minutes are paid afterwards.
Begin(c) ==
    /\ phase = "idle" /\ clock < End /\ TurnsLeft
    /\ flight' = [call |-> c, ok |-> Accepts(Agent, c, clock),
                  before |-> clock, until |-> Ends(c),
                  shown |-> IF Accepts(Agent, c, clock)
                            THEN Result(Agent, c) ELSE Nothing]
    /\ phase' = IF Attending(c) THEN "waiting" ELSE "elapsing"
    /\ IF Accepts(Agent, c, clock) /\ ~Attending(c)
       THEN Handles(Agent, c, clock)
       ELSE UNCHANGED officeVars
    /\ UNCHANGED <<plot, clock, turns, arrived, npc_clock, diskVars>>

\* meetings.attend has waited for the start: the event is marked, the meeting
\* held, and the clock goes on to its end.
MeetingHappens ==
    LET event == calendar[flight.call.event] IN
    /\ phase = "waiting"
    /\ \E s \in SUBSET (event.attendees \ {Agent}) :
          Meets(flight.call.event, s, flight.until)
    /\ clock' = flight.until
    /\ flight' = [flight EXCEPT !.until = Max2(@, event.end)]
    /\ phase' = "elapsing"
    /\ UNCHANGED <<plot, turns, arrived, npc_clock, seen, diskVars>>

\* Slip: before and after are swapped.
TurnOfSwapped(f) ==
    [call |-> f.call, ok |-> f.ok, before |-> f.until, after |-> f.before,
     cost |-> f.until - f.before, shown |-> f.shown]

\* The dispatch returns: AgentDriver._run_tick appends the turn and hands it
\* to RunLogger.log_turn.  On success the cost is what the clock moved by, on
\* failure what was declared.
TurnOf(f) ==
    [call |-> f.call, ok |-> f.ok, before |-> f.before, after |-> f.until,
     cost |-> IF f.ok THEN f.until - f.before ELSE DeclaredCost(f.call),
     shown |-> f.shown]

\* RunLogger._hoist: a long result is written to a file of its own, and the
\* line keeps a reference.
Logged(t) ==
    IF Cardinality(t.shown.rows) > HoistLimit
    THEN [t EXCEPT !.shown = Nothing] ELSE t

\* Slip: only what succeeded is logged.
ReturnLogsSuccess ==
    /\ phase = "elapsing"
    /\ turns' = Append(turns, TurnOf(flight))
    /\ turns_jsonl' = IF flight.ok THEN Append(turns_jsonl, Logged(TurnOf(flight)))
                      ELSE turns_jsonl
    /\ clock' = flight.until
    /\ flight' = NoFlight /\ phase' = "idle"
    /\ UNCHANGED <<officeVars, plot, arrived, npc_clock, files, snapshot, run_json>>

Return ==
    /\ phase = "elapsing"
    /\ turns' = Append(turns, TurnOf(flight))
    /\ turns_jsonl' = Append(turns_jsonl, Logged(TurnOf(flight)))
    /\ clock' = flight.until
    /\ flight' = NoFlight /\ phase' = "idle"
    /\ UNCHANGED <<officeVars, plot, arrived, npc_clock, files, snapshot, run_json>>

\* An event of the heap comes up at minute m: within the minutes of the agent's
\* call, at their start or end, while the driver waits, or, late, after the
\* minute at which the advance that is under way will leave the clock.
Target == IF phase = "idle" THEN clock ELSE flight.until
Minutes(a) == IF a.late THEN {Target + Overrun} ELSE {clock, Target}
ComesUp(a, m) ==
    /\ IF phase = "idle" THEN TurnsLeft
       ELSE phase \in {"waiting", "elapsing"} /\ flight.before < Target
    /\ a \notin arrived /\ npc_clock <= m
    /\ arrived' = arrived \cup {a} /\ npc_clock' = m
    /\ clock' = IF a.late THEN Target ELSE m
    /\ UNCHANGED <<plot, phase, flight, turns, diskVars>>

\* An NPC is polled and makes a call.
Arrive(a) ==
    \E m \in Minutes(a) : ComesUp(a, m) /\ Handles(a.who, a.call, m)

\* A message of the scenario's events.yaml falls due.
Fires(s) ==
    \E m \in Minutes(s) : ComesUp(s, m) /\ Scripted(s.who, s.call, m)

\* The driver's wait for the next poll of the agent ends.
ClockMoves(t) ==
    /\ phase = "idle" /\ TurnsLeft /\ clock < t /\ t <= End
    /\ clock' = t
    /\ UNCHANGED <<officeVars, plot, phase, flight, turns, arrived, npc_clock, diskVars>>

\* AgentDriver.run returns to _cmd_run, which finalizes the log.
RunEnds ==
    /\ phase = "idle"
    /\ ~TurnsLeft \/ clock >= End
    /\ phase' = "finalizing"
    /\ UNCHANGED <<officeVars, plot, clock, flight, turns, arrived, npc_clock, diskVars>>

\* Slip: the fallback for callers that pass none.
FinalSimTimeOfTurns == IF turns_jsonl = <<>> THEN 0 ELSE Last(turns_jsonl).after

\* The time run.json carries: the scheduler's, not the last turn's.
FinalSimTime == clock

Finalize(f) ==
    /\ phase = "finalizing" /\ f \notin files /\ WrittenBefore(f) \subseteq files
    /\ files' = files \cup {f}
    /\ snapshot' = IF f = "world_final.json" THEN {World} ELSE snapshot
    /\ run_json' = IF f = "run.json" THEN {FinalSimTime} ELSE run_json
    /\ UNCHANGED <<officeVars, runVars, turns_jsonl>>

Close ==
    /\ phase = "finalizing" /\ files = Artifacts
    /\ phase' = "closed"
    /\ UNCHANGED <<officeVars, plot, clock, flight, turns, arrived, npc_clock, diskVars>>

\* The process dies, or something raises out of the driver: _cmd_run catches
\* nothing, so nothing is finalized, and the lines written so far were flushed.
Crash ==
    /\ phase \notin {"closed", "crashed"}
    /\ phase' = "crashed"
    /\ UNCHANGED <<officeVars, plot, clock, flight, turns, arrived, npc_clock, diskVars>>

Init ==
    /\ OfficeInit
    /\ plot \in DOMAIN Plots
    /\ clock = 0 /\ phase = "idle" /\ flight = NoFlight
    /\ turns = <<>> /\ arrived = {} /\ npc_clock = 0
    /\ turns_jsonl = <<>> /\ files = {} /\ snapshot = {} /\ run_json = {}

Next ==
    \/ \E c \in Plots[plot].calls : Begin(c)
    \/ MeetingHappens
    \/ Return
    \/ \E a \in Plots[plot].arrivals : Arrive(a)
    \/ \E s \in Plots[plot].scripts : Fires(s)
    \/ \E t \in Wakeups : ClockMoves(t)
    \/ RunEnds
    \/ \E f \in Artifacts : Finalize(f)
    \/ Close
    \/ Crash

Spec == Init /\ [][Next]_vars
=============================================================================
