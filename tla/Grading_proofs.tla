--------------------------- MODULE Grading_proofs ---------------------------
(***************************************************************************)
(* Proofs about recordings, for any people, calls, arrivals and meetings,  *)
(* any end of time and any moment at which the process dies.               *)
(***************************************************************************)
EXTENDS Grading, Extrema, SequenceTheorems, FiniteSetTheorems, TLAPS

\* A finite sequence, of whatever.
IsSeq(s) == s \in Seq(Rows(s))

\* Appending to one.
LEMMA AppendRows ==
    ASSUME NEW s, NEW e, IsSeq(s)
    PROVE  /\ IsSeq(Append(s, e))
           /\ Len(s) \in Nat /\ Len(Append(s, e)) = Len(s) + 1
           /\ DOMAIN s = 1 .. Len(s)
           /\ DOMAIN Append(s, e) = 1 .. (Len(s) + 1)
           /\ \A i \in DOMAIN s : Append(s, e)[i] = s[i]
           /\ Append(s, e)[Len(s) + 1] = e
           /\ s \o <<e>> = Append(s, e)
  <1>1. s \in Seq(Rows(s) \cup {e})
    BY SeqMonotonic DEF IsSeq, Rows
  <1>2. Append(s, e) \in Seq(Rows(s) \cup {e})
    BY <1>1
  <1>3. /\ Len(s) \in Nat /\ Len(Append(s, e)) = Len(s) + 1
        /\ DOMAIN s = 1 .. Len(s)
        /\ DOMAIN Append(s, e) = 1 .. (Len(s) + 1)
        /\ \A i \in DOMAIN s : Append(s, e)[i] = s[i]
        /\ Append(s, e)[Len(s) + 1] = e
    BY <1>1, AppendProperties
  <1>4. \A i \in 1 .. Len(Append(s, e)) : Append(s, e)[i] \in Rows(Append(s, e))
    BY <1>2 DEF Rows
  <1>5. Append(s, e) \in [1 .. Len(Append(s, e)) -> Rows(Append(s, e))]
    BY <1>2, <1>4, LenProperties
  <1>6. Append(s, e) \in Seq(Rows(Append(s, e)))
    <2>1. Len(Append(s, e)) \in Nat
      BY <1>2
    <2> QED
      BY <1>5, <2>1, SeqDef
  <1>7. s \o <<e>> = Append(s, e)
    BY <1>1, AppendIsConcat
  <1> QED
    BY <1>3, <1>6, <1>7 DEF IsSeq

-----------------------------------------------------------------------------
(* The inductive invariant.                                                *)

\* The run itself.
Running ==
    /\ plot \in DOMAIN Plots /\ clock \in Nat
    /\ phase \in {"waiting", "elapsing"} =>
          "until" \in DOMAIN flight /\ flight.until \in Nat
    /\ IsSeq(turns)

\* What is on disk follows what happened; nothing happens once the log is
\* being finalized, and the last turn ended no later than the clock.
OnDisk ==
    /\ turns_jsonl = [i \in DOMAIN turns |-> Logged(turns[i])]
    /\ phase \in {"idle", "finalizing", "closed"} \/ files # {} =>
          /\ flight = NoFlight
          /\ turns # <<>> => turns_jsonl[Len(turns)].after \in 0 .. clock
    /\ phase \in {"finalizing", "closed"} \/ files # {} =>
          ~TurnsLeft \/ clock >= End
    /\ files # {} => phase \in {"finalizing", "closed", "crashed"}
    /\ "world_final.json" \in files => snapshot = {World}
    /\ "run.json" \in files => run_json = {clock}

\* The calendar, and the meeting that is waited for.
Planned(id) ==
    /\ calendar[id] \in CalendarEvent
    /\ calendar[id].start <= calendar[id].end
Meetings ==
    /\ \A id \in DOMAIN calendar : Planned(id)
    /\ DOMAIN transcripts \subseteq DOMAIN calendar
    /\ \A id \in DOMAIN transcripts : calendar[id].attended
    /\ MeetingsOnRecord
    /\ phase = "waiting" =>
          /\ flight.call.event \in DOMAIN calendar
          /\ calendar[flight.call.event].start <= flight.until
          /\ flight.until <= calendar[flight.call.event].end

-----------------------------------------------------------------------------
(* Calls.                                                                  *)

\* What the others do, by calls of their own or by the scenario's script.
Others == Plots[plot].arrivals \cup Plots[plot].scripts
Happens(a) == Arrive(a) \/ Fires(a)
Deed(p, c, now) == Handles(p, c, now) \/ Scripted(p, c, now)

LEMMA CallsAreWellFormed ==
    ASSUME plot \in DOMAIN Plots
    PROVE  /\ \A c \in Plots[plot].calls : WellFormed(c)
           /\ \A a \in Others :
                 a.who \in Person \ {Agent} /\ a.late \in BOOLEAN /\ WellFormed(a.call)
  BY SessionAssumption DEF Plot, Others

\* It happens while the agent's call is under way or waited for, and moves the
\* clock only within that call.
LEMMA OthersAct ==
    ASSUME Running, NEW a \in Others, Happens(a)
    PROVE  /\ a.who \in Person \ {Agent} /\ WellFormed(a.call)
           /\ \E m \in Nat : Deed(a.who, a.call, m)
           /\ UNCHANGED <<plot, phase, flight, turns, diskVars>>
           /\ phase \in {"idle", "waiting", "elapsing"}
           /\ phase = "idle" => clock' = clock
           /\ clock' \in Nat /\ npc_clock' \in Nat
  <1>1. PICK m \in Minutes(a) : ComesUp(a, m) /\ Deed(a.who, a.call, m)
    BY DEF Happens, Arrive, Fires, Deed
  <1>2. /\ UNCHANGED <<plot, phase, flight, turns, diskVars>>
        /\ phase \in {"idle", "waiting", "elapsing"}
        /\ clock' = IF a.late THEN Target ELSE m
        /\ npc_clock' = m
    BY <1>1 DEF ComesUp
  <1>3. /\ clock \in Nat /\ Target \in Nat
        /\ phase = "idle" => Target = clock
    BY <1>2 DEF Running, Target
  <1>4. /\ m \in IF a.late THEN {Target + Overrun} ELSE {clock, Target}
        /\ Overrun \in Nat
    BY SessionAssumption DEF Minutes
  <1> HIDE DEF Target
  <1>5. m \in Nat /\ clock' \in Nat /\ (phase = "idle" => clock' = clock)
    BY <1>2, <1>3, <1>4
  <1> QED
    BY <1>1, <1>2, <1>5, CallsAreWellFormed DEF Running

\* A scripted sender only writes rows.
LEMMA ScriptsOnlyWrite ==
    ASSUME NEW p, NEW c, NEW now, Scripted(p, c, now)
    PROVE  UNCHANGED <<docs, calendar, tasks, transcripts, seen>>
  BY DEF Scripted, Posts, ScriptMails, Delivers

LEMMA CostsAreNatural ==
    ASSUME NEW c, WellFormed(c)
    PROVE  DeclaredCost(c) \in Nat
  BY DEF WellFormed, DeclaredCost, Max2

\* A call ends no earlier than it begins, and a meeting is entered before it
\* is over.
LEMMA EndsAfterBeginning ==
    ASSUME NEW c, WellFormed(c), clock \in Nat,
           \A id \in DOMAIN calendar : Planned(id)
    PROVE  /\ Ends(c) \in Nat
           /\ Attending(c) =>
                 /\ c.event \in DOMAIN calendar
                 /\ calendar[c.event].start <= Ends(c)
                 /\ Ends(c) <= calendar[c.event].end
  <1>1. DeclaredCost(c) \in Nat
    BY CostsAreNatural
  <1>2. c.end \in Int /\ (c.tool = "wait.until" /\ Accepts(Agent, c, clock) => c.end >= clock)
    BY DEF WellFormed, Accepts
  <1>3. CASE ~Accepts(Agent, c, clock)
    BY <1>1, <1>3 DEF Ends, Attending
  <1>4. CASE Accepts(Agent, c, clock) /\ c.tool = "meetings.attend"
    <2>1. c.event \in DOMAIN calendar /\ clock <= calendar[c.event].end
      BY <1>4 DEF Accepts
    <2>2. /\ calendar[c.event].start \in Int /\ calendar[c.event].end \in Int
          /\ calendar[c.event].start <= calendar[c.event].end
      BY <2>1 DEF Planned, CalendarEvent
    <2>3. Ends(c) = Max2(clock, calendar[c.event].start)
      BY <1>4 DEF Ends
    <2> QED
      BY <2>1, <2>2, <2>3 DEF Max2
  <1>5. CASE Accepts(Agent, c, clock) /\ c.tool # "meetings.attend"
    BY <1>1, <1>2, <1>5 DEF Ends, Attending
  <1> QED
    BY <1>3, <1>4, <1>5

\* A handler changes neither the hours of an event nor what was recorded of
\* it, and writes no transcript.
LEMMA HandlersKeepMeetings ==
    ASSUME NEW p \in Person, NEW c, WellFormed(c), NEW now, Handles(p, c, now),
           \A id \in DOMAIN calendar : Planned(id)
    PROVE  /\ transcripts' = transcripts
           /\ DOMAIN calendar \subseteq DOMAIN calendar'
           /\ \A id \in DOMAIN calendar : 
                 /\ calendar'[id].start = calendar[id].start
                 /\ calendar'[id].end = calendar[id].end
                 /\ calendar'[id].attended = calendar[id].attended
           /\ \A id \in DOMAIN calendar' \ DOMAIN calendar :
                 ~calendar'[id].attended
           /\ \A id \in DOMAIN calendar' : Planned(id)'
  <1>1. transcripts' = transcripts
    BY DEF Handles
  <1>2. CASE UNCHANGED calendar
    BY <1>1, <1>2 DEF Planned
  <1>3. CASE c.tool = "calendar.create" /\ PlansEvent(p, c, now)
    <2> DEFINE e == [start |-> c.start, end |-> c.end,
                     attendees |-> c.to \cup {p}, attended |-> FALSE]
    <2>1. c.event \notin DOMAIN calendar /\ c.end > c.start
      BY <1>3 DEF Handles, Accepts
    <2>2. calendar' = Put(calendar, c.event, e)
      BY <1>3 DEF PlansEvent
    <2>3. e \in CalendarEvent /\ e.start <= e.end /\ ~e.attended
      BY <2>1 DEF CalendarEvent, WellFormed
    <2> HIDE DEF e
    <2>4. /\ DOMAIN calendar' = DOMAIN calendar \cup {c.event}
          /\ calendar'[c.event] = e
          /\ \A id \in DOMAIN calendar : calendar'[id] = calendar[id]
      BY <2>1, <2>2 DEF Put
    <2> QED
      BY <1>1, <2>3, <2>4 DEF Planned
  <1>4. CASE c.tool = "calendar.rsvp" /\ PlansEvent(p, c, now)
    <2> DEFINE S == IF c.answer = "no" THEN calendar[c.event].attendees \ {p}
                    ELSE calendar[c.event].attendees \cup {p}
    <2>1. c.event \in DOMAIN calendar
      BY <1>4 DEF Handles, Accepts
    <2>2. calendar' = [calendar EXCEPT ![c.event].attendees = S]
      BY <1>4 DEF PlansEvent
    <2>3. calendar[c.event] \in CalendarEvent
      BY <2>1 DEF Planned
    <2>4. S \in SUBSET Person
      BY <2>3 DEF CalendarEvent
    <2> HIDE DEF S
    <2>5. /\ calendar'[c.event] \in CalendarEvent
          /\ calendar'[c.event].start = calendar[c.event].start
          /\ calendar'[c.event].end = calendar[c.event].end
          /\ calendar'[c.event].attended = calendar[c.event].attended
      BY <2>1, <2>2, <2>3, <2>4 DEF CalendarEvent
    <2>6. /\ DOMAIN calendar' = DOMAIN calendar
          /\ \A id \in DOMAIN calendar : id # c.event => calendar'[id] = calendar[id]
      BY <2>2
    <2> QED
      BY <1>1, <2>5, <2>6 DEF Planned
  <1> QED
    BY <1>2, <1>3, <1>4
       DEF Handles, Posts, Mails, Delivers, ReadsChat, ReadsEmail, WritesDoc,
           PlansEvent, MovesTask, CommentsTask, LogsWork

-----------------------------------------------------------------------------
(* Meetings.                                                               *)

LEMMA MeetingsKept ==
    ASSUME Meetings, Running, [Next]_vars
    PROVE  Meetings'
  <1> USE DEF Meetings
  <1>1. ASSUME UNCHANGED <<calendar, transcripts>>, phase' # "waiting"
        PROVE  Meetings'
    BY <1>1 DEF MeetingsOnRecord, Planned
  \* Any handler or script, while nobody comes to or leaves a meeting.
  <1>2. ASSUME NEW p \in Person, NEW c, WellFormed(c), NEW now, Deed(p, c, now),
               phase' # "waiting" \/ (phase = "waiting" /\ UNCHANGED flight)
        PROVE  Meetings'
    <2>1. /\ transcripts' = transcripts
          /\ DOMAIN calendar \subseteq DOMAIN calendar'
          /\ \A id \in DOMAIN calendar :
                /\ calendar'[id].start = calendar[id].start
                /\ calendar'[id].end = calendar[id].end
                /\ calendar'[id].attended = calendar[id].attended
          /\ \A id \in DOMAIN calendar' \ DOMAIN calendar :
                ~calendar'[id].attended
          /\ \A id \in DOMAIN calendar' : Planned(id)'
      <3>1. CASE Handles(p, c, now)
        BY <1>2, <3>1, HandlersKeepMeetings
      <3>2. CASE Scripted(p, c, now)
        BY <3>2, ScriptsOnlyWrite DEF Planned
      <3> QED
        BY <1>2, <3>1, <3>2 DEF Deed
    <2>2. MeetingsOnRecord'
      BY <2>1 DEF MeetingsOnRecord
    <2> QED
      BY <1>2, <2>1, <2>2
  <1>3. ASSUME NEW c \in Plots[plot].calls, Begin(c)
        PROVE  Meetings'
    <2>1. WellFormed(c) /\ clock \in Nat
      BY <1>3, CallsAreWellFormed DEF Running
    <2>2. CASE Accepts(Agent, c, clock) /\ ~Attending(c)
      BY <1>2, <1>3, <2>1, <2>2, AgentAssumption DEF Begin, Deed
    <2>3. CASE ~Accepts(Agent, c, clock)
      BY <1>1, <1>3, <2>3 DEF Begin, Attending, officeVars
    <2>4. CASE Attending(c)
      <3>1. /\ UNCHANGED <<calendar, transcripts>>
            /\ flight'.call = c /\ flight'.until = Ends(c)
        BY <1>3, <2>4 DEF Begin, officeVars
      <3>2. /\ c.event \in DOMAIN calendar
            /\ calendar[c.event].start <= Ends(c)
            /\ Ends(c) <= calendar[c.event].end
        BY <2>1, <2>4, EndsAfterBeginning
      <3> QED
        BY <3>1, <3>2 DEF MeetingsOnRecord, Planned
    <2> QED
      BY <2>2, <2>3, <2>4
  <1>4. ASSUME MeetingHappens
        PROVE  Meetings'
    <2> DEFINE e == flight.call.event
    <2>1. PICK s \in SUBSET (calendar[e].attendees \ {Agent}) :
             Meets(e, s, flight.until)
      BY <1>4 DEF MeetingHappens
    <2>2. /\ phase = "waiting" /\ phase' = "elapsing"
          /\ calendar' = [calendar EXCEPT ![e].attended = TRUE]
      BY <1>4, <2>1 DEF MeetingHappens, Meets
    <2>3. /\ e \in DOMAIN calendar /\ calendar[e] \in CalendarEvent
          /\ calendar[e].start <= flight.until /\ flight.until <= calendar[e].end
          /\ calendar[e].start <= calendar[e].end
      BY <2>2 DEF Planned
    <2>4. /\ DOMAIN calendar' = DOMAIN calendar
          /\ \A id \in DOMAIN calendar : id # e => calendar'[id] = calendar[id]
          /\ calendar'[e] \in CalendarEvent /\ calendar'[e].attended
          /\ calendar'[e].start = calendar[e].start
          /\ calendar'[e].end = calendar[e].end
      BY <2>2, <2>3 DEF CalendarEvent
    <2> HIDE DEF e
    <2>5. \A id \in DOMAIN calendar' : Planned(id)'
      BY <2>3, <2>4 DEF Planned
    <2>6. CASE e \in DOMAIN transcripts
      <3>1. transcripts' = transcripts
        BY <2>1, <2>6 DEF Meets
      <3>2. calendar[e].attended
        BY <2>6
      <3>3. MeetingsOnRecord'
        BY <2>3, <2>4, <3>1, <3>2 DEF MeetingsOnRecord
      <3> QED
        BY <2>2, <2>4, <2>5, <3>1, <3>3
    <2>7. CASE e \notin DOMAIN transcripts
      <3> DEFINE new == [generated_at |-> flight.until, speakers |-> s]
      <3>1. transcripts' = Put(transcripts, e, new)
        BY <2>1, <2>7 DEF Meets
      <3>2. /\ new.generated_at = flight.until
            /\ Agent \notin new.speakers
        OBVIOUS
      <3> HIDE DEF new
      <3>3. /\ DOMAIN transcripts' = DOMAIN transcripts \cup {e}
            /\ transcripts'[e] = new
            /\ \A id \in DOMAIN transcripts : transcripts'[id] = transcripts[id]
        BY <2>7, <3>1 DEF Put
      <3>4. MeetingsOnRecord'
        BY <2>3, <2>4, <2>7, <3>2, <3>3 DEF MeetingsOnRecord
      <3> QED
        BY <2>2, <2>3, <2>4, <2>5, <3>3, <3>4
    <2> QED
      BY <2>6, <2>7
  <1>5. ASSUME NEW a \in Others, Happens(a)
        PROVE  Meetings'
    BY <1>2, <1>5, OthersAct
  <1>6. CASE \/ Return \/ RunEnds \/ Close \/ Crash
             \/ \E t \in Wakeups : ClockMoves(t)
             \/ \E f \in Artifacts : Finalize(f)
    BY <1>1, <1>6 DEF Return, RunEnds, Close, Crash, ClockMoves, Finalize, officeVars, runVars
  <1>7. CASE UNCHANGED vars
    BY <1>7 DEF vars, officeVars, runVars, MeetingsOnRecord, Planned
  <1> QED
    BY <1>3, <1>4, <1>5, <1>6, <1>7 DEF Next, Others, Happens

-----------------------------------------------------------------------------
(* The run and its directory.                                              *)

\* The last turn recorded ends when the call does.
LEMMA ReturnRecordsTurn ==
    ASSUME Running, OnDisk, Return
    PROVE  /\ IsSeq(turns)'
           /\ Len(turns') = Len(turns) + 1
           /\ turns_jsonl' = [i \in DOMAIN turns' |-> Logged(turns'[i])]
           /\ turns_jsonl'[Len(turns')].after = clock'
  <1> DEFINE new == TurnOf(flight)
  <1>1. /\ turns' = Append(turns, new)
        /\ turns_jsonl' = Append(turns_jsonl, Logged(new))
        /\ clock' = flight.until
    BY DEF Return
  <1>2. Logged(new).after = flight.until
    BY DEF Logged, TurnOf
  <1> HIDE DEF new
  <1>3. /\ IsSeq(turns)' /\ Len(turns) \in Nat
        /\ Len(turns') = Len(turns) + 1
        /\ DOMAIN turns = 1 .. Len(turns)
        /\ DOMAIN turns' = 1 .. (Len(turns) + 1)
        /\ \A i \in DOMAIN turns : turns'[i] = turns[i]
        /\ turns'[Len(turns) + 1] = new
    <2>1. IsSeq(turns)
      BY DEF Running
    <2>2. /\ IsSeq(Append(turns, new)) /\ Len(turns) \in Nat
          /\ Len(Append(turns, new)) = Len(turns) + 1
          /\ DOMAIN turns = 1 .. Len(turns)
          /\ DOMAIN Append(turns, new) = 1 .. (Len(turns) + 1)
          /\ \A i \in DOMAIN turns : Append(turns, new)[i] = turns[i]
          /\ Append(turns, new)[Len(turns) + 1] = new
      BY <2>1, AppendRows
    <2> QED
      BY <1>1, <2>2 DEF IsSeq, Rows
  <1>4. turns_jsonl = [i \in 1 .. Len(turns) |-> Logged(turns[i])]
    BY <1>3 DEF OnDisk
  <1> DEFINE L == {Logged(turns[i]) : i \in 1 .. Len(turns)} \cup {Logged(new)}
  <1>5. turns_jsonl \in Seq(L) /\ Logged(new) \in L
    BY <1>3, <1>4, SeqDef
  <1>6. Len(turns_jsonl) = Len(turns)
    BY <1>3, <1>4
  <1> HIDE DEF L
  <1>7. /\ turns_jsonl' \in Seq(L)
        /\ Len(turns_jsonl') = Len(turns) + 1
        /\ \A i \in 1 .. Len(turns) : turns_jsonl'[i] = Logged(turns[i])
        /\ turns_jsonl'[Len(turns) + 1] = Logged(new)
    BY <1>1, <1>4, <1>5, <1>6, AppendProperties
  <1>8. turns_jsonl' = [i \in 1 .. (Len(turns) + 1) |-> turns_jsonl'[i]]
    BY <1>7, LenProperties
  <1>9. \A i \in 1 .. (Len(turns) + 1) : turns_jsonl'[i] = Logged(turns'[i])
    BY <1>3, <1>7
  <1> QED
    BY <1>1, <1>2, <1>3, <1>7, <1>8, <1>9

LEMMA RunningKept ==
    ASSUME Running, OnDisk, Meetings, [Next]_vars
    PROVE  Running'
  <1> USE DEF Running
  <1>1. ASSUME NEW c \in Plots[plot].calls, Begin(c)
        PROVE  Running'
    <2>1. Ends(c) \in Nat
      BY CallsAreWellFormed, EndsAfterBeginning DEF Meetings
    <2> QED
      BY <1>1, <2>1 DEF Begin, IsSeq, Rows
  <1>2. ASSUME MeetingHappens
        PROVE  Running'
    <2> DEFINE e == flight.call.event
    <2>1. calendar[e] \in CalendarEvent
      BY <1>2 DEF MeetingHappens, Meetings, Planned
    <2>2. Max2(flight.until, calendar[e].end) \in Nat
      BY <1>2, <2>1 DEF MeetingHappens, CalendarEvent, Max2
    <2>3. flight' = [flight EXCEPT !.until = Max2(flight.until, calendar[e].end)]
      BY <1>2 DEF MeetingHappens
    <2> QED
      BY <1>2, <2>2, <2>3 DEF MeetingHappens, IsSeq, Rows
  <1>3. ASSUME Return
        PROVE  Running'
    BY <1>3, ReturnRecordsTurn DEF Return
  <1>4. ASSUME NEW a \in Others, Happens(a)
        PROVE  Running'
    BY <1>4, OthersAct DEF IsSeq, Rows
  <1>5. ASSUME NEW t \in Wakeups, ClockMoves(t)
        PROVE  Running'
    BY <1>5, SessionAssumption DEF ClockMoves, IsSeq, Rows
  <1>6. CASE \/ RunEnds \/ Close \/ Crash \/ \E f \in Artifacts : Finalize(f)
    BY <1>6 DEF RunEnds, Close, Crash, Finalize, runVars, IsSeq, Rows
  <1>7. CASE UNCHANGED vars
    BY <1>7 DEF vars, runVars, IsSeq, Rows
  <1> QED
    BY <1>1, <1>2, <1>3, <1>4, <1>5, <1>6, <1>7 DEF Next, Others, Happens

LEMMA OnDiskKept ==
    ASSUME Running, OnDisk, Meetings, [Next]_vars
    PROVE  OnDisk'
  <1> USE DEF OnDisk, TurnsLeft
  <1>1. ASSUME NEW c \in Plots[plot].calls, Begin(c)
        PROVE  OnDisk'
    BY <1>1 DEF Begin, diskVars
  <1>2. ASSUME MeetingHappens
        PROVE  OnDisk'
    BY <1>2 DEF MeetingHappens, diskVars
  <1>3. ASSUME Return
        PROVE  OnDisk'
    <2>1. /\ turns_jsonl' = [i \in DOMAIN turns' |-> Logged(turns'[i])]
          /\ turns_jsonl'[Len(turns')].after = clock'
      BY <1>3, ReturnRecordsTurn
    <2>2. /\ phase = "elapsing" /\ phase' = "idle" /\ flight' = NoFlight
          /\ UNCHANGED files /\ clock' \in Nat
      BY <1>3 DEF Return, Running
    <2>3. files = {}
      BY <2>2
    <2> QED
      BY <2>1, <2>2, <2>3
  <1>4. ASSUME NEW a \in Others, Happens(a)
        PROVE  OnDisk'
    <2>1. /\ UNCHANGED <<plot, phase, flight, turns, turns_jsonl, files>>
          /\ phase \in {"idle", "waiting", "elapsing"}
          /\ phase = "idle" => clock' = clock
      BY <1>4, OthersAct DEF diskVars
    <2> QED
      BY <2>1
  <1>5. ASSUME NEW t \in Wakeups, ClockMoves(t)
        PROVE  OnDisk'
    <2>1. /\ UNCHANGED <<plot, phase, flight, turns, turns_jsonl, files>>
          /\ phase = "idle" /\ clock' = t /\ clock < t /\ t \in Nat
      BY <1>5, SessionAssumption DEF ClockMoves, diskVars
    <2> QED
      BY <2>1 DEF Running
  <1>6. ASSUME RunEnds
        PROVE  OnDisk'
    BY <1>6 DEF RunEnds, diskVars
  <1>7. ASSUME NEW f \in Artifacts, Finalize(f)
        PROVE  OnDisk'
    <2>1. /\ UNCHANGED <<plot, clock, phase, flight, turns, turns_jsonl>>
          /\ World' = World /\ phase = "finalizing"
          /\ files' = files \cup {f}
          /\ snapshot' = IF f = "world_final.json" THEN {World} ELSE snapshot
          /\ run_json' = IF f = "run.json" THEN {clock} ELSE run_json
      BY <1>7 DEF Finalize, runVars, officeVars, rowVars, World, FinalSimTime
    <2> QED
      BY <2>1
  <1>8. CASE Close \/ Crash
    <2>1. /\ UNCHANGED <<plot, clock, flight, turns, turns_jsonl, files, snapshot, run_json>>
          /\ World' = World
          /\ \/ phase' = "closed" /\ phase = "finalizing"
             \/ phase' = "crashed"
      BY <1>8 DEF Close, Crash, officeVars, rowVars, diskVars, World
    <2> QED
      BY <2>1
  <1>9. CASE UNCHANGED vars
    BY <1>9 DEF vars, runVars, diskVars, officeVars, rowVars, World
  <1> QED
    BY <1>1, <1>2, <1>3, <1>4, <1>5, <1>6, <1>7, <1>8, <1>9
       DEF Next, Others, Happens

-----------------------------------------------------------------------------
(* The lines of events.jsonl.                                              *)

KindIn(s, kind) == {i \in DOMAIN s : s[i].kind = kind}
Count(s, kind) == Cardinality(KindIn(s, kind))

\* The last line in s, if any, about the status of a task.
StatusLine(s, task) ==
    {i \in KindIn(s, "task_status_changed") :
        /\ s[i].payload.task_id = task
        /\ \A j \in KindIn(s, "task_status_changed") :
              j > i => s[j].payload.task_id # task}
StatusTold(s, t, status) == \A i \in StatusLine(s, t) : s[i].payload.to = status

LEMMA OneLineMore ==
    ASSUME NEW s, NEW line, IsSeq(s), NEW kind
    PROVE  /\ IsFiniteSet(KindIn(s, kind)) /\ Count(s, kind) \in Nat
           /\ Count(Append(s, line), kind)
                = IF line.kind = kind THEN Count(s, kind) + 1 ELSE Count(s, kind)
  <1> DEFINE A == Append(s, line)
  <1>1. /\ Len(s) \in Nat /\ DOMAIN s = 1 .. Len(s)
        /\ DOMAIN A = 1 .. (Len(s) + 1)
        /\ \A i \in DOMAIN s : A[i] = s[i]
        /\ A[Len(s) + 1] = line
    BY AppendRows
  <1> HIDE DEF A
  <1>2. IsFiniteSet(KindIn(s, kind))
    <2>1. IsFiniteSet(1 .. Len(s)) /\ KindIn(s, kind) \subseteq 1 .. Len(s)
      BY <1>1, FS_Interval DEF KindIn
    <2> QED
      BY <2>1, FS_Subset
  <1>3. Count(s, kind) \in Nat
    BY <1>2, FS_CardinalityType DEF Count
  <1>4. CASE line.kind = kind
    <2>1. KindIn(A, kind) = KindIn(s, kind) \cup {Len(s) + 1}
      BY <1>1, <1>4 DEF KindIn
    <2>2. Len(s) + 1 \notin KindIn(s, kind)
      BY <1>1 DEF KindIn
    <2>3. Cardinality(KindIn(A, kind)) = Cardinality(KindIn(s, kind)) + 1
      BY <1>2, <2>1, <2>2, FS_AddElement
    <2> QED
      BY <1>2, <1>3, <1>4, <2>3 DEF Count, A
  <1>5. CASE line.kind # kind
    <2>1. KindIn(A, kind) = KindIn(s, kind)
      BY <1>1, <1>5 DEF KindIn
    <2> QED
      BY <1>2, <1>3, <1>5, <2>1 DEF Count, A
  <1> QED
    BY <1>4, <1>5

LEMMA StatusLineMore ==
    ASSUME NEW s, NEW line, IsSeq(s), NEW t, NEW status, StatusTold(s, t, status)
    PROVE  /\ line.kind # "task_status_changed" =>
                 StatusTold(Append(s, line), t, status)
           /\ line.kind = "task_status_changed" /\ line.payload.task_id # t =>
                 StatusTold(Append(s, line), t, status)
           /\ line.kind = "task_status_changed" /\ line.payload.task_id = t =>
                 StatusTold(Append(s, line), t, line.payload.to)
  <1> DEFINE A == Append(s, line)
             K == "task_status_changed"
  <1>1. /\ Len(s) \in Nat /\ DOMAIN s = 1 .. Len(s)
        /\ DOMAIN A = 1 .. (Len(s) + 1)
        /\ \A i \in DOMAIN s : A[i] = s[i]
        /\ A[Len(s) + 1] = line
    BY AppendRows
  <1> HIDE DEF A
  <1>2. ASSUME line.kind # K \/ line.payload.task_id # t
        PROVE  StatusTold(A, t, status)
    <2>1. ASSUME NEW i \in StatusLine(A, t)
          PROVE  i \in DOMAIN s /\ i \in StatusLine(s, t)
      BY <1>1, <1>2, <2>1 DEF StatusLine, KindIn
    <2> QED
      BY <1>1, <2>1 DEF StatusTold
  <1>3. ASSUME line.kind = K, line.payload.task_id = t
        PROVE  StatusTold(A, t, line.payload.to)
    <2>1. ASSUME NEW i \in StatusLine(A, t)
          PROVE  i = Len(s) + 1
      BY <1>1, <1>3, <2>1 DEF StatusLine, KindIn
    <2> QED
      BY <1>1, <2>1 DEF StatusTold
  <1> QED
    BY <1>2, <1>3 DEF A

LEMMA SeedsAreSequences ==
    /\ IsSeq(InitialMessages) /\ Len(InitialMessages) \in Nat
    /\ IsSeq(InitialEmails) /\ Len(InitialEmails) \in Nat
    /\ IsSeq(InitialThreads) /\ Len(InitialThreads) \in Nat
  BY OfficeAssumption, LenProperties, SeqDef DEF IsSeq, Rows

\* The lines in s tell of these rows, the seeded ones apart, and of these
\* meetings and statuses.
BooksOf(s, chats, mails, convs, held, board) ==
    /\ IsSeq(s) /\ IsSeq(chats) /\ IsSeq(mails) /\ IsSeq(convs)
    /\ IsFiniteSet(held)
    /\ Len(InitialMessages) + Count(s, "message_inserted") = Len(chats)
    /\ Len(InitialEmails) + Count(s, "email_inserted") = Len(mails)
    /\ Len(InitialThreads) + Count(s, "email_thread_created") = Len(convs)
    /\ Count(s, "meeting_transcript_added") = Cardinality(held)
    /\ \A t \in DOMAIN board : /\ "status" \in DOMAIN board[t]
                              /\ StatusTold(s, t, board[t].status)
Books == BooksOf(events, messages, emails, threads, DOMAIN transcripts, tasks)

\* Lines that are not counted.
LEMMA QuietLine ==
    ASSUME NEW s, NEW chats, NEW mails, NEW convs, NEW held, NEW board,
           BooksOf(s, chats, mails, convs, held, board), NEW line,
           line.kind \notin {"message_inserted", "email_inserted", "email_thread_created",
                          "meeting_transcript_added", "task_status_changed"}
    PROVE  BooksOf(Append(s, line), chats, mails, convs, held, board)
  <1>1. IsSeq(s) /\ IsSeq(Append(s, line))
    BY AppendRows DEF BooksOf
  <1>2. \A t, status : StatusTold(s, t, status) => StatusTold(Append(s, line), t, status)
    BY <1>1, StatusLineMore
  <1>3. \A kind : kind # line.kind => Count(Append(s, line), kind) = Count(s, kind)
    BY <1>1, OneLineMore
  <1> QED
    BY <1>1, <1>2, <1>3 DEF BooksOf

\* A line for a message, for an email and for a thread.
LEMMA MessageLine ==
    ASSUME NEW s, NEW chats, NEW mails, NEW convs, NEW held, NEW board,
           BooksOf(s, chats, mails, convs, held, board), NEW row,
           NEW line, line.kind = "message_inserted"
    PROVE  BooksOf(Append(s, line), Append(chats, row), mails, convs, held, board)
  <1>1. /\ IsSeq(s) /\ IsSeq(chats)
        /\ IsSeq(Append(chats, row)) /\ Len(Append(chats, row)) = Len(chats) + 1
        /\ IsSeq(Append(s, line))
    BY AppendRows DEF BooksOf
  <1>2. \A t, status : StatusTold(s, t, status) => StatusTold(Append(s, line), t, status)
    BY <1>1, StatusLineMore
  <1>3. Len(InitialMessages) + Count(Append(s, line), "message_inserted") = Len(Append(chats, row))
    <2>1. /\ Count(s, "message_inserted") \in Nat
          /\ Count(Append(s, line), "message_inserted") = Count(s, "message_inserted") + 1
          /\ Len(InitialMessages) + Count(s, "message_inserted") = Len(chats)
      BY <1>1, OneLineMore DEF BooksOf
    <2> QED
      BY <1>1, <2>1, SeedsAreSequences
  <1>4. \A kind : kind # line.kind => Count(Append(s, line), kind) = Count(s, kind)
    BY <1>1, OneLineMore
  <1> QED
    BY <1>1, <1>2, <1>3, <1>4 DEF BooksOf

LEMMA EmailLine ==
    ASSUME NEW s, NEW chats, NEW mails, NEW convs, NEW held, NEW board,
           BooksOf(s, chats, mails, convs, held, board), NEW row,
           NEW line, line.kind = "email_inserted"
    PROVE  BooksOf(Append(s, line), chats, Append(mails, row), convs, held, board)
  <1>1. /\ IsSeq(s) /\ IsSeq(mails)
        /\ IsSeq(Append(mails, row)) /\ Len(Append(mails, row)) = Len(mails) + 1
        /\ IsSeq(Append(s, line))
    BY AppendRows DEF BooksOf
  <1>2. \A t, status : StatusTold(s, t, status) => StatusTold(Append(s, line), t, status)
    BY <1>1, StatusLineMore
  <1>3. Len(InitialEmails) + Count(Append(s, line), "email_inserted") = Len(Append(mails, row))
    <2>1. /\ Count(s, "email_inserted") \in Nat
          /\ Count(Append(s, line), "email_inserted") = Count(s, "email_inserted") + 1
          /\ Len(InitialEmails) + Count(s, "email_inserted") = Len(mails)
      BY <1>1, OneLineMore DEF BooksOf
    <2> QED
      BY <1>1, <2>1, SeedsAreSequences
  <1>4. \A kind : kind # line.kind => Count(Append(s, line), kind) = Count(s, kind)
    BY <1>1, OneLineMore
  <1> QED
    BY <1>1, <1>2, <1>3, <1>4 DEF BooksOf

LEMMA ThreadLine ==
    ASSUME NEW s, NEW chats, NEW mails, NEW convs, NEW held, NEW board,
           BooksOf(s, chats, mails, convs, held, board), NEW row,
           NEW line, line.kind = "email_thread_created"
    PROVE  BooksOf(Append(s, line), chats, mails, Append(convs, row), held, board)
  <1>1. /\ IsSeq(s) /\ IsSeq(convs)
        /\ IsSeq(Append(convs, row)) /\ Len(Append(convs, row)) = Len(convs) + 1
        /\ IsSeq(Append(s, line))
    BY AppendRows DEF BooksOf
  <1>2. \A t, status : StatusTold(s, t, status) => StatusTold(Append(s, line), t, status)
    BY <1>1, StatusLineMore
  <1>3. Len(InitialThreads) + Count(Append(s, line), "email_thread_created") = Len(Append(convs, row))
    <2>1. /\ Count(s, "email_thread_created") \in Nat
          /\ Count(Append(s, line), "email_thread_created") = Count(s, "email_thread_created") + 1
          /\ Len(InitialThreads) + Count(s, "email_thread_created") = Len(convs)
      BY <1>1, OneLineMore DEF BooksOf
    <2> QED
      BY <1>1, <2>1, SeedsAreSequences
  <1>4. \A kind : kind # line.kind => Count(Append(s, line), kind) = Count(s, kind)
    BY <1>1, OneLineMore
  <1> QED
    BY <1>1, <1>2, <1>3, <1>4 DEF BooksOf

\* A line for a meeting.
LEMMA MeetingLine ==
    ASSUME NEW s, NEW chats, NEW mails, NEW convs, NEW held, NEW board,
           BooksOf(s, chats, mails, convs, held, board), NEW id, id \notin held,
           NEW line, line.kind = "meeting_transcript_added"
    PROVE  BooksOf(Append(s, line), chats, mails, convs, held \cup {id}, board)
  <1>1. IsSeq(s) /\ IsSeq(Append(s, line))
    BY AppendRows DEF BooksOf
  <1>2. \A t, status : StatusTold(s, t, status) => StatusTold(Append(s, line), t, status)
    BY <1>1, StatusLineMore
  <1>3. /\ IsFiniteSet(held \cup {id})
        /\ Cardinality(held \cup {id}) = Cardinality(held) + 1
    BY FS_AddElement DEF BooksOf
  <1>4. \A kind : kind # line.kind => Count(Append(s, line), kind) = Count(s, kind)
    BY <1>1, OneLineMore
  <1>5. Count(Append(s, line), "meeting_transcript_added")
           = Count(s, "meeting_transcript_added") + 1
    BY <1>1, OneLineMore
  <1> QED
    BY <1>1, <1>2, <1>3, <1>4, <1>5 DEF BooksOf

\* A line for a new status.
LEMMA StatusChangeLine ==
    ASSUME NEW s, NEW chats, NEW mails, NEW convs, NEW held, NEW board,
           BooksOf(s, chats, mails, convs, held, board),
           NEW task \in DOMAIN board, NEW status, NEW line,
           line.kind = "task_status_changed", line.payload.task_id = task,
           line.payload.to = status
    PROVE  BooksOf(Append(s, line), chats, mails, convs, held,
                   [board EXCEPT ![task].status = status])
  <1> DEFINE new == [board EXCEPT ![task].status = status]
  <1>1. IsSeq(s) /\ IsSeq(Append(s, line))
    BY AppendRows DEF BooksOf
  <1>2. /\ DOMAIN new = DOMAIN board
        /\ \A t \in DOMAIN board : t # task => new[t] = board[t]
        /\ DOMAIN new[task] = DOMAIN board[task]
        /\ new[task].status = status
    BY DEF BooksOf
  <1> HIDE DEF new
  <1>3. \A t \in DOMAIN new : /\ "status" \in DOMAIN new[t]
                             /\ StatusTold(Append(s, line), t, new[t].status)
    <2>1. ASSUME NEW t \in DOMAIN board, t # task
          PROVE  StatusTold(Append(s, line), t, board[t].status)
      BY <1>1, <2>1, StatusLineMore DEF BooksOf
    <2>2. StatusTold(Append(s, line), task, status)
      BY <1>1, StatusLineMore DEF BooksOf
    <2> QED
      BY <1>2, <2>1, <2>2 DEF BooksOf
  <1>4. \A kind : kind # line.kind => Count(Append(s, line), kind) = Count(s, kind)
    BY <1>1, OneLineMore
  <1>5. BooksOf(Append(s, line), chats, mails, convs, held, new)
    BY <1>1, <1>3, <1>4 DEF BooksOf
  <1> QED
    BY <1>5 DEF new

-----------------------------------------------------------------------------
(* What each handler appends.                                              *)

LEMMA TwoLines ==
    ASSUME NEW s, NEW a, NEW b, IsSeq(s)
    PROVE  /\ s \o (<<>> \o <<b>>) = Append(s, b)
           /\ s \o (<<a>> \o <<b>>) = Append(Append(s, a), b)
           /\ s \o <<a, b>> = Append(Append(s, a), b)
  <1> DEFINE S == Rows(s) \cup {a, b}
  <1>1. s \in Seq(S)
    BY SeqMonotonic DEF IsSeq, Rows
  <1>2. a \in S /\ b \in S
    OBVIOUS
  <1> HIDE DEF S
  <1>3. <<a>> \in Seq(S) /\ <<b>> \in Seq(S)
    BY <1>2
  <1>4. <<>> \o <<b>> = <<b>>
    BY <1>3, ConcatEmptySeq
  <1>5. Append(s, a) = s \o <<a>> /\ Append(s, b) = s \o <<b>>
    BY <1>1, <1>2, AppendIsConcat
  <1>6. Append(s, a) \in Seq(S)
    BY <1>1, <1>2
  <1>7. Append(Append(s, a), b) = (s \o <<a>>) \o <<b>>
    BY <1>2, <1>5, <1>6, AppendIsConcat
  <1>8. (s \o <<a>>) \o <<b>> = s \o (<<a>> \o <<b>>)
    BY <1>1, <1>3, ConcatAssociative
  <1>9. <<a, b>> = <<a>> \o <<b>>
    <2>1. Append(<<a>>, b) = <<a>> \o <<b>>
      BY <1>2, <1>3, AppendIsConcat
    <2>2. Append(<<a>>, b) = <<a, b>>
      <3>1. /\ Len(Append(<<a>>, b)) = 2
            /\ Append(<<a>>, b)[1] = a /\ Append(<<a>>, b)[2] = b
        BY <1>2, <1>3, AppendProperties
      <3>2. Append(<<a>>, b) \in Seq(S) /\ <<a, b>> \in Seq(S)
        BY <1>2, <1>3
      <3>3. /\ Len(<<a, b>>) = 2 /\ <<a, b>>[1] = a /\ <<a, b>>[2] = b
        OBVIOUS
      <3> QED
        <4>1. \A i \in 1 .. 2 : Append(<<a>>, b)[i] = <<a, b>>[i]
          BY <3>1, <3>3
        <4> QED
          BY <3>1, <3>2, <3>3, <4>1, SeqEqual
    <2> QED
      BY <2>1, <2>2
  <1> QED
    BY <1>4, <1>5, <1>7, <1>8, <1>9

LEMMA PostsKeepBooks ==
    ASSUME Books, NEW p, NEW c, NEW now, Posts(p, c, now), UNCHANGED transcripts
    PROVE  Books'
  <1> DEFINE line == Line("message_inserted", [row |-> Len(messages) + 1], now)
             opened == Line("channel_added", [row |-> 0], now)
             row == [channel |-> ChannelOf(c, p), from |-> p, mentions |-> c.mentions,
                     topics |-> c.topics, at |-> now]
             held == DOMAIN transcripts
  <1>1. BooksOf(events, messages, emails, threads, held, tasks) /\ IsSeq(events)
    BY DEF Books, BooksOf
  <1>2. line.kind = "message_inserted" /\ opened.kind = "channel_added"
    BY DEF Line
  <1>3. /\ messages' = Append(messages, row)
        /\ events' = events \o ((IF ChannelExists(ChannelOf(c, p)) THEN <<>> ELSE <<opened>>)
                                \o <<line>>)
        /\ UNCHANGED <<threads, emails, tasks, transcripts>>
    BY DEF Posts, Emits
  <1> HIDE DEF line, opened, row
  <1>4. events' \in {Append(events, line), Append(Append(events, opened), line)}
    BY <1>1, <1>3, TwoLines
  <1>5. BooksOf(Append(events, line), Append(messages, row), emails, threads, held, tasks)
    BY <1>1, <1>2, MessageLine
  <1>6. BooksOf(Append(events, opened), messages, emails, threads, held, tasks)
    BY <1>1, <1>2, QuietLine
  <1>7. BooksOf(Append(Append(events, opened), line), Append(messages, row), emails,
                threads, held, tasks)
    BY <1>2, <1>6, MessageLine
  <1> QED
    BY <1>3, <1>4, <1>5, <1>7 DEF Books

LEMMA DeliversKeepsBooks ==
    ASSUME Books, NEW p, NEW c, NEW now, NEW joining, NEW scripted,
           Delivers(p, c, now, joining, scripted), UNCHANGED transcripts
    PROVE  Books'
  <1> DEFINE thread == IF c.thread = 0 THEN Len(threads) + 1 ELSE c.thread
             line == Line("email_inserted", [row |-> Len(emails) + 1], now)
             opened == Line("email_thread_created", [row |-> thread], now)
             row == [thread |-> thread, from |-> p, to |-> c.to,
                     topics |-> c.topics, at |-> now, scripted |-> scripted]
             held == DOMAIN transcripts
  <1>1. /\ BooksOf(events, messages, emails, threads, held, tasks)
        /\ IsSeq(events) /\ IsSeq(threads)
    BY DEF Books, BooksOf
  <1>2. line.kind = "email_inserted" /\ opened.kind = "email_thread_created"
    BY DEF Line
  <1>3. /\ emails' = Append(emails, row)
        /\ events' = events \o ((IF c.thread = 0 THEN <<opened>> ELSE <<>>) \o <<line>>)
        /\ UNCHANGED <<messages, tasks, transcripts>>
    BY DEF Delivers, Emits
  <1>4. CASE c.thread = 0
    <2> DEFINE conv == [subject |-> c.subject, participants |-> {p} \cup c.to]
    <2>1. threads' = Append(threads, conv)
      BY <1>4 DEF Delivers
    <2> HIDE DEF line, opened, row, conv
    <2>2. events' = Append(Append(events, opened), line)
      BY <1>1, <1>3, <1>4, TwoLines
    <2>3. BooksOf(Append(events, opened), messages, emails, Append(threads, conv), held, tasks)
      BY <1>1, <1>2, ThreadLine
    <2>4. BooksOf(Append(Append(events, opened), line), messages, Append(emails, row),
                  Append(threads, conv), held, tasks)
      BY <1>2, <2>3, EmailLine
    <2> QED
      BY <1>3, <2>1, <2>2, <2>4 DEF Books
  <1>5. CASE c.thread # 0
    <2> DEFINE T == [threads EXCEPT ![thread].participants = @ \cup joining]
    <2>1. threads' = T
      BY <1>5 DEF Delivers
    <2>2. DOMAIN T = DOMAIN threads
      OBVIOUS
    <2>3. T = [i \in DOMAIN threads |-> T[i]]
      OBVIOUS
    <2> HIDE DEF line, opened, row, T
    <2>4. IsSeq(T) /\ Len(T) = Len(threads)
      <3>1. Len(threads) \in Nat /\ DOMAIN threads = 1 .. Len(threads)
        BY <1>1, AppendRows
      <3>2. T \in [1 .. Len(threads) -> Rows(T)]
        BY <2>2, <2>3, <3>1 DEF Rows
      <3>3. T \in Seq(Rows(T))
        BY <3>1, <3>2, SeqDef
      <3> QED
        BY <2>2, <3>1, <3>3, LenProperties DEF IsSeq
    <2>5. events' = Append(events, line)
      BY <1>1, <1>3, <1>5, TwoLines
    <2>6. BooksOf(events, messages, emails, T, held, tasks)
      BY <1>1, <2>4 DEF BooksOf
    <2>7. BooksOf(Append(events, line), messages, Append(emails, row), T, held, tasks)
      BY <1>2, <2>6, EmailLine
    <2> QED
      BY <1>3, <2>1, <2>5, <2>7 DEF Books
  <1> QED
    BY <1>4, <1>5

LEMMA WritesDocKeepsBooks ==
    ASSUME Books, NEW p, NEW c, NEW now, WritesDoc(p, c, now), UNCHANGED transcripts
    PROVE  Books'
  <1> DEFINE line(kind) == Line(kind, [doc_id |-> c.doc], now)
             held == DOMAIN transcripts
             one == line("doc_created")
             two == line("doc_edited")
             three == line("doc_commented")
  <1>1. BooksOf(events, messages, emails, threads, held, tasks) /\ IsSeq(events)
    BY DEF Books, BooksOf
  <1>2. one.kind = "doc_created" /\ two.kind = "doc_edited" /\ three.kind = "doc_commented"
    BY DEF Line
  <1>3. /\ events' \in {events \o <<one, two>>, events \o <<two>>, events \o <<three>>}
        /\ UNCHANGED <<messages, threads, emails, tasks, transcripts>>
    BY DEF WritesDoc, Emits, rowVars
  <1> HIDE DEF one, two, three
  <1>4. events' \in {Append(Append(events, one), two), Append(events, two),
                     Append(events, three)}
    BY <1>1, <1>3, TwoLines, AppendRows
  <1>5. /\ BooksOf(Append(events, one), messages, emails, threads, held, tasks)
        /\ BooksOf(Append(events, two), messages, emails, threads, held, tasks)
        /\ BooksOf(Append(events, three), messages, emails, threads, held, tasks)
    BY <1>1, <1>2, QuietLine
  <1>6. BooksOf(Append(Append(events, one), two), messages, emails, threads, held, tasks)
    BY <1>2, <1>5, QuietLine
  <1> QED
    BY <1>3, <1>4, <1>5, <1>6 DEF Books

\* A handler that appends one line no row stands behind.
LEMMA OneQuietLine ==
    ASSUME Books, NEW line, Emits(<<line>>),
           UNCHANGED <<rowVars, tasks, transcripts>>,
           line.kind \notin {"message_inserted", "email_inserted", "email_thread_created",
                             "meeting_transcript_added", "task_status_changed"}
    PROVE  Books'
  <1>1. BooksOf(events, messages, emails, threads, DOMAIN transcripts, tasks) /\ IsSeq(events)
    BY DEF Books, BooksOf
  <1>2. events' = Append(events, line)
    BY <1>1, AppendRows DEF Emits
  <1>3. BooksOf(Append(events, line), messages, emails, threads, DOMAIN transcripts, tasks)
    BY <1>1, QuietLine
  <1> QED
    BY <1>2, <1>3 DEF Books, rowVars

LEMMA PlansEventKeepsBooks ==
    ASSUME Books, NEW p, NEW c, NEW now, PlansEvent(p, c, now), UNCHANGED transcripts
    PROVE  Books'
  <1> DEFINE line == Line(IF c.tool = "calendar.create"
                          THEN "calendar_event_created" ELSE "calendar_rsvp",
                          [event_id |-> c.event], now)
  <1>1. line.kind \in {"calendar_event_created", "calendar_rsvp"}
    BY DEF Line
  <1>2. Emits(<<line>>) /\ UNCHANGED <<rowVars, tasks, transcripts>>
    BY DEF PlansEvent
  <1> HIDE DEF line
  <1> QED
    BY <1>1, <1>2, OneQuietLine

LEMMA LogsWorkKeepsBooks ==
    ASSUME Books, NEW c, NEW now, LogsWork(c, now), UNCHANGED transcripts
    PROVE  Books'
  <1> DEFINE line == Line("task_work_logged", [task_id |-> c.task], now)
  <1>1. line.kind = "task_work_logged"
    BY DEF Line
  <1>2. Emits(<<line>>) /\ UNCHANGED <<rowVars, tasks, transcripts>>
    BY DEF LogsWork
  <1> HIDE DEF line
  <1> QED
    BY <1>1, <1>2, OneQuietLine

LEMMA CommentsTaskKeepsBooks ==
    ASSUME Books, NEW p, NEW c, NEW now, CommentsTask(p, c, now), UNCHANGED transcripts
    PROVE  Books'
  <1> DEFINE line == Line("task_commented", [task_id |-> c.task], now)
             held == DOMAIN transcripts
             board == [tasks EXCEPT ![c.task].comments = @ \cup {NoteOf(p, c, now)}]
  <1>1. BooksOf(events, messages, emails, threads, held, tasks) /\ IsSeq(events)
    BY DEF Books, BooksOf
  <1>2. line.kind = "task_commented"
    BY DEF Line
  <1>3. /\ events' = events \o <<line>> /\ tasks' = board
        /\ UNCHANGED <<messages, threads, emails, transcripts>>
    BY DEF CommentsTask, Emits, rowVars
  <1>4. /\ DOMAIN board = DOMAIN tasks
        /\ \A t \in DOMAIN tasks : /\ DOMAIN board[t] = DOMAIN tasks[t]
                                   /\ "status" \in DOMAIN tasks[t]
                                   /\ board[t].status = tasks[t].status
    BY <1>1 DEF BooksOf
  <1> HIDE DEF line, board
  <1>5. events' = Append(events, line)
    BY <1>1, <1>3, AppendRows
  <1>6. BooksOf(events, messages, emails, threads, held, board)
    BY <1>1, <1>4 DEF BooksOf
  <1>7. BooksOf(Append(events, line), messages, emails, threads, held, board)
    BY <1>2, <1>6, QuietLine
  <1> QED
    BY <1>3, <1>5, <1>7 DEF Books

LEMMA MovesTaskKeepsBooks ==
    ASSUME Books, NEW p, NEW c, NEW now, MovesTask(p, c, now), UNCHANGED transcripts,
           c.task \in DOMAIN tasks
    PROVE  Books'
  <1> DEFINE line == Line("task_status_changed",
                          [task_id |-> c.task, from |-> tasks[c.task].status,
                           to |-> c.status], now)
             held == DOMAIN transcripts
  <1>1. BooksOf(events, messages, emails, threads, held, tasks) /\ IsSeq(events)
    BY DEF Books, BooksOf
  <1>2. /\ line.kind = "task_status_changed" /\ line.payload.task_id = c.task
        /\ line.payload.to = c.status
    BY DEF Line
  <1>3. /\ events' = events \o <<line>>
        /\ tasks' = [tasks EXCEPT ![c.task].status = c.status]
        /\ UNCHANGED <<messages, threads, emails, transcripts>>
    BY DEF MovesTask, Emits, rowVars
  <1> HIDE DEF line
  <1>4. events' = Append(events, line)
    BY <1>1, <1>3, AppendRows
  <1>5. BooksOf(Append(events, line), messages, emails, threads, held,
                [tasks EXCEPT ![c.task].status = c.status])
    BY <1>1, <1>2, StatusChangeLine
  <1> QED
    BY <1>3, <1>4, <1>5 DEF Books

LEMMA HandlersKeepBooks ==
    ASSUME Books, NEW p, NEW c, NEW now, Handles(p, c, now)
    PROVE  Books'
  <1>1. UNCHANGED transcripts /\ Accepts(p, c, now)
    BY DEF Handles
  <1>2. CASE Posts(p, c, now)
    BY <1>1, <1>2, PostsKeepBooks
  <1>3. CASE Mails(p, c, now)
    BY <1>1, <1>3, DeliversKeepsBooks DEF Mails
  <1>4. CASE WritesDoc(p, c, now)
    BY <1>1, <1>4, WritesDocKeepsBooks
  <1>5. CASE PlansEvent(p, c, now)
    BY <1>1, <1>5, PlansEventKeepsBooks
  <1>6. CASE MovesTask(p, c, now)
    <2>1. c.task \in DOMAIN tasks
      BY <1>1, <1>6 DEF Accepts, MovesTask
    <2> QED
      BY <1>1, <1>6, <2>1, MovesTaskKeepsBooks
  <1>7. CASE CommentsTask(p, c, now)
    BY <1>1, <1>7, CommentsTaskKeepsBooks
  <1>8. CASE LogsWork(c, now)
    BY <1>1, <1>8, LogsWorkKeepsBooks
  <1>9. CASE UNCHANGED <<rowVars, tasks, events>>
    BY <1>1, <1>9 DEF Books, rowVars
  <1> QED
    BY <1>1, <1>2, <1>3, <1>4, <1>5, <1>6, <1>7, <1>8, <1>9
       DEF Handles, ReadsChat, ReadsEmail

LEMMA DeedsKeepBooks ==
    ASSUME Books, NEW p, NEW c, NEW now, Deed(p, c, now)
    PROVE  Books'
  <1>1. CASE Handles(p, c, now)
    BY <1>1, HandlersKeepBooks
  <1>2. CASE Scripted(p, c, now)
    BY <1>2, PostsKeepBooks, DeliversKeepsBooks DEF Scripted, ScriptMails
  <1> QED
    BY <1>1, <1>2 DEF Deed

LEMMA BooksKept ==
    ASSUME Books, Running, [Next]_vars
    PROVE  Books'
  <1>1. CASE UNCHANGED officeVars
    BY <1>1 DEF officeVars, rowVars, Books
  <1>2. ASSUME NEW c \in Plots[plot].calls, Begin(c)
        PROVE  Books'
    BY <1>1, <1>2, HandlersKeepBooks DEF Begin
  <1>3. ASSUME NEW a \in Others, Happens(a)
        PROVE  Books'
    BY <1>3, OthersAct, DeedsKeepBooks
  <1>4. ASSUME MeetingHappens
        PROVE  Books'
    <2> DEFINE e == flight.call.event
               line == Line("meeting_transcript_added", [meeting_id |-> e], flight.until)
    <2>1. PICK s : Meets(e, s, flight.until)
      BY <1>4 DEF MeetingHappens
    <2>2. UNCHANGED <<messages, threads, emails, tasks>>
      BY <2>1 DEF Meets, rowVars
    <2>3. CASE e \in DOMAIN transcripts
      BY <2>1, <2>2, <2>3 DEF Meets, Books
    <2>4. CASE e \notin DOMAIN transcripts
      <3>1. DOMAIN transcripts' = DOMAIN transcripts \cup {e}
        BY <2>1, <2>4 DEF Meets, Put
      <3>2. events' = events \o <<line>>
        BY <2>1, <2>4 DEF Meets, Emits
      <3>3. line.kind = "meeting_transcript_added"
        BY DEF Line
      <3> HIDE DEF line, e
      <3>4. /\ BooksOf(events, messages, emails, threads, DOMAIN transcripts, tasks)
            /\ IsSeq(events)
        BY DEF Books, BooksOf
      <3>5. events' = Append(events, line)
        BY <3>2, <3>4, AppendRows
      <3>6. BooksOf(Append(events, line), messages, emails, threads,
                    DOMAIN transcripts \cup {e}, tasks)
        BY <2>4, <3>3, <3>4, MeetingLine
      <3> QED
        BY <2>2, <3>1, <3>5, <3>6 DEF Books
    <2> QED
      BY <2>3, <2>4
  <1>5. CASE \/ Return \/ RunEnds \/ Close \/ Crash
             \/ \E t \in Wakeups : ClockMoves(t)
             \/ \E f \in Artifacts : Finalize(f)
    BY <1>1, <1>5 DEF Return, RunEnds, Close, Crash, ClockMoves, Finalize
  <1> QED
    BY <1>1, <1>2, <1>3, <1>4, <1>5 DEF Next, vars, Others, Happens

-----------------------------------------------------------------------------
(* The theorems.                                                           *)

LEMMA InitiallyInOrder ==
    ASSUME Init
    PROVE  Running /\ OnDisk /\ Meetings /\ Books
  <1> USE DEF Init, OfficeInit
  <1>1. IsSeq(<<>>) /\ Len(<<>>) = 0 /\ DOMAIN <<>> = {}
    BY DEF IsSeq, Rows
  <1>2. Running
    BY <1>1 DEF Running
  <1>3. OnDisk
    <2>1. turns_jsonl = [i \in DOMAIN turns |-> Logged(turns[i])]
      BY <1>1
    <2> QED
      BY <2>1 DEF OnDisk
  <1>4. Meetings
    <2>1. DOMAIN transcripts = {}
      BY <1>1
    <2> QED
      BY <2>1, OfficeAssumption DEF Meetings, MeetingsOnRecord, Planned
  <1>5. Books
    <2>1. \A kind : KindIn(<<>>, kind) = {}
      BY <1>1 DEF KindIn
    <2>2. \A kind : Count(<<>>, kind) = 0
      BY <2>1, FS_EmptySet DEF Count
    <2>3. \A t, status : StatusTold(<<>>, t, status)
      BY <2>1 DEF StatusTold, StatusLine
    <2>4. IsFiniteSet(DOMAIN transcripts) /\ Cardinality(DOMAIN transcripts) = 0
      BY <1>1, FS_EmptySet
    <2> QED
      BY <1>1, <2>2, <2>3, <2>4, SeedsAreSequences, OfficeAssumption
         DEF Books, BooksOf
  <1> QED
    BY <1>2, <1>3, <1>4, <1>5

\* What has been recorded, on disk, in the calendar and in the lines, follows
\* what happened, at every moment of every run.
THEOREM Recording == Spec => [](Running /\ OnDisk /\ Meetings /\ Books)
  <1>1. Init => Running /\ OnDisk /\ Meetings /\ Books
    BY InitiallyInOrder
  <1>2. ASSUME Running, OnDisk, Meetings, Books, [Next]_vars
        PROVE  (Running /\ OnDisk /\ Meetings /\ Books)'
    BY <1>2, RunningKept, OnDiskKept, MeetingsKept, BooksKept
  <1> QED
    BY <1>1, <1>2, PTL DEF Spec

\* A directory the evaluator can open has every turn, the last state of the
\* World and the last minute.
THEOREM GradableIsComplete == Spec => []GradableRunsAreComplete
  <1>1. ASSUME OnDisk
        PROVE  GradableRunsAreComplete
    <2>1. ASSUME Gradable
          PROVE  "world_final.json" \in files /\ "run.json" \in files /\ files # {}
      BY <2>1 DEF Gradable
    <2> QED
      BY <1>1, <2>1 DEF OnDisk, GradableRunsAreComplete
  <1> QED
    BY <1>1, Recording, PTL

\* Such a run is graded at the full tier exactly when its time was used up.
THEOREM TierIsSound == Spec => []FullTierMeansTheEnd
  <1>1. ASSUME Running, OnDisk, Gradable
        PROVE  /\ FullRun(Recorded, End) <=> clock >= End
               /\ TurnsLeft => FullRun(Recorded, End)
    <2>1. run_json = {clock} /\ files # {}
      BY <1>1 DEF Gradable, OnDisk
    <2>2. Value(run_json) = clock
      BY <2>1 DEF Value
    <2>3. clock \in Nat /\ End \in Nat
      BY <1>1, SessionAssumption DEF Running
    <2>4. TurnsLeft => clock >= End
      BY <1>1, <2>1 DEF OnDisk
    <2>5. Len(turns) \in Nat /\ DOMAIN turns = 1 .. Len(turns)
      BY <1>1, AppendRows DEF Running
    <2>6. Len(turns_jsonl) = Len(turns)
      BY <1>1, <2>5, LenProperties DEF OnDisk
    <2>7. FinalTime(Recorded) = clock
      <3>1. Recorded.final = clock /\ Recorded.turns = turns_jsonl
        BY <2>2 DEF Recorded
      <3>2. CASE clock # 0
        BY <3>1, <3>2 DEF FinalTime
      <3>3. CASE clock = 0 /\ turns_jsonl = <<>>
        BY <3>1, <3>3 DEF FinalTime
      <3>4. CASE clock = 0 /\ turns_jsonl # <<>>
        <4>1. turns # <<>>
          BY <1>1, <3>4 DEF OnDisk
        <4>2. turns_jsonl[Len(turns_jsonl)].after = 0
          BY <1>1, <2>1, <2>6, <3>4, <4>1 DEF OnDisk
        <4> QED
          BY <3>1, <3>4, <4>2 DEF FinalTime, Last
      <3> QED
        BY <3>2, <3>3, <3>4
    <2> QED
      BY <2>3, <2>4, <2>7 DEF FullRun
  <1>2. ASSUME Running, OnDisk
        PROVE  FullTierMeansTheEnd
    BY <1>1, <1>2 DEF FullTierMeansTheEnd
  <1> QED
    BY <1>2, Recording, PTL

\* A meeting marked attended has a transcript, of a minute of it.
THEOREM MeetingsAreOnRecord == Spec => []MeetingsOnRecord
  <1>1. Meetings => MeetingsOnRecord
    BY DEF Meetings
  <1> QED
    BY <1>1, Recording, PTL

\* The lines of events.jsonl and the seed add up to the World, whatever rows,
\* threads and statuses the scenario had seeded before the recorder was wired.
THEOREM LinesTellTheWorld == Spec => []LinesAddUp
  <1>1. ASSUME Books
        PROVE  LinesAddUp
    <2>1. \A kind : LinesOf(kind) = KindIn(events, kind)
      BY DEF LinesOf, KindIn
    <2>2. \A t : LastLine(t) = StatusLine(events, t)
      BY <2>1 DEF LastLine, StatusLine
    <2> QED
      BY <1>1, <2>1, <2>2 DEF Books, BooksOf, Count, LinesAddUp, StatusTold
  <1> QED
    BY <1>1, Recording, PTL

-----------------------------------------------------------------------------
(* The records of the office.                                              *)

\* The rows have their types, and what has been read was written; the
\* calendar is typed in Meetings.
Rowed ==
    /\ messages \in Seq(Message) /\ emails \in Seq(Email)
    /\ threads \in Seq(Thread)
    /\ \A d \in DOMAIN docs : docs[d] \in Doc
    /\ \A e \in DOMAIN transcripts : transcripts[e] \in Transcript
    /\ seen.chats \subseteq DOMAIN messages
    /\ seen.emails \subseteq DOMAIN emails
    /\ seen = [chats |-> seen.chats, emails |-> seen.emails]

\* Every email is in a thread, whose participants its sender and those it is
\* addressed to have joined if it widened the thread.  A thread that was not
\* seeded was opened by an email.
Threaded ==
    /\ \A i \in DOMAIN emails : emails[i].thread \in DOMAIN threads
    /\ \A t \in DOMAIN threads : t > Len(InitialThreads) => EmailsIn(t) # {}
    /\ \A i \in DOMAIN emails : Widens(i) =>
          {emails[i].from} \cup emails[i].to
              \subseteq threads[emails[i].thread].participants

\* The call in flight, if there is one.
InFlight ==
    /\ phase \in Phases
    /\ phase \in {"waiting", "elapsing"} =>
          /\ flight = [call |-> flight.call, ok |-> flight.ok,
                       before |-> flight.before, until |-> flight.until,
                       shown |-> flight.shown]
          /\ flight.before \in Nat /\ flight.before <= flight.until
          /\ flight.ok \/ flight.call # Blank \/ flight.before < flight.until
    /\ npc_clock \in Nat
    /\ \A i \in DOMAIN turns : turns[i].before <= turns[i].after
    /\ files \subseteq Artifacts

\* A chat goes into a channel: a direct one, a seeded one, or one in which
\* there is a message already.
LEMMA ChannelsAreTyped ==
    ASSUME Rowed, NEW p \in Person, NEW c, WellFormed(c),
           \/ c.tool \in {"chat.dm", "npc_send_dm"}
           \/ /\ c.tool \in {"chat.send", "npc_send_chat"}
              /\ ChannelExists(c.channel)
    PROVE  ChannelOf(c, p) \in Channel
  <1>1. CASE c.tool \in {"chat.dm", "npc_send_dm"}
    <2>1. PICK q \in Person : c.to = {q}
      BY <1>1 DEF WellFormed
    <2>2. ChannelOf(c, p) = DmChannel(p, q)
      BY <2>1 DEF ChannelOf
    <2> QED
      BY <2>2 DEF DmChannel, Channel
  <1>2. CASE c.tool \in {"chat.send", "npc_send_chat"} /\ ChannelExists(c.channel)
    <2>1. c.to = {} /\ ChannelExists(c.channel)
      BY <1>2 DEF WellFormed
    <2>2. ChannelOf(c, p) = c.channel
      BY <2>1 DEF ChannelOf
    <2>3. \A i \in DOMAIN messages : messages[i].channel \in Channel
      <3> SUFFICES ASSUME NEW i \in DOMAIN messages PROVE messages[i].channel \in Channel
        OBVIOUS
      <3>1. messages[i] \in Message
        BY LenProperties, ElementOfSeq DEF Rowed
      <3> QED
        BY <3>1 DEF Message
    <2> QED
      BY <2>1, <2>2, <2>3, OfficeAssumption DEF ChannelExists, Rows
  <1> QED
    BY <1>1, <1>2

LEMMA PostsKeepRows ==
    ASSUME Rowed, NEW p \in Person, NEW c, WellFormed(c), NEW now \in Nat,
           ChannelOf(c, p) \in Channel, Posts(p, c, now), UNCHANGED transcripts
    PROVE  Rowed'
  <1> DEFINE row == [channel |-> ChannelOf(c, p), from |-> p, mentions |-> c.mentions,
                     topics |-> c.topics, at |-> now]
  <1>1. row \in Message
    BY DEF WellFormed, Message
  <1>2. messages' = Append(messages, row)
    BY DEF Posts
  <1> HIDE DEF row
  <1>3. /\ messages' \in Seq(Message) /\ Len(messages') = Len(messages) + 1
        /\ DOMAIN messages' = 1 .. Len(messages') /\ DOMAIN messages = 1 .. Len(messages)
        /\ Len(messages) \in Nat
    BY <1>1, <1>2, AppendProperties, LenProperties DEF Rowed
  <1>4. DOMAIN messages \subseteq DOMAIN messages'
    BY <1>3
  <1> QED
    BY <1>3, <1>4 DEF Rowed, Posts

\* A new thread is opened among those the email concerns, and a thread that is
\* there is widened by all of them, or only the scenario says otherwise.
LEMMA DeliversKeepsRows ==
    ASSUME Rowed, Threaded, NEW p \in Person, NEW c, WellFormed(c), NEW now \in Nat,
           NEW joining \in SUBSET Person, NEW scripted \in BOOLEAN,
           c.thread \in 0 .. Len(threads), scripted \/ joining = {p} \cup c.to,
           Delivers(p, c, now, joining, scripted), UNCHANGED transcripts
    PROVE  Rowed' /\ Threaded'
  <1> DEFINE thread == IF c.thread = 0 THEN Len(threads) + 1 ELSE c.thread
             people == {p} \cup c.to
             row == [thread |-> thread, from |-> p, to |-> c.to,
                     topics |-> c.topics, at |-> now, scripted |-> scripted]
             conv == [subject |-> c.subject, participants |-> people]
  <1>1. Len(threads) \in Nat /\ DOMAIN threads = 1 .. Len(threads)
    BY LenProperties DEF Rowed
  <1>2. c.thread \in 0 .. Len(threads)
    OBVIOUS
  <1>3. people \in SUBSET Person /\ conv \in Thread /\ row \in Email
    BY <1>1, <1>2 DEF WellFormed, Thread, Email
  <1>4. /\ emails' = Append(emails, row)
        /\ threads' = IF c.thread = 0 THEN Append(threads, conv)
                      ELSE [threads EXCEPT ![thread].participants = @ \cup joining]
        /\ UNCHANGED <<messages, docs, seen>>
    BY DEF Delivers
  <1>5. /\ row.thread = thread /\ row.from = p /\ row.to = c.to
        /\ row.scripted = scripted
    OBVIOUS
  <1>6. PICK e : e = row
    OBVIOUS
  <1>7. PICK k : k = thread
    OBVIOUS
  <1>8. PICK P : P = people
    OBVIOUS
  <1>9. /\ threads' \in Seq(Thread) /\ k \in DOMAIN threads'
        /\ (c.thread = 0 \/ ~scripted) => P \subseteq threads'[k].participants
        /\ DOMAIN threads' = DOMAIN threads \cup {k}
        /\ c.thread # 0 => k \in DOMAIN threads
        /\ \A t \in DOMAIN threads :
              threads[t].participants \subseteq threads'[t].participants
    <2>1. CASE c.thread = 0
      <3>1. PICK v : v = conv
        OBVIOUS
      <3>2. v \in Thread /\ v.participants = P /\ threads' = Append(threads, v)
            /\ k = Len(threads) + 1
        BY <1>3, <1>4, <1>7, <1>8, <2>1, <3>1
      <3>3. /\ threads' \in Seq(Thread) /\ Len(threads') = Len(threads) + 1
            /\ DOMAIN threads' = 1 .. Len(threads')
            /\ \A t \in 1 .. Len(threads) : threads'[t] = threads[t]
            /\ threads'[Len(threads) + 1] = v
        BY <3>2, AppendProperties, LenProperties DEF Rowed
      <3> HIDE DEF thread, people, row, conv
      <3>4. DOMAIN threads' = DOMAIN threads \cup {k} /\ k \in DOMAIN threads'
        BY <1>1, <3>2, <3>3
      <3>5. P \subseteq threads'[k].participants
        BY <3>2, <3>3
      <3>6. \A t \in DOMAIN threads :
               threads[t].participants \subseteq threads'[t].participants
        BY <1>1, <3>3
      <3> QED
        BY <2>1, <3>3, <3>4, <3>5, <3>6
    <2>2. CASE c.thread # 0
      <3>1. k \in 1 .. Len(threads) /\ threads[k] \in Thread
        BY <1>1, <1>2, <1>7, <2>2, ElementOfSeq DEF Rowed
      <3>2. PICK v : v = [threads[k] EXCEPT !.participants = @ \cup joining]
        OBVIOUS
      <3>3. /\ v \in Thread
            /\ v.participants = threads[k].participants \cup joining
            /\ ~scripted => joining = P
        BY <1>3, <1>8, <3>1, <3>2 DEF Thread
      <3>4. threads' = [threads EXCEPT ![k] = v]
        BY <1>4, <1>7, <2>2, <3>2
      <3>5. /\ threads' \in Seq(Thread)
            /\ \A t \in 1 .. Len(threads) : threads'[t] = IF t = k THEN v ELSE threads[t]
            /\ DOMAIN threads' = DOMAIN threads
        BY <3>1, <3>3, <3>4, ExceptSeq DEF Rowed
      <3> QED
        BY <1>1, <2>2, <3>1, <3>3, <3>5
    <2> QED
      BY <2>1, <2>2
  <1> HIDE DEF thread, people, row, conv
  <1>10. /\ emails' \in Seq(Email) /\ Len(emails') = Len(emails) + 1
         /\ DOMAIN emails' = 1 .. Len(emails') /\ DOMAIN emails = 1 .. Len(emails)
         /\ Len(emails) \in Nat
         /\ \A i \in DOMAIN emails : emails'[i] = emails[i]
         /\ emails'[Len(emails) + 1] = e
    BY <1>3, <1>4, <1>6, AppendProperties, LenProperties DEF Rowed
  <1>11. DOMAIN emails \subseteq DOMAIN emails'
    BY <1>10
  <1>12. Rowed'
    BY <1>4, <1>9, <1>10, <1>11 DEF Rowed
  <1>13. e.thread = k /\ {e.from} \cup e.to = P /\ e.scripted = scripted
    BY <1>5, <1>6, <1>7, <1>8 DEF people
  <1>14. k \in DOMAIN threads' /\ \A i \in DOMAIN emails' : emails'[i].thread \in DOMAIN threads'
    BY <1>9, <1>10, <1>13 DEF Threaded
  <1>15. /\ Len(emails) + 1 \in EmailsIn(k)'
         /\ \A u : EmailsIn(u) \subseteq EmailsIn(u)'
    BY <1>10, <1>13 DEF EmailsIn
  <1>16. \A u \in DOMAIN threads' : u > Len(InitialThreads) => EmailsIn(u)' # {}
    BY <1>9, <1>15 DEF Threaded
  \* An email into a thread that was there opens none.
  <1>17. ASSUME c.thread # 0, scripted, NEW n, n = Len(emails) + 1
         PROVE  ~Widens(n)'
    <2>1. SUFFICES ASSUME Widens(n)' PROVE FALSE
      OBVIOUS
    <2>2. k > Len(InitialThreads) /\ \A j \in EmailsIn(k)' : n <= j
      <3>1. emails'[n].thread = k /\ emails'[n].scripted
        BY <1>10, <1>13, <1>17
      <3>2. OpensThread(n)'
        BY <2>1, <3>1 DEF Widens
      <3> QED
        BY <3>1, <3>2 DEF OpensThread
    <2>3. PICK j \in EmailsIn(k) : TRUE
      BY <1>9, <1>17, <2>2 DEF Threaded
    <2>4. j \in 1 .. Len(emails) /\ j \in EmailsIn(k)'
      BY <1>10, <1>15, <2>3 DEF EmailsIn
    <2> QED
      BY <1>10, <1>17, <2>2, <2>4
  \* And no email opens a thread later.
  <1>18. ASSUME NEW i \in DOMAIN emails, Widens(i)'
         PROVE  Widens(i)
    BY <1>10, <1>15, <1>18 DEF Widens, OpensThread
  <1>19. ASSUME NEW i \in DOMAIN emails', Widens(i)'
         PROVE  {emails'[i].from} \cup emails'[i].to
                   \subseteq threads'[emails'[i].thread].participants
    <2>1. CASE i = Len(emails) + 1
      <3>1. c.thread = 0 \/ ~scripted
        BY <1>17, <1>19, <2>1
      <3> QED
        BY <1>9, <1>10, <1>13, <2>1, <3>1
    <2>2. CASE i # Len(emails) + 1
      <3>1. i \in DOMAIN emails /\ emails'[i] = emails[i]
        BY <1>10, <2>2
      <3>2. /\ emails[i].thread \in DOMAIN threads
            /\ {emails[i].from} \cup emails[i].to
                  \subseteq threads[emails[i].thread].participants
        BY <1>18, <1>19, <3>1 DEF Threaded
      <3>3. PICK u : u = emails[i].thread
        OBVIOUS
      <3> QED
        BY <1>9, <3>1, <3>2, <3>3
    <2> QED
      BY <2>1, <2>2
  <1>20. Threaded'
    BY <1>14, <1>16, <1>19 DEF Threaded
  <1> QED
    BY <1>12, <1>20

\* What threads and emails say stands while there are no new ones.
LEMMA ThreadsStand ==
    ASSUME Threaded, UNCHANGED <<threads, emails>>
    PROVE  Threaded'
  BY DEF Threaded, Widens, OpensThread, EmailsIn

LEMMA ReadsKeepRows ==
    ASSUME Rowed, NEW p, NEW c, ReadsChat(p, c) \/ ReadsEmail(p, c),
           UNCHANGED transcripts
    PROVE  Rowed'
  <1>1. /\ ReadWindow(c, p) \subseteq DOMAIN messages
        /\ InChannel(ChannelOf(c, p)) \subseteq DOMAIN messages
        /\ EmailsIn(c.thread) \subseteq DOMAIN emails
    BY DEF ReadWindow, InChannel, Newest, EmailsIn
  <1>2. PICK C : C = (IF p # Agent THEN {}
                      ELSE IF c.tool = "chat.read" THEN ReadWindow(c, p)
                      ELSE InChannel(ChannelOf(c, p)))
    OBVIOUS
  <1>3. PICK E : E = (IF p = Agent THEN EmailsIn(c.thread) ELSE {})
    OBVIOUS
  <1>4. C \subseteq DOMAIN messages /\ E \subseteq DOMAIN emails
    BY <1>1, <1>2, <1>3
  <1>5. \/ seen' = [seen EXCEPT !.chats = @ \cup C]
        \/ seen' = [seen EXCEPT !.emails = @ \cup E]
    BY <1>2, <1>3 DEF ReadsChat, ReadsEmail
  <1>6. UNCHANGED <<messages, emails, threads, docs>>
    BY DEF ReadsChat, ReadsEmail, rowVars
  <1>7. /\ seen'.chats \subseteq DOMAIN messages /\ seen'.emails \subseteq DOMAIN emails
        /\ seen' = [chats |-> seen'.chats, emails |-> seen'.emails]
    BY <1>4, <1>5 DEF Rowed
  <1> QED
    BY <1>6, <1>7 DEF Rowed

LEMMA WritesDocKeepsRows ==
    ASSUME Rowed, NEW p \in Person, NEW c, WellFormed(c), NEW now \in Nat,
           Accepts(p, c, now), c.tool \in {"docs.create", "docs.edit", "docs.comment"},
           WritesDoc(p, c, now), UNCHANGED transcripts
    PROVE  Rowed'
  <1>1. PICK n : n = NoteOf(p, c, now)
    OBVIOUS
  <1>2. n \in Note
    BY <1>1 DEF NoteOf, Note, WellFormed
  <1>3. UNCHANGED <<messages, emails, threads, seen>>
    BY DEF WritesDoc, rowVars
  <1>4. \A d \in DOMAIN docs' : docs'[d] \in Doc
    <2>1. CASE c.tool = "docs.create"
      <3>1. PICK new : new = [acl_view |-> c.view, acl_edit |-> c.edit,
                              versions |-> <<n>>, comments |-> <<>>]
        OBVIOUS
      <3>2. new \in Doc
        <4>1. <<n>> \in Seq(Note) /\ <<>> \in Seq(Note)
          BY <1>2
        <4> QED
          BY <3>1, <4>1 DEF Doc, WellFormed
      <3>3. docs' = Put(docs, c.doc, new)
        BY <1>1, <2>1, <3>1 DEF WritesDoc
      <3> QED
        BY <3>2, <3>3 DEF Put, Rowed
    <2>2. CASE c.tool # "docs.create"
      <3>1. c.doc \in DOMAIN docs /\ docs[c.doc] \in Doc
        BY <2>2 DEF Accepts, Rowed
      <3>2. PICK V : V = Append(docs[c.doc].versions, n)
        OBVIOUS
      <3>3. PICK C : C = Append(docs[c.doc].comments, n)
        OBVIOUS
      <3>4. V \in Seq(Note) /\ C \in Seq(Note)
        <4>1. docs[c.doc].versions \in Seq(Note) /\ docs[c.doc].comments \in Seq(Note)
          BY <3>1 DEF Doc
        <4> QED
          BY <1>2, <3>2, <3>3, <4>1
      <3>5. \/ docs' = [docs EXCEPT ![c.doc].versions = V]
            \/ docs' = [docs EXCEPT ![c.doc].comments = C]
        BY <1>1, <2>2, <3>2, <3>3 DEF WritesDoc
      <3>6. docs'[c.doc] \in Doc
        <4>1. PICK D : D = docs[c.doc]
          OBVIOUS
        <4>2. docs'[c.doc] \in {[D EXCEPT !.versions = V], [D EXCEPT !.comments = C]}
          BY <3>1, <3>5, <4>1
        <4>3. [D EXCEPT !.versions = V] \in Doc /\ [D EXCEPT !.comments = C] \in Doc
          BY <3>1, <3>4, <4>1 DEF Doc
        <4> QED
          BY <4>2, <4>3
      <3>7. /\ DOMAIN docs' = DOMAIN docs
            /\ \A d \in DOMAIN docs : d # c.doc => docs'[d] = docs[d]
        BY <3>5
      <3> QED
        BY <3>6, <3>7 DEF Rowed
    <2> QED
      BY <2>1, <2>2
  <1> QED
    BY <1>3, <1>4 DEF Rowed

LEMMA HandlersKeepRows ==
    ASSUME Rowed, Threaded, NEW p \in Person, NEW c, WellFormed(c), NEW now \in Nat,
           Handles(p, c, now)
    PROVE  Rowed' /\ Threaded'
  <1>1. Accepts(p, c, now) /\ UNCHANGED transcripts
    BY DEF Handles
  <1>2. CASE c.tool \in {"chat.send", "chat.dm"} /\ Posts(p, c, now)
    <2>1. c.tool = "chat.send" => ChannelExists(c.channel)
      BY <1>1 DEF Accepts
    <2>2. UNCHANGED <<emails, threads>>
      BY <1>2 DEF Posts
    <2> QED
      BY <1>1, <1>2, <2>1, <2>2, ChannelsAreTyped, PostsKeepRows, ThreadsStand
  <1>3. CASE c.tool = "email.send" /\ Mails(p, c, now)
    <2>1. c.thread \in 0 .. Len(threads)
      BY <1>1, <1>3 DEF Accepts
    <2>2. PICK J : J = {p} \cup c.to
      OBVIOUS
    <2>3. J \in SUBSET Person /\ Delivers(p, c, now, J, FALSE)
      BY <1>3, <2>2 DEF Mails, WellFormed
    <2> QED
      BY <1>1, <2>1, <2>2, <2>3, DeliversKeepsRows
  <1>4. CASE ReadsChat(p, c) \/ ReadsEmail(p, c)
    BY <1>1, <1>4, ReadsKeepRows, ThreadsStand DEF ReadsChat, ReadsEmail, rowVars
  <1>5. CASE c.tool \in {"docs.create", "docs.edit", "docs.comment"} /\ WritesDoc(p, c, now)
    BY <1>1, <1>5, WritesDocKeepsRows, ThreadsStand DEF WritesDoc, rowVars
  <1>6. CASE UNCHANGED <<rowVars, docs, seen>>
    BY <1>1, <1>6, ThreadsStand DEF Rowed, rowVars
  <1> QED
    BY <1>2, <1>3, <1>4, <1>5, <1>6
       DEF Handles, PlansEvent, MovesTask, CommentsTask, LogsWork

LEMMA ScriptsKeepRows ==
    ASSUME Rowed, Threaded, NEW p \in Person, NEW c, WellFormed(c), NEW now \in Nat,
           Scripted(p, c, now)
    PROVE  Rowed' /\ Threaded'
  <1>1. UNCHANGED transcripts
    BY DEF Scripted
  <1>2. CASE /\ Posts(p, c, now)
             /\ \/ c.tool = "npc_send_dm"
                \/ c.tool = "npc_send_chat" /\ ChannelExists(c.channel)
    <2>1. UNCHANGED <<emails, threads>>
      BY <1>2 DEF Posts
    <2> QED
      BY <1>1, <1>2, <2>1, ChannelsAreTyped, PostsKeepRows, ThreadsStand
  <1>3. CASE c.thread \in 0 .. Len(threads) /\ ScriptMails(p, c, now)
    <2>1. Delivers(p, c, now, {}, TRUE)
      BY <1>3 DEF ScriptMails
    <2> QED
      BY <1>1, <1>3, <2>1, DeliversKeepsRows
  <1> QED
    BY <1>2, <1>3 DEF Scripted

LEMMA RowsKept ==
    ASSUME Rowed, Threaded, Running, Meetings, InFlight, [Next]_vars
    PROVE  Rowed' /\ Threaded'
  <1>1. CASE UNCHANGED officeVars
    BY <1>1, ThreadsStand DEF officeVars, rowVars, Rowed
  <1>2. ASSUME NEW c \in Plots[plot].calls, Begin(c)
        PROVE  Rowed' /\ Threaded'
    <2>1. WellFormed(c) /\ clock \in Nat /\ Agent \in Person
      BY CallsAreWellFormed, AgentAssumption DEF Running
    <2> QED
      BY <1>1, <1>2, <2>1, HandlersKeepRows DEF Begin
  <1>3. ASSUME NEW a \in Others, Happens(a)
        PROVE  Rowed' /\ Threaded'
    BY <1>3, OthersAct, HandlersKeepRows, ScriptsKeepRows DEF Deed
  <1>4. ASSUME MeetingHappens
        PROVE  Rowed' /\ Threaded'
    <2> DEFINE e == flight.call.event
    <2>1. PICK s \in SUBSET (calendar[e].attendees \ {Agent}) :
             Meets(e, s, flight.until)
      BY <1>4 DEF MeetingHappens
    <2>2. /\ e \in DOMAIN calendar /\ calendar[e] \in CalendarEvent
          /\ flight.until \in Nat
      BY <1>4 DEF MeetingHappens, Meetings, Planned, Running
    <2>3. UNCHANGED <<messages, emails, threads, docs, seen>>
      BY <2>1 DEF Meets, rowVars
    <2>4. PICK new : new = [generated_at |-> flight.until, speakers |-> s]
      OBVIOUS
    <2>5. new \in Transcript
      BY <2>2, <2>4 DEF Transcript, CalendarEvent
    <2>6. transcripts' = transcripts \/ transcripts' = Put(transcripts, e, new)
      BY <2>1, <2>4 DEF Meets
    <2> HIDE DEF e
    <2>7. \A id \in DOMAIN transcripts' : transcripts'[id] \in Transcript
      BY <2>5, <2>6 DEF Put, Rowed
    <2> QED
      BY <2>3, <2>7, ThreadsStand DEF Rowed
  <1>5. CASE \/ Return \/ RunEnds \/ Close \/ Crash
             \/ \E t \in Wakeups : ClockMoves(t)
             \/ \E f \in Artifacts : Finalize(f)
    BY <1>1, <1>5 DEF Return, RunEnds, Close, Crash, ClockMoves, Finalize
  <1> QED
    BY <1>1, <1>2, <1>3, <1>4, <1>5 DEF Next, vars, Others, Happens

\* A call ends when it begins or later, and one that ends at once is either
\* accepted or not blank: a blank one costs a minute.
LEMMA CallsTakeTime ==
    ASSUME NEW c, WellFormed(c), clock \in Nat, \A id \in DOMAIN calendar : Planned(id)
    PROVE  /\ clock <= Ends(c)
           /\ Accepts(Agent, c, clock) \/ c # Blank \/ clock < Ends(c)
  <1>1. DeclaredCost(c) \in Nat
    BY CostsAreNatural
  <1>2. CASE ~Accepts(Agent, c, clock)
    <2>1. Ends(c) = clock + DeclaredCost(c)
      BY <1>2 DEF Ends
    <2>2. c = Blank => DeclaredCost(c) = 1
      <3>1. Blank.tool = ""
        BY DEF Blank
      <3>2. c = Blank => c.tool = ""
        BY <3>1
      <3> QED
        BY <3>2 DEF DeclaredCost
    <2> QED
      BY <1>1, <2>1, <2>2
  <1>3. CASE Accepts(Agent, c, clock) /\ c.tool = "meetings.attend"
    <2>1. Ends(c) = Max2(clock, calendar[c.event].start)
      BY <1>3 DEF Ends
    <2>2. calendar[c.event].start \in Int
      BY <1>3 DEF Accepts, Planned, CalendarEvent
    <2> QED
      BY <1>3, <2>1, <2>2 DEF Max2
  <1>4. CASE Accepts(Agent, c, clock) /\ c.tool # "meetings.attend"
    <2>1. c.tool = "wait.until" => c.end >= clock /\ c.end \in Int
      BY <1>4 DEF Accepts, WellFormed
    <2> QED
      BY <1>1, <1>4, <2>1 DEF Ends
  <1> QED
    BY <1>2, <1>3, <1>4

LEMMA FlightKept ==
    ASSUME Running, OnDisk, Meetings, InFlight, [Next]_vars
    PROVE  InFlight'
  <1> USE DEF InFlight, Phases
  <1>1. ASSUME NEW c \in Plots[plot].calls, Begin(c)
        PROVE  InFlight'
    <2>1. WellFormed(c) /\ clock \in Nat
      BY CallsAreWellFormed DEF Running
    <2>2. /\ clock <= Ends(c)
          /\ Accepts(Agent, c, clock) \/ c # Blank \/ clock < Ends(c)
      BY <2>1, CallsTakeTime DEF Meetings
    <2>3. PICK shown : flight' = [call |-> c, ok |-> Accepts(Agent, c, clock),
                                  before |-> clock, until |-> Ends(c), shown |-> shown]
      BY <1>1 DEF Begin
    <2>4. /\ phase' \in {"waiting", "elapsing"}
          /\ UNCHANGED <<turns, npc_clock, files>>
      BY <1>1 DEF Begin, diskVars
    <2>5. /\ flight'.call = c /\ flight'.ok = Accepts(Agent, c, clock)
          /\ flight'.before = clock /\ flight'.until = Ends(c)
          /\ flight' = [call |-> flight'.call, ok |-> flight'.ok,
                        before |-> flight'.before, until |-> flight'.until,
                        shown |-> flight'.shown]
      BY <2>3
    <2> QED
      BY <2>1, <2>2, <2>4, <2>5
  <1>2. ASSUME MeetingHappens
        PROVE  InFlight'
    <2> DEFINE e == calendar[flight.call.event]
    <2>1. PICK u : u = Max2(flight.until, e.end)
      OBVIOUS
    <2>2. /\ phase = "waiting" /\ phase' = "elapsing"
          /\ flight' = [flight EXCEPT !.until = u]
          /\ UNCHANGED <<turns, npc_clock, files>>
      BY <1>2, <2>1 DEF MeetingHappens, diskVars
    <2>3. e \in CalendarEvent /\ flight.until \in Nat
      BY <2>2 DEF Meetings, Planned, Running
    <2>4. u \in Int /\ flight.until <= u
      BY <2>1, <2>3 DEF Max2, CalendarEvent
    <2>5. /\ flight'.call = flight.call /\ flight'.ok = flight.ok
          /\ flight'.before = flight.before /\ flight'.until = u
          /\ flight' = [call |-> flight'.call, ok |-> flight'.ok,
                        before |-> flight'.before, until |-> flight'.until,
                        shown |-> flight'.shown]
      BY <2>2
    <2> QED
      BY <2>2, <2>3, <2>4, <2>5
  <1>3. ASSUME Return
        PROVE  InFlight'
    <2>1. /\ turns' = Append(turns, TurnOf(flight)) /\ phase' = "idle"
          /\ UNCHANGED <<npc_clock, files>> /\ phase = "elapsing"
      BY <1>3 DEF Return
    <2>2. PICK t : t = TurnOf(flight)
      OBVIOUS
    <2>3. t.before <= t.after
      BY <2>1, <2>2 DEF TurnOf
    <2>4. /\ DOMAIN turns' = 1 .. (Len(turns) + 1) /\ DOMAIN turns = 1 .. Len(turns)
          /\ \A i \in DOMAIN turns : turns'[i] = turns[i]
          /\ turns'[Len(turns) + 1] = t /\ Len(turns) \in Nat
      BY <2>1, <2>2, AppendRows DEF Running
    <2> QED
      BY <2>1, <2>3, <2>4
  <1>4. ASSUME NEW a \in Others, Happens(a)
        PROVE  InFlight'
    BY <1>4, OthersAct DEF diskVars
  <1>5. ASSUME NEW t \in Wakeups, ClockMoves(t)
        PROVE  InFlight'
    BY <1>5 DEF ClockMoves, diskVars
  <1>6. ASSUME NEW f \in Artifacts, Finalize(f)
        PROVE  InFlight'
    BY <1>6 DEF Finalize, runVars
  <1>7. CASE RunEnds \/ Close \/ Crash
    BY <1>7 DEF RunEnds, Close, Crash, diskVars
  <1>8. CASE UNCHANGED vars
    BY <1>8 DEF vars, runVars, diskVars
  <1> QED
    BY <1>1, <1>2, <1>3, <1>4, <1>5, <1>6, <1>7, <1>8
       DEF Next, Others, Happens

-----------------------------------------------------------------------------
(* Who wrote what, and when.                                               *)

\* What the agent wrote is no later than the clock, or, while its call is in
\* flight, than the minute it was called.
OwnRows ==
    \A r \in Rows(messages) \cup Rows(emails) : r.from = Agent =>
        /\ phase = "idle" => r.at <= clock
        /\ phase \in {"waiting", "elapsing"} => r.at <= flight.before

\* Rows that are added are their sender's, of this minute.
LEMMA DeedsSign ==
    ASSUME Rowed, NEW p, NEW c, NEW now, Deed(p, c, now)
    PROVE  /\ Rows(messages) \subseteq Rows(messages')
           /\ Rows(emails) \subseteq Rows(emails')
           /\ \A r \in Rows(messages') :
                 r \in Rows(messages) \/ (r.from = p /\ r.at = now)
           /\ \A r \in Rows(emails') :
                 r \in Rows(emails) \/ (r.from = p /\ r.at = now)
  <1>1. IsSeq(messages) /\ IsSeq(emails)
    BY LenProperties, SeqDef DEF Rowed, IsSeq, Rows
  <1>2. CASE Posts(p, c, now)
    <2>1. PICK row : /\ messages' = Append(messages, row)
                     /\ row.from = p /\ row.at = now
      BY <1>2 DEF Posts
    <2>2. UNCHANGED emails
      BY <1>2 DEF Posts
    <2> QED
      BY <1>1, <2>1, <2>2, AppendRows DEF Rows
  <1>3. CASE \E joining, scripted : Delivers(p, c, now, joining, scripted)
    <2>1. PICK row : /\ emails' = Append(emails, row)
                     /\ row.from = p /\ row.at = now
      BY <1>3 DEF Delivers
    <2>2. UNCHANGED messages
      BY <1>3 DEF Delivers
    <2> QED
      BY <1>1, <2>1, <2>2, AppendRows DEF Rows
  <1>4. CASE UNCHANGED <<messages, emails>>
    BY <1>4 DEF Rows
  <1> QED
    BY <1>2, <1>3, <1>4
       DEF Deed, Handles, Scripted, Mails, ScriptMails, ReadsChat, ReadsEmail,
           WritesDoc, PlansEvent, MovesTask, CommentsTask, LogsWork, rowVars

LEMMA OwnRowsKept ==
    ASSUME Rowed, Running, InFlight, OwnRows, Meetings, [Next]_vars
    PROVE  OwnRows'
  <1> USE DEF OwnRows
  <1>0. /\ \A r \in Rows(messages) \cup Rows(emails) : r.at \in Nat
        /\ clock \in Nat
    <2>1. /\ \A i \in DOMAIN messages : messages[i] \in Message
          /\ \A i \in DOMAIN emails : emails[i] \in Email
      BY LenProperties, ElementOfSeq DEF Rowed
    <2> QED
      BY <2>1 DEF Rows, Message, Email, Running
  <1>1. ASSUME NEW c \in Plots[plot].calls, Begin(c)
        PROVE  OwnRows'
    <2>1. /\ phase = "idle" /\ phase' \in {"waiting", "elapsing"}
          /\ flight'.before = clock
      BY <1>1 DEF Begin
    <2>2. CASE UNCHANGED officeVars
      BY <2>1, <2>2 DEF officeVars, rowVars, Rows
    <2>3. CASE Handles(Agent, c, clock)
      BY <1>0, <2>1, <2>3, DeedsSign DEF Deed
    <2> QED
      BY <1>1, <2>2, <2>3 DEF Begin
  <1>2. ASSUME MeetingHappens
        PROVE  OwnRows'
    <2>1. PICK s : Meets(flight.call.event, s, flight.until)
      BY <1>2 DEF MeetingHappens
    <2>2. UNCHANGED <<messages, emails>>
      BY <2>1 DEF Meets, rowVars
    <2>3. PICK u : flight' = [flight EXCEPT !.until = u]
      BY <1>2 DEF MeetingHappens
    <2>4. /\ phase = "waiting" /\ phase' = "elapsing"
          /\ flight'.before = flight.before
      BY <1>2, <2>3 DEF MeetingHappens, InFlight
    <2> QED
      BY <2>2, <2>4 DEF Rows
  <1>3. ASSUME Return
        PROVE  OwnRows'
    <2>1. /\ phase = "elapsing" /\ phase' = "idle" /\ clock' = flight.until
          /\ UNCHANGED <<messages, emails>>
      BY <1>3 DEF Return, officeVars, rowVars
    <2>2. /\ flight.before \in Nat /\ flight.until \in Nat
          /\ flight.before <= flight.until
      BY <2>1 DEF InFlight, Running
    <2> QED
      BY <1>0, <2>1, <2>2 DEF Rows
  <1>4. ASSUME NEW a \in Others, Happens(a)
        PROVE  OwnRows'
    BY <1>4, OthersAct, DeedsSign
  <1>5. ASSUME NEW t \in Wakeups, ClockMoves(t)
        PROVE  OwnRows'
    <2>1. /\ phase = "idle" /\ phase' = "idle" /\ clock' = t /\ clock < t /\ t \in Nat
          /\ UNCHANGED <<messages, emails>>
      BY <1>5, SessionAssumption DEF ClockMoves, officeVars, rowVars
    <2> QED
      BY <1>0, <2>1 DEF Rows
  <1>6. CASE RunEnds \/ Close \/ Crash
    BY <1>6 DEF RunEnds, Close, Crash, officeVars, rowVars, Rows
  <1>7. ASSUME NEW f \in Artifacts, Finalize(f)
        PROVE  OwnRows'
    BY <1>7 DEF Finalize, officeVars, rowVars, runVars, Rows
  <1>8. CASE UNCHANGED vars
    BY <1>8 DEF vars, officeVars, rowVars, runVars, Rows
  <1> QED
    BY <1>1, <1>2, <1>3, <1>4, <1>5, <1>6, <1>7, <1>8
       DEF Next, Others, Happens

LEMMA InitialRecords ==
    ASSUME Init
    PROVE  Rowed /\ Threaded /\ InFlight /\ OwnRows
  <1> USE DEF Init, OfficeInit
  <1>1. Rows(<<>>) = {} /\ DOMAIN <<>> = {}
    BY DEF Rows
  <1>2. Rowed
    BY <1>1, OfficeAssumption DEF Rowed
  \* No seeded email widens a thread, and none is the agent's.
  <1>3. Threaded /\ OwnRows
    <2>1. /\ DOMAIN threads = 1 .. Len(InitialThreads) /\ Len(InitialThreads) \in Nat
          /\ DOMAIN emails = 1 .. Len(InitialEmails) /\ Len(InitialEmails) \in Nat
      BY OfficeAssumption, LenProperties
    <2>2. \A i \in DOMAIN emails : ~Widens(i) /\ emails[i].thread \in DOMAIN threads
      BY <2>1, OfficeAssumption DEF Widens
    <2>3. \A r \in Rows(messages) \cup Rows(emails) : r.from # Agent
      BY OfficeAssumption DEF Rows
    <2> QED
      BY <2>1, <2>2, <2>3 DEF Threaded, OwnRows
  <1>4. InFlight
    BY <1>1 DEF InFlight, Phases
  <1> QED
    BY <1>2, <1>3, <1>4

\* The records of a run and of the office it is a run of are well typed.
THEOREM Records == Spec => [](Rowed /\ Threaded /\ InFlight /\ OwnRows)
  <1>1. Init => Rowed /\ Threaded /\ InFlight /\ OwnRows
    BY InitialRecords
  <1>2. ASSUME Running, OnDisk, Meetings, Rowed, Threaded, InFlight, OwnRows, [Next]_vars
        PROVE  (Rowed /\ Threaded /\ InFlight /\ OwnRows)'
    BY <1>2, RowsKept, FlightKept, OwnRowsKept
  <1> QED
    BY <1>1, <1>2, Recording, PTL DEF Spec

\* Types: rows, documents, events and transcripts are what the World's
\* records say, what was read is there, no turn ends before it begins, and
\* every turn has its line.
THEOREM TypeCorrect == Spec => []TypeOK
  <1>1. ASSUME Running, OnDisk, Meetings, Rowed, InFlight
        PROVE  TypeOK
    <2>1. Len(turns_jsonl) = Len(turns)
      <3>1. Len(turns) \in Nat /\ DOMAIN turns = 1 .. Len(turns)
        BY <1>1, AppendRows DEF Running
      <3> QED
        BY <1>1, <3>1 DEF OnDisk
    <2>2. OfficeTypeOK
      BY <1>1 DEF OfficeTypeOK, Rowed, Meetings, Planned
    <2> QED
      BY <1>1, <2>1, <2>2 DEF TypeOK, Running, InFlight
  <1> QED
    BY <1>1, Recording, Records, PTL

-----------------------------------------------------------------------------
(* The briefing.                                                           *)

LEMMA RowsAreTyped ==
    ASSUME Rowed
    PROVE  /\ \A i \in DOMAIN messages : messages[i] \in Message /\ messages[i].at \in Nat
           /\ \A i \in DOMAIN emails : emails[i] \in Email /\ emails[i].at \in Nat
           /\ DOMAIN messages = 1 .. Len(messages) /\ Len(messages) \in Nat
           /\ DOMAIN emails = 1 .. Len(emails) /\ Len(emails) \in Nat
           /\ IsFiniteSet(DOMAIN messages) /\ IsFiniteSet(DOMAIN emails)
  <1>1. /\ \A i \in DOMAIN messages : messages[i] \in Message
        /\ \A i \in DOMAIN emails : emails[i] \in Email
        /\ DOMAIN messages = 1 .. Len(messages) /\ Len(messages) \in Nat
        /\ DOMAIN emails = 1 .. Len(emails) /\ Len(emails) \in Nat
    BY LenProperties, ElementOfSeq DEF Rowed
  <1>2. IsFiniteSet(1 .. Len(messages)) /\ IsFiniteSet(1 .. Len(emails))
    BY <1>1, FS_Interval
  <1> QED
    BY <1>1, <1>2 DEF Message, Email

\* Every thread with an email in a set has one that is its newest there.
LEMMA ThreadsHaveNewest ==
    ASSUME Rowed, NEW S \in SUBSET DOMAIN emails, NEW i \in S
    PROVE  \E j \in NewestPerThread(S) : emails[j].thread = emails[i].thread
  <1> DEFINE T == {j \in S : emails[j].thread = emails[i].thread}
             stamp == [j \in DOMAIN emails |-> emails[j].at]
  <1>1. IsFiniteSet(T)
    BY RowsAreTyped, FS_Subset
  <1>2. \A j \in T : stamp[j] \in Int
    BY RowsAreTyped
  <1>3. PICK k \in T : \A j \in T : stamp[j] <= stamp[k]
    <2>1. T # {}
      OBVIOUS
    <2> HIDE DEF T, stamp
    <2> QED
      BY <1>1, <1>2, <2>1, LargestOfFinite
  <1> DEFINE L == {j \in T : emails[j].at = emails[k].at}
  <1>4. PICK j \in L : \A m \in L : j <= m
    <2>1. L \in SUBSET Nat /\ L # {}
      BY <1>3, RowsAreTyped
    <2> HIDE DEF L
    <2> QED
      BY <2>1, LeastNatural
  <1>5. ASSUME NEW m \in S \ {j}, emails[m].thread = emails[j].thread
        PROVE  \/ emails[m].at < emails[j].at
               \/ emails[m].at = emails[j].at /\ j < m
    <2>1. m \in T /\ emails[m].at \in Nat /\ emails[k].at \in Nat
          /\ emails[j].at = emails[k].at /\ m \in Nat /\ j \in Nat
      BY <1>3, <1>4, <1>5, RowsAreTyped
    <2>2. emails[m].at <= emails[k].at
      BY <1>3, <2>1
    <2>3. CASE emails[m].at = emails[k].at
      <3>1. j <= m
        BY <1>4, <2>1, <2>3
      <3> QED
        BY <2>1, <2>3, <3>1
    <2> QED
      BY <2>1, <2>2, <2>3
  <1>6. j \in NewestPerThread(S)
    BY <1>4, <1>5 DEF NewestPerThread
  <1> QED
    BY <1>4, <1>6

\* What reaches the agent in a direct channel, unread, is in both briefings.
LEMMA ChatsAreBriefed ==
    ASSUME Rowed, NEW i \in DOMAIN messages, i \notin seen.chats,
           InDmOf(messages[i], Agent), messages[i].from # Agent
    PROVE  LET ch == messages[i].channel IN
           /\ \E u \in UnreadChats : u.channel = ch
           /\ \A since \in 0 .. (messages[i].at - 1) :
                 \E u \in DeltaChats(since) : u.channel = ch
           /\ Accepts(Agent, [Blank EXCEPT !.tool = "chat.read", !.channel = ch], clock)
  <1>1. PICK ch : ch = messages[i].channel
    OBVIOUS
  <1>2. /\ ch \in UsedChannels /\ Agent \in ch.members
        /\ i \in InChannel(ch) /\ messages[i].at \in Nat
    BY <1>1, RowsAreTyped DEF UsedChannels, InDmOf, InChannel, Rows
  <1>3. \E u \in UnreadChats : u.channel = ch
    <2>1. Listable(ch) /\ Unread(ch) # {}
      BY <1>2 DEF Listable, Unread
    <2>2. [channel |-> ch, count |-> Cardinality(Unread(ch)),
           quoted |-> Quoted(Unread(ch))] \in UnreadChats
      BY <1>2, <2>1 DEF UnreadChats
    <2> QED
      BY <2>2
  <1>4. ASSUME NEW since \in 0 .. (messages[i].at - 1)
        PROVE  \E u \in DeltaChats(since) : u.channel = ch
    <2>1. messages[i].at > since
      BY <1>2
    <2>2. ChannelVisibleTo(ch, Agent) /\ New(ch, since) # {}
      BY <1>2, <2>1 DEF ChannelVisibleTo, New
    <2>3. [channel |-> ch, count |-> Cardinality(New(ch, since)),
           quoted |-> Quoted(New(ch, since))] \in DeltaChats(since)
      BY <1>2, <2>2 DEF DeltaChats
    <2> QED
      BY <2>3
  <1>5. Accepts(Agent, [Blank EXCEPT !.tool = "chat.read", !.channel = ch], clock)
    <2>1. PICK c : c = [Blank EXCEPT !.tool = "chat.read", !.channel = ch]
      OBVIOUS
    <2>2. c.tool = "chat.read" /\ c.channel = ch /\ c.to = {}
      BY <2>1 DEF Blank
    <2>3. ChannelOf(c, Agent) = ch
      BY <2>2 DEF ChannelOf
    <2>4. ChannelExists(ch) /\ ChannelVisibleTo(ch, Agent)
      BY <1>2 DEF ChannelExists, ChannelVisibleTo, UsedChannels
    <2>5. Accepts(Agent, c, clock)
      BY <2>2, <2>3, <2>4 DEF Accepts
    <2> QED
      BY <2>1, <2>5
  <1> QED
    BY <1>1, <1>3, <1>4, <1>5

\* What is addressed to the agent by email, unread, is in both briefings, and
\* may be read in full if the agent has joined the thread by it.
LEMMA EmailsAreBriefed ==
    ASSUME Rowed, Threaded, NEW i \in DOMAIN emails, i \notin seen.emails,
           ReachesByEmail(emails[i], Agent)
    PROVE  LET t == emails[i].thread IN
           /\ \E j \in UnreadEmails : emails[j].thread = t
           /\ \A since \in 0 .. (emails[i].at - 1) :
                 \E j \in DeltaEmails(since) : emails[j].thread = t
           /\ Widens(i) => MayRead(Agent, t)
  <1>1. PICK t : t = emails[i].thread
    OBVIOUS
  <1>2. \E j \in UnreadEmails : emails[j].thread = t
    <2>1. PICK S : S = {k \in DOMAIN emails :
                          ReachesByEmail(emails[k], Agent) /\ k \notin seen.emails}
      OBVIOUS
    <2>2. S \in SUBSET DOMAIN emails /\ i \in S
      BY <2>1
    <2> QED
      BY <1>1, <2>1, <2>2, ThreadsHaveNewest DEF UnreadEmails
  <1>3. ASSUME NEW since \in 0 .. (emails[i].at - 1)
        PROVE  \E j \in DeltaEmails(since) : emails[j].thread = t
    <2>1. emails[i].at > since
      BY RowsAreTyped
    <2>2. PICK S : S = {k \in DOMAIN emails :
                          ReachesByEmail(emails[k], Agent) /\ emails[k].at > since}
      OBVIOUS
    <2>3. S \in SUBSET DOMAIN emails /\ i \in S
      BY <2>1, <2>2
    <2> QED
      BY <1>1, <2>2, <2>3, ThreadsHaveNewest DEF DeltaEmails
  <1>4. ASSUME Widens(i)
        PROVE  MayRead(Agent, t)
    <2>1. PICK c : c = [Blank EXCEPT !.tool = "email.read", !.thread = t]
      OBVIOUS
    <2>2. c.tool = "email.read" /\ c.thread = t
      BY <2>1 DEF Blank
    <2>3. t \in DOMAIN threads /\ Agent \in threads[t].participants
      BY <1>1, <1>4 DEF Threaded, ReachesByEmail
    <2>4. Accepts(Agent, c, clock)
      BY <2>2, <2>3 DEF Accepts
    <2> QED
      BY <2>1, <2>4 DEF MayRead
  <1> QED
    BY <1>1, <1>2, <1>3, <1>4

\* Every direct message and email to the agent, whoever sent, scripted or
\* seeded it, is listed until it is read, and can be read in full where the
\* sender made the agent a participant.
THEOREM NothingIsHiddenFromTheAgent == Spec => []InboundIsBriefed
  <1>1. ASSUME Rowed, Threaded
        PROVE  InboundIsBriefed
    BY <1>1, ChatsAreBriefed, EmailsAreBriefed DEF InboundIsBriefed
  <1> QED
    BY <1>1, Records, PTL

-----------------------------------------------------------------------------
(* Artifacts.                                                              *)

\* Of the emails that match there is a last one.
LEMMA EmailBodyIsFound ==
    ASSUME Rowed, NEW loc, EmailArtifacts(World, loc) # {}
    PROVE  EmailBody(World, loc) # {}
  <1>1. PICK A : A = EmailArtifacts(World, loc)
    OBVIOUS
  <1>2. World.emails = emails
    BY DEF World
  <1>3. A \subseteq Rows(emails)
    BY <1>1, <1>2 DEF EmailArtifacts
  <1>4. IsFiniteSet(Rows(emails))
    <2>1. emails = [i \in DOMAIN emails |-> emails[i]]
      BY LenProperties DEF Rowed
    <2> QED
      BY <2>1, RowsAreTyped, FiniteImage DEF Rows
  <1>5. IsFiniteSet(A)
    BY <1>3, <1>4, FS_Subset
  <1> DEFINE stamp == [e \in A |-> e.at]
  <1>6. \A e \in A : stamp[e] \in Int
    BY <1>3, RowsAreTyped DEF Rows
  <1>7. PICK e \in A : \A f \in A : stamp[f] <= stamp[e]
    <2> HIDE DEF stamp
    <2> QED
      BY <1>1, <1>5, <1>6, LargestOfFinite
  <1>8. \A f \in A : f.at <= e.at
    BY <1>7
  <1> QED
    BY <1>1, <1>7, <1>8 DEF EmailBody

\* The two locators look into the same places, but for comments.
LEMMA DecisionsAreFound ==
    ASSUME NEW w, NEW loc
    PROVE  /\ DecisionTimes(w, loc) # {} => DecisionChunks(w, loc) # {}
           /\ DecisionChunks(w, loc) # {} /\ DecisionTimes(w, loc) = {}
                 => CommentHits(w, loc) # {}
  <1>1. PICK R : R = {r \in Rows(w.messages) \cup Rows(w.emails) :
                        Allowed(r.from, loc.from) /\ Mentions(r.topics, loc.topics)}
    OBVIOUS
  <1>2. PICK V : V = {v \in UNION {Rows(w.docs[d].versions) : d \in DOMAIN w.docs} :
                        Allowed(v.author, loc.from) /\ Mentions(v.topics, loc.topics)}
    OBVIOUS
  <1>3. DecisionTimes(w, loc) = {r.at : r \in R} \cup {v.at : v \in V}
    BY <1>1, <1>2 DEF DecisionTimes
  <1>4. DecisionChunks(w, loc) = R \cup V \cup CommentHits(w, loc)
    BY <1>1, <1>2 DEF DecisionChunks
  <1> QED
    BY <1>3, <1>4

\* The copies of the artifact locator agree, but for comments on documents.
THEOREM LocatorsAgree == Spec => []TimedArtifactsAreFound
  <1>1. ASSUME Rowed, NEW loc
        PROVE  /\ ArtifactTime(World, loc) # {} => ArtifactFound(World, loc)
               /\ ArtifactTime(World, loc) = {} /\ ArtifactFound(World, loc)
                     => loc.kind = "decision_signal" /\ CommentHits(World, loc) # {}
    <2>1. PICK w : w = World
      OBVIOUS
    <2>2. \A S : Earliest(S) = {} <=> S = {}
      BY DEF Earliest
    <2>3. CASE loc.kind = "email_thread"
      <3>1. ArtifactTime(w, loc) # {} <=> EmailArtifacts(w, loc) # {}
        <4>1. ArtifactTime(w, loc) = Earliest({e.at : e \in EmailArtifacts(w, loc)})
          BY <2>3 DEF ArtifactTime
        <4>2. {e.at : e \in EmailArtifacts(w, loc)} = {}
                 <=> EmailArtifacts(w, loc) = {}
          OBVIOUS
        <4> QED
          BY <2>2, <4>1, <4>2
      <3>2. EmailArtifacts(w, loc) # {} <=> EmailBody(w, loc) # {}
        BY <1>1, <2>1, EmailBodyIsFound DEF EmailBody
      <3>3. ArtifactFound(w, loc) <=> EmailBody(w, loc) # {}
        BY <2>3 DEF ArtifactFound
      <3> QED
        BY <2>1, <3>1, <3>2, <3>3
    <2>4. CASE loc.kind = "decision_signal"
      <3>1. ArtifactTime(w, loc) # {} <=> DecisionTimes(w, loc) # {}
        BY <2>2, <2>4 DEF ArtifactTime
      <3>2. ArtifactFound(w, loc) <=> DecisionChunks(w, loc) # {}
        BY <2>4 DEF ArtifactFound
      <3> QED
        BY <2>1, <2>4, <3>1, <3>2, DecisionsAreFound
    <2>5. CASE loc.kind \notin {"email_thread", "decision_signal"}
      <3>1. ArtifactTime(w, loc) = {} /\ ~ArtifactFound(w, loc)
        BY <2>2, <2>5 DEF ArtifactTime, ArtifactFound
      <3> QED
        BY <2>1, <3>1
    <2> QED
      BY <2>3, <2>4, <2>5
  <1>2. ASSUME Rowed
        PROVE  TimedArtifactsAreFound
    <2> SUFFICES ASSUME NEW a \in Truth.artifacts
                 PROVE  IF ArtifactTime(World, a.locator) # {}
                        THEN ArtifactFound(World, a.locator)
                        ELSE ArtifactFound(World, a.locator) =>
                                /\ a.locator.kind = "decision_signal"
                                /\ CommentHits(World, a.locator) # {}
      BY DEF TimedArtifactsAreFound
    <2> QED
      BY <1>1, <1>2
  <1> QED
    BY <1>2, Records, PTL

-----------------------------------------------------------------------------
(* Turns and rows.                                                         *)

TurnsAt(s, tools, t) ==
    {i \in DOMAIN s : s[i].ok /\ s[i].call.tool \in tools /\ s[i].before = t}
TurnsOn(s, doc, t) ==
    {i \in TurnsAt(s, {"docs.comment"}, t) : s[i].call.doc = doc}
NotesAt(notes, t) ==
    {i \in DOMAIN notes : notes[i].author = Agent /\ notes[i].at = t}

\* The turns s and the rows ms, es and ds tell one story.
Story(s, ms, es, ds) ==
    /\ \A t : /\ Cardinality(WrittenAt(ms, t))
                    = Cardinality(TurnsAt(s, {"chat.send", "chat.dm"}, t))
              /\ Cardinality(WrittenAt(es, t))
                    = Cardinality(TurnsAt(s, {"email.send"}, t))
    /\ \A d \in DOMAIN ds : \A t :
          Cardinality(NotesAt(ds[d].comments, t)) = Cardinality(TurnsOn(s, d, t))
    /\ \A i \in DOMAIN s :
          s[i].ok /\ s[i].call.tool = "docs.comment" => s[i].call.doc \in DOMAIN ds

Told == IsSeq(Done) /\ Story(Done, messages, emails, docs)

\* Indices up to n + 1 are those up to n, and n + 1 or not.
LEMMA OneMoreIndex ==
    ASSUME NEW n \in Nat, NEW B \in SUBSET (1 .. (n + 1)), NEW A, A = B \cap (1 .. n)
    PROVE  Cardinality(B) = IF n + 1 \in B THEN Cardinality(A) + 1 ELSE Cardinality(A)
  <1>1. PICK H : H = 1 .. n
    OBVIOUS
  <1>2. IsFiniteSet(H) /\ n + 1 \notin H /\ 1 .. (n + 1) = H \cup {n + 1}
    <2>1. IsFiniteSet(1 .. n)
      BY FS_Interval
    <2> QED
      BY <1>1, <2>1
  <1>3. IsFiniteSet(A) /\ n + 1 \notin A
    BY <1>1, <1>2, FS_Subset
  <1>4. CASE n + 1 \in B
    <2>1. B = A \cup {n + 1}
      BY <1>1, <1>2, <1>4
    <2> QED
      BY <1>3, <1>4, <2>1, FS_AddElement
  <1>5. CASE n + 1 \notin B
    <2>1. B = A
      BY <1>1, <1>2, <1>5
    <2> QED
      BY <1>5, <2>1
  <1> QED
    BY <1>4, <1>5

LEMMA WrittenOnceMore ==
    ASSUME NEW rows, IsSeq(rows), NEW row, NEW t
    PROVE  Cardinality(WrittenAt(Append(rows, row), t)) =
              IF row.from = Agent /\ row.at = t
              THEN Cardinality(WrittenAt(rows, t)) + 1
              ELSE Cardinality(WrittenAt(rows, t))
  <1>1. PICK more : more = Append(rows, row)
    OBVIOUS
  <1>2. /\ Len(rows) \in Nat /\ DOMAIN rows = 1 .. Len(rows)
        /\ DOMAIN more = 1 .. (Len(rows) + 1)
        /\ \A i \in DOMAIN rows : more[i] = rows[i]
        /\ more[Len(rows) + 1] = row
    BY <1>1, AppendRows
  <1>3. PICK n \in Nat : n = Len(rows)
    BY <1>2
  <1>4. /\ WrittenAt(more, t) \in SUBSET (1 .. (n + 1))
        /\ WrittenAt(rows, t) = WrittenAt(more, t) \cap (1 .. n)
        /\ n + 1 \in WrittenAt(more, t) <=> row.from = Agent /\ row.at = t
    BY <1>2, <1>3 DEF WrittenAt
  <1> QED
    BY <1>1, <1>4, OneMoreIndex

LEMMA NotedOnceMore ==
    ASSUME NEW notes, IsSeq(notes), NEW note, NEW t
    PROVE  Cardinality(NotesAt(Append(notes, note), t)) =
              IF note.author = Agent /\ note.at = t
              THEN Cardinality(NotesAt(notes, t)) + 1
              ELSE Cardinality(NotesAt(notes, t))
  <1>1. PICK more : more = Append(notes, note)
    OBVIOUS
  <1>2. /\ Len(notes) \in Nat /\ DOMAIN notes = 1 .. Len(notes)
        /\ DOMAIN more = 1 .. (Len(notes) + 1)
        /\ \A i \in DOMAIN notes : more[i] = notes[i]
        /\ more[Len(notes) + 1] = note
    BY <1>1, AppendRows
  <1>3. PICK n \in Nat : n = Len(notes)
    BY <1>2
  <1>4. /\ NotesAt(more, t) \in SUBSET (1 .. (n + 1))
        /\ NotesAt(notes, t) = NotesAt(more, t) \cap (1 .. n)
        /\ n + 1 \in NotesAt(more, t) <=> note.author = Agent /\ note.at = t
    BY <1>2, <1>3 DEF NotesAt
  <1> QED
    BY <1>1, <1>4, OneMoreIndex

LEMMA TakenOnceMore ==
    ASSUME NEW s, IsSeq(s), NEW e, NEW tools, NEW t, NEW d
    PROVE  /\ Cardinality(TurnsAt(Append(s, e), tools, t)) =
                 IF e.ok /\ e.call.tool \in tools /\ e.before = t
                 THEN Cardinality(TurnsAt(s, tools, t)) + 1
                 ELSE Cardinality(TurnsAt(s, tools, t))
           /\ Cardinality(TurnsOn(Append(s, e), d, t)) =
                 IF /\ e.ok /\ e.call.tool = "docs.comment" /\ e.before = t
                    /\ e.call.doc = d
                 THEN Cardinality(TurnsOn(s, d, t)) + 1
                 ELSE Cardinality(TurnsOn(s, d, t))
  <1>1. PICK more : more = Append(s, e)
    OBVIOUS
  <1>2. /\ Len(s) \in Nat /\ DOMAIN s = 1 .. Len(s)
        /\ DOMAIN more = 1 .. (Len(s) + 1)
        /\ \A i \in DOMAIN s : more[i] = s[i]
        /\ more[Len(s) + 1] = e
    BY <1>1, AppendRows
  <1>3. PICK n \in Nat : n = Len(s)
    BY <1>2
  <1>4. /\ TurnsAt(more, tools, t) \in SUBSET (1 .. (n + 1))
        /\ TurnsAt(s, tools, t) = TurnsAt(more, tools, t) \cap (1 .. n)
        /\ n + 1 \in TurnsAt(more, tools, t)
              <=> e.ok /\ e.call.tool \in tools /\ e.before = t
    BY <1>2, <1>3 DEF TurnsAt
  <1>5. /\ TurnsOn(more, d, t) \in SUBSET (1 .. (n + 1))
        /\ TurnsOn(s, d, t) = TurnsOn(more, d, t) \cap (1 .. n)
        /\ n + 1 \in TurnsOn(more, d, t)
              <=> /\ e.ok /\ e.call.tool = "docs.comment" /\ e.before = t
                  /\ e.call.doc = d
    BY <1>2, <1>3 DEF TurnsOn, TurnsAt
  <1>6. Cardinality(TurnsAt(more, tools, t)) =
           IF e.ok /\ e.call.tool \in tools /\ e.before = t
           THEN Cardinality(TurnsAt(s, tools, t)) + 1
           ELSE Cardinality(TurnsAt(s, tools, t))
    BY <1>4, OneMoreIndex
  <1>7. Cardinality(TurnsOn(more, d, t)) =
           IF /\ e.ok /\ e.call.tool = "docs.comment" /\ e.before = t
              /\ e.call.doc = d
           THEN Cardinality(TurnsOn(s, d, t)) + 1
           ELSE Cardinality(TurnsOn(s, d, t))
    BY <1>5, OneMoreIndex
  <1> QED
    BY <1>1, <1>6, <1>7

\* What a handler writes is told by the call: by a turn more, e, when the
\* agent makes it, and by none when somebody else does.
LEMMA HandlersTell ==
    ASSUME Rowed, NEW p, NEW c, NEW now, Handles(p, c, now),
           NEW s, IsSeq(s), Story(s, messages, emails, docs),
           NEW e, e.ok, e.call = c, e.before = now
    PROVE  Story(IF p = Agent THEN Append(s, e) ELSE s, messages', emails', docs')
  <1> DEFINE S == IF p = Agent THEN Append(s, e) ELSE s
             Plus(b, k) == IF b THEN k + 1 ELSE k
             by(tools, t) == p = Agent /\ c.tool \in tools /\ t = now
             on(d, t) == by({"docs.comment"}, t) /\ c.doc = d
  <1>1. IsSeq(messages) /\ IsSeq(emails)
    BY LenProperties, SeqDef DEF Rowed, IsSeq, Rows
  <1>2. ASSUME NEW tools, NEW t
        PROVE  Cardinality(TurnsAt(S, tools, t)) =
                  Plus(by(tools, t), Cardinality(TurnsAt(s, tools, t)))
    BY TakenOnceMore
  <1>3. ASSUME NEW d, NEW t
        PROVE  Cardinality(TurnsOn(S, d, t)) =
                  Plus(on(d, t), Cardinality(TurnsOn(s, d, t)))
    <2>1. Cardinality(TurnsOn(Append(s, e), d, t)) =
             IF /\ e.ok /\ e.call.tool = "docs.comment" /\ e.before = t
                /\ e.call.doc = d
             THEN Cardinality(TurnsOn(s, d, t)) + 1
             ELSE Cardinality(TurnsOn(s, d, t))
      BY TakenOnceMore
    <2> QED
      BY <2>1
  <1>4. ASSUME NEW t
        PROVE  Cardinality(WrittenAt(messages', t)) =
                  Plus(by({"chat.send", "chat.dm"}, t), Cardinality(WrittenAt(messages, t)))
    <2>1. CASE c.tool \in {"chat.send", "chat.dm"} /\ Posts(p, c, now)
      <3>1. PICK row : /\ messages' = Append(messages, row)
                       /\ row.from = p /\ row.at = now
        BY <2>1 DEF Posts
      <3> QED
        BY <1>1, <2>1, <3>1, WrittenOnceMore
    <2>2. CASE c.tool \notin {"chat.send", "chat.dm"} /\ UNCHANGED messages
      BY <2>2 DEF WrittenAt
    <2> QED
      BY <2>1, <2>2
         DEF Handles, Mails, Delivers, ReadsChat, ReadsEmail, WritesDoc, PlansEvent, MovesTask,
             CommentsTask, LogsWork, rowVars
  <1>5. ASSUME NEW t
        PROVE  Cardinality(WrittenAt(emails', t)) =
                  Plus(by({"email.send"}, t), Cardinality(WrittenAt(emails, t)))
    <2>1. CASE c.tool = "email.send" /\ Mails(p, c, now)
      <3>1. PICK row : /\ emails' = Append(emails, row)
                       /\ row.from = p /\ row.at = now
        BY <2>1 DEF Mails, Delivers
      <3> QED
        BY <1>1, <2>1, <3>1, WrittenOnceMore
    <2>2. CASE c.tool # "email.send" /\ UNCHANGED emails
      BY <2>2 DEF WrittenAt
    <2> QED
      BY <2>1, <2>2
         DEF Handles, Posts, ReadsChat, ReadsEmail, WritesDoc, PlansEvent, MovesTask,
             CommentsTask, LogsWork, rowVars
  \* A document is new, or its comments are those it had and maybe this one.
  <1>6. /\ DOMAIN docs \subseteq DOMAIN docs'
        /\ \A t : \A d \in DOMAIN docs :
              Cardinality(NotesAt(docs'[d].comments, t)) =
                 Plus(on(d, t), Cardinality(NotesAt(docs[d].comments, t)))
        /\ \A d \in DOMAIN docs' \ DOMAIN docs :
              docs'[d].comments = <<>> /\ c.tool = "docs.create"
    <2>1. CASE c.tool = "docs.create" /\ WritesDoc(p, c, now)
      <3>1. PICK new : docs' = Put(docs, c.doc, new) /\ new.comments = <<>>
        BY <2>1 DEF WritesDoc
      <3>2. c.doc \notin DOMAIN docs
        BY <2>1 DEF Handles, Accepts
      <3>3. /\ DOMAIN docs' = DOMAIN docs \cup {c.doc} /\ docs'[c.doc] = new
            /\ \A d \in DOMAIN docs : docs'[d] = docs[d]
        BY <3>1, <3>2 DEF Put
      <3> QED
        BY <2>1, <3>1, <3>3
    <2>2. CASE c.tool = "docs.edit" /\ WritesDoc(p, c, now)
      <3>1. PICK V : docs' = [docs EXCEPT ![c.doc].versions = V]
        BY <2>2 DEF WritesDoc
      <3>2. \A d \in DOMAIN docs : docs'[d].comments = docs[d].comments
        BY <3>1 DEF Rowed, Doc
      <3> QED
        BY <2>2, <3>1, <3>2
    <2>3. CASE c.tool = "docs.comment" /\ WritesDoc(p, c, now)
      <3>1. PICK n : n = NoteOf(p, c, now)
        OBVIOUS
      <3>2. n.author = p /\ n.at = now
        BY <3>1 DEF NoteOf
      <3>3. c.doc \in DOMAIN docs
        BY <2>3 DEF Handles, Accepts
      <3>4. docs' = [docs EXCEPT ![c.doc].comments = Append(@, n)]
        BY <2>3, <3>1 DEF WritesDoc
      <3>5. /\ DOMAIN docs' = DOMAIN docs
            /\ \A d \in DOMAIN docs : d # c.doc => docs'[d] = docs[d]
            /\ docs'[c.doc].comments = Append(docs[c.doc].comments, n)
        BY <3>3, <3>4 DEF Rowed, Doc
      <3>6. PICK old : old = docs[c.doc].comments
        OBVIOUS
      <3>7. IsSeq(old)
        <4>1. docs[c.doc] \in Doc
          BY <3>3 DEF Rowed
        <4>2. old \in Seq(Note)
          BY <3>6, <4>1 DEF Doc
        <4> QED
          BY <4>2, LenProperties, SeqDef DEF IsSeq, Rows
      <3>8. \A t : Cardinality(NotesAt(docs'[c.doc].comments, t)) =
                      Plus(on(c.doc, t), Cardinality(NotesAt(docs[c.doc].comments, t)))
        BY <2>3, <3>2, <3>5, <3>6, <3>7, NotedOnceMore
      <3> QED
        BY <3>5, <3>8
    <2>4. CASE c.tool \notin {"docs.create", "docs.edit", "docs.comment"} /\ UNCHANGED docs
      BY <2>4
    <2> QED
      BY <2>1, <2>2, <2>3, <2>4
         DEF Handles, Posts, Mails, Delivers, ReadsChat, ReadsEmail, PlansEvent,
             MovesTask, CommentsTask, LogsWork
  <1>7. \A i \in DOMAIN S : S[i].ok /\ S[i].call.tool = "docs.comment" =>
           S[i].call.doc \in DOMAIN docs
    <2>1. \A i \in DOMAIN s : s[i].ok /\ s[i].call.tool = "docs.comment" =>
             s[i].call.doc \in DOMAIN docs
      BY DEF Story
    <2>2. e.call.tool = "docs.comment" => e.call.doc \in DOMAIN docs
      BY DEF Handles, Accepts
    <2>3. /\ Len(s) \in Nat /\ DOMAIN s = 1 .. Len(s)
          /\ DOMAIN Append(s, e) = 1 .. (Len(s) + 1)
          /\ \A i \in DOMAIN s : Append(s, e)[i] = s[i]
          /\ Append(s, e)[Len(s) + 1] = e
      BY AppendRows
    <2>4. \A i \in DOMAIN Append(s, e) : Append(s, e)[i] = e \/ i \in DOMAIN s
      BY <2>3
    <2> QED
      BY <2>1, <2>2, <2>3, <2>4
  <1> HIDE DEF S
  <1>8. ASSUME NEW t
        PROVE  /\ Cardinality(WrittenAt(messages', t))
                     = Cardinality(TurnsAt(S, {"chat.send", "chat.dm"}, t))
               /\ Cardinality(WrittenAt(emails', t))
                     = Cardinality(TurnsAt(S, {"email.send"}, t))
    <2>1. /\ Cardinality(WrittenAt(messages, t))
                = Cardinality(TurnsAt(s, {"chat.send", "chat.dm"}, t))
          /\ Cardinality(WrittenAt(emails, t))
                = Cardinality(TurnsAt(s, {"email.send"}, t))
      BY DEF Story
    <2> HIDE DEF by, Plus
    <2> QED
      BY <1>2, <1>4, <1>5, <2>1
  <1>9. ASSUME NEW d \in DOMAIN docs', NEW t
        PROVE  Cardinality(NotesAt(docs'[d].comments, t)) = Cardinality(TurnsOn(S, d, t))
    <2>1. CASE d \in DOMAIN docs
      <3>1. Cardinality(NotesAt(docs[d].comments, t)) = Cardinality(TurnsOn(s, d, t))
        BY <2>1 DEF Story
      <3> HIDE DEF on, Plus
      <3> QED
        BY <1>3, <1>6, <2>1, <3>1
    <2>2. CASE d \notin DOMAIN docs
      <3>1. docs'[d].comments = <<>> /\ c.tool = "docs.create"
        BY <1>6, <2>2
      <3>2. NotesAt(docs'[d].comments, t) = {}
        BY <3>1 DEF NotesAt
      <3>3. TurnsOn(s, d, t) = {} /\ ~on(d, t)
        BY <2>2, <3>1 DEF Story, TurnsOn, TurnsAt
      <3>4. Cardinality(TurnsOn(S, d, t)) = Cardinality(TurnsOn(s, d, t))
        BY <1>3, <3>3
      <3> QED
        BY <3>2, <3>3, <3>4
    <2> QED
      BY <2>1, <2>2
  <1>10. Story(S, messages', emails', docs')
    BY <1>6, <1>7, <1>8, <1>9 DEF Story
  <1> QED
    BY <1>10 DEF S

\* A scripted row of somebody else's is told by no call.
LEMMA ScriptsTellNothing ==
    ASSUME Rowed, NEW p, p # Agent, NEW c, NEW now, Scripted(p, c, now),
           NEW s, Story(s, messages, emails, docs)
    PROVE  Story(s, messages', emails', docs')
  <1>1. IsSeq(messages) /\ IsSeq(emails)
    BY LenProperties, SeqDef DEF Rowed, IsSeq, Rows
  <1>2. \/ messages' = messages
        \/ \E row : messages' = Append(messages, row) /\ row.from = p
    BY DEF Scripted, Posts, ScriptMails, Delivers
  <1>3. \/ emails' = emails
        \/ \E row : emails' = Append(emails, row) /\ row.from = p
    <2>1. CASE Posts(p, c, now)
      BY <2>1 DEF Posts
    <2>2. CASE ScriptMails(p, c, now)
      BY <2>2 DEF ScriptMails, Delivers
    <2> QED
      BY <2>1, <2>2 DEF Scripted
  <1>4. ASSUME NEW t
        PROVE  /\ Cardinality(WrittenAt(messages', t)) = Cardinality(WrittenAt(messages, t))
               /\ Cardinality(WrittenAt(emails', t)) = Cardinality(WrittenAt(emails, t))
    <2>1. ASSUME NEW rows, IsSeq(rows), NEW row, row.from = p
          PROVE  Cardinality(WrittenAt(Append(rows, row), t))
                    = Cardinality(WrittenAt(rows, t))
      BY <2>1, WrittenOnceMore
    <2>2. Cardinality(WrittenAt(messages', t)) = Cardinality(WrittenAt(messages, t))
      BY <1>1, <1>2, <2>1
    <2>3. Cardinality(WrittenAt(emails', t)) = Cardinality(WrittenAt(emails, t))
      BY <1>1, <1>3, <2>1
    <2> QED
      BY <2>2, <2>3
  <1>5. docs' = docs
    BY ScriptsOnlyWrite
  <1> QED
    BY <1>4, <1>5 DEF Story

\* A call in flight is told from none.
LEMMA FlightIsTold ==
    ASSUME InFlight, phase \in {"waiting", "elapsing"}
    PROVE  flight # NoFlight
  <1>1. /\ NoFlight.ok = FALSE /\ NoFlight.call = Blank
        /\ NoFlight.before = 0 /\ NoFlight.until = 0
    BY DEF NoFlight
  <1>2. SUFFICES ASSUME flight = NoFlight PROVE FALSE
    OBVIOUS
  <1>3. flight.ok \/ flight.call # Blank \/ flight.before < flight.until
    BY DEF InFlight
  <1> QED
    BY <1>1, <1>2, <1>3

LEMMA FlightToldThen ==
    ASSUME InFlight', phase' \in {"waiting", "elapsing"}
    PROVE  flight' # NoFlight
  <1>1. /\ NoFlight.ok = FALSE /\ NoFlight.call = Blank
        /\ NoFlight.before = 0 /\ NoFlight.until = 0
    BY DEF NoFlight
  <1>2. SUFFICES ASSUME flight' = NoFlight PROVE FALSE
    OBVIOUS
  <1>3. flight'.ok \/ flight'.call # Blank \/ flight'.before < flight'.until
    BY DEF InFlight
  <1> QED
    BY <1>1, <1>2, <1>3

LEMMA ToldKept ==
    ASSUME Rowed, Running, OnDisk, Meetings, InFlight, InFlight', Told, [Next]_vars
    PROVE  Told'
  <1> USE DEF Told
  \* Nothing is written, and the turns stay what they are.
  <1>1. ASSUME UNCHANGED <<messages, emails, docs>>, Done' = Done
        PROVE  Told'
    <2>1. IsSeq(Done')
      BY <1>1 DEF Told
    <2>2. Story(Done', messages', emails', docs')
      BY <1>1 DEF Told
    <2> QED
      BY <2>1, <2>2 DEF Told
  <1>2. ASSUME NEW c \in Plots[plot].calls, Begin(c)
        PROVE  Told'
    <2>1. /\ flight'.call = c /\ flight'.ok = Accepts(Agent, c, clock)
          /\ flight'.before = clock
          /\ phase = "idle" /\ phase' \in {"waiting", "elapsing"} /\ turns' = turns
      BY <1>2 DEF Begin
    <2>2. flight = NoFlight /\ flight' # NoFlight
      BY <2>1, FlightIsTold, FlightToldThen DEF OnDisk
    <2>3. PICK e : e = TurnOf(flight')
      OBVIOUS
    <2>4. e.call = c /\ e.ok = Accepts(Agent, c, clock) /\ e.before = clock
      BY <2>1, <2>3 DEF TurnOf
    <2>5. Done = turns /\ Done' = Append(turns, e)
      BY <2>1, <2>2, <2>3 DEF Done
    <2>6. IsSeq(turns) /\ Story(turns, messages, emails, docs)
      BY <2>5
    <2>7. CASE Accepts(Agent, c, clock) /\ Handles(Agent, c, clock)
      <3>1. Story(Append(turns, e), messages', emails', docs')
        BY <2>4, <2>6, <2>7, HandlersTell
      <3> QED
        BY <2>5, <2>6, <3>1, AppendRows
    <2>8. CASE /\ UNCHANGED officeVars
               /\ ~Accepts(Agent, c, clock) \/ c.tool = "meetings.attend"
      <3>1. \A t : /\ Cardinality(TurnsAt(Append(turns, e), {"chat.send", "chat.dm"}, t))
                         = Cardinality(TurnsAt(turns, {"chat.send", "chat.dm"}, t))
                   /\ Cardinality(TurnsAt(Append(turns, e), {"email.send"}, t))
                         = Cardinality(TurnsAt(turns, {"email.send"}, t))
        BY <2>4, <2>6, <2>8, TakenOnceMore
      <3>2. \A d, t : Cardinality(TurnsOn(Append(turns, e), d, t))
                         = Cardinality(TurnsOn(turns, d, t))
        BY SMTT(20), <2>4, <2>6, <2>8, TakenOnceMore
      <3>3. \A i \in DOMAIN Append(turns, e) :
               \/ Append(turns, e)[i] = e
               \/ /\ i \in DOMAIN turns
                  /\ Append(turns, e)[i] = turns[i]
        BY <2>6, AppendRows
      <3>4. ~(e.ok /\ e.call.tool = "docs.comment")
        BY <2>4, <2>8
      <3>5. UNCHANGED <<messages, emails, docs>>
        BY <2>8 DEF officeVars, rowVars
      <3>6. Story(Append(turns, e), messages, emails, docs)
        BY <2>6, <3>1, <3>2, <3>3, <3>4 DEF Story
      <3>7. IsSeq(Append(turns, e))
        BY <2>6, AppendRows
      <3> QED
        BY <2>5, <3>5, <3>6, <3>7
    <2> QED
      BY <1>2, <2>7, <2>8 DEF Begin, Attending
  <1>3. ASSUME MeetingHappens
        PROVE  Told'
    <2>1. PICK u : flight' = [flight EXCEPT !.until = u]
      BY <1>3 DEF MeetingHappens
    <2>2. PICK m : Meets(flight.call.event, m, flight.until)
      BY <1>3 DEF MeetingHappens
    <2>3. /\ UNCHANGED <<messages, emails, docs, turns>>
          /\ phase = "waiting" /\ phase' = "elapsing"
      BY <1>3, <2>2 DEF MeetingHappens, Meets, rowVars
    <2>4. flight # NoFlight /\ flight' # NoFlight
      BY <2>3, FlightIsTold, FlightToldThen
    <2>5. PICK e : e = TurnOf(flight)
      OBVIOUS
    <2>6. PICK f : f = TurnOf(flight')
      OBVIOUS
    <2>7. e.call = f.call /\ e.ok = f.ok /\ e.before = f.before
      BY <2>1, <2>3, <2>5, <2>6 DEF TurnOf, InFlight
    <2>8. Done = Append(turns, e) /\ Done' = Append(turns, f)
      BY <2>3, <2>4, <2>5, <2>6 DEF Done
    <2>9. IsSeq(turns)
      BY DEF Running
    <2>10. \A tools, t : TurnsAt(Append(turns, e), tools, t) = TurnsAt(Append(turns, f), tools, t)
      BY <2>7, <2>9, AppendRows DEF TurnsAt
    <2>11. \A d, t : TurnsOn(Append(turns, e), d, t) = TurnsOn(Append(turns, f), d, t)
      BY <2>7, <2>9, <2>10, AppendRows DEF TurnsOn, TurnsAt
    <2>12. /\ DOMAIN Append(turns, f) = DOMAIN Append(turns, e)
           /\ \A i \in DOMAIN Append(turns, f) :
                 /\ Append(turns, f)[i].ok = Append(turns, e)[i].ok
                 /\ Append(turns, f)[i].call = Append(turns, e)[i].call
      BY <2>7, <2>9, AppendRows
    <2>13. Story(Append(turns, f), messages, emails, docs)
      BY <2>8, <2>10, <2>11, <2>12 DEF Story
    <2>14. IsSeq(Append(turns, f))
      BY <2>9, AppendRows
    <2> QED
      BY <2>3, <2>8, <2>13, <2>14
  <1>4. ASSUME Return
        PROVE  Told'
    <2>1. /\ phase = "elapsing" /\ turns' = Append(turns, TurnOf(flight))
          /\ flight' = NoFlight /\ UNCHANGED officeVars
      BY <1>4 DEF Return
    <2>2. Done' = Done
      BY <2>1, FlightIsTold DEF Done
    <2> QED
      BY <1>1, <2>1, <2>2 DEF officeVars, rowVars
  <1>5. ASSUME NEW a \in Others, Happens(a)
        PROVE  Told'
    <2>1. a.who # Agent /\ UNCHANGED <<turns, flight>>
      BY <1>5, OthersAct
    <2>2. PICK m \in Nat : Deed(a.who, a.call, m)
      BY <1>5, OthersAct
    <2>3. PICK e : e = [ok |-> TRUE, call |-> a.call, before |-> m]
      OBVIOUS
    <2>4. e.ok /\ e.call = a.call /\ e.before = m
      BY <2>3
    <2>5. Story(Done, messages', emails', docs')
      <3>1. CASE Handles(a.who, a.call, m)
        BY <2>1, <2>4, <3>1, HandlersTell
      <3>2. CASE Scripted(a.who, a.call, m)
        BY <2>1, <3>2, ScriptsTellNothing
      <3> QED
        BY <2>2, <3>1, <3>2 DEF Deed
    <2>6. Done' = Done
      BY <2>1 DEF Done
    <2> QED
      BY <2>5, <2>6
  <1>6. CASE \/ RunEnds \/ Close \/ Crash
             \/ \E t \in Wakeups : ClockMoves(t)
             \/ \E f \in Artifacts : Finalize(f)
             \/ UNCHANGED vars
    <2>1. UNCHANGED <<officeVars, turns, flight>>
      BY <1>6 DEF RunEnds, Close, Crash, ClockMoves, Finalize, vars, runVars
    <2> QED
      BY <1>1, <2>1 DEF officeVars, rowVars, Done
  <1> QED
    BY <1>2, <1>3, <1>4, <1>5, <1>6 DEF Next, Others, Happens

LEMMA ToldInitially ==
    ASSUME Init
    PROVE  Told
  <1>1. /\ Done = <<>> /\ messages = InitialMessages /\ emails = InitialEmails
        /\ docs = InitialDocs
    BY DEF Init, OfficeInit, Done
  <1>2. DOMAIN <<>> = {} /\ IsSeq(<<>>)
    BY DEF IsSeq, Rows
  <1>3. \A t : /\ WrittenAt(InitialMessages, t) = {}
              /\ WrittenAt(InitialEmails, t) = {}
              /\ NotesAt(<<>>, t) = {}
    BY <1>2, OfficeAssumption DEF WrittenAt, NotesAt
  <1>4. \A d, t, tools : TurnsAt(<<>>, tools, t) = {} /\ TurnsOn(<<>>, d, t) = {}
    BY <1>2 DEF TurnsAt, TurnsOn
  <1>5. \A d \in DOMAIN InitialDocs : InitialDocs[d].comments = <<>>
    BY OfficeAssumption
  <1>6. Story(<<>>, InitialMessages, InitialEmails, InitialDocs)
    BY <1>2, <1>3, <1>4, <1>5 DEF Story
  <1> QED
    BY <1>1, <1>2, <1>6 DEF Told

\* At each minute the agent's rows are as many as its calls that succeeded.
THEOREM TurnsAndRowsAgree == Spec => []RecordsAgree
  <1>1. Init => Told
    BY ToldInitially
  <1>2. ASSUME Rowed, Running, OnDisk, Meetings, InFlight, InFlight', Told, [Next]_vars
        PROVE  Told'
    BY <1>2, ToldKept
  <1>3. ASSUME Told
        PROVE  RecordsAgree
    <2>1. Story(Done, messages, emails, docs)
      BY <1>3 DEF Told
    <2>2. \A tools, t : DoneAt(tools, t) = TurnsAt(Done, tools, t)
      BY DEF DoneAt, TurnsAt
    <2>3. \A d, t : {i \in DoneAt({"docs.comment"}, t) : Done[i].call.doc = d}
                       = TurnsOn(Done, d, t)
      BY <2>2 DEF TurnsOn
    <2>4. ASSUME NEW t
          PROVE  /\ Cardinality(WrittenAt(messages, t))
                       = Cardinality(DoneAt({"chat.send", "chat.dm"}, t))
                 /\ Cardinality(WrittenAt(emails, t))
                       = Cardinality(DoneAt({"email.send"}, t))
      BY <2>1, <2>2 DEF Story
    <2>5. ASSUME NEW t, NEW d \in DOMAIN docs
          PROVE  Cardinality({i \in DOMAIN docs[d].comments :
                                /\ docs[d].comments[i].author = Agent
                                /\ docs[d].comments[i].at = t})
                    = Cardinality({i \in DoneAt({"docs.comment"}, t) :
                                     Done[i].call.doc = d})
      <3>1. PICK A : A = {i \in DOMAIN docs[d].comments :
                            /\ docs[d].comments[i].author = Agent
                            /\ docs[d].comments[i].at = t}
        OBVIOUS
      <3>2. PICK B : B = {i \in DoneAt({"docs.comment"}, t) : Done[i].call.doc = d}
        OBVIOUS
      <3>3. A = NotesAt(docs[d].comments, t)
        BY <3>1 DEF NotesAt
      <3>4. B = TurnsOn(Done, d, t)
        BY <2>3, <3>2
      <3>5. Cardinality(NotesAt(docs[d].comments, t)) = Cardinality(TurnsOn(Done, d, t))
        BY <2>1 DEF Story
      <3>6. Cardinality(A) = Cardinality(B)
        BY <3>3, <3>4, <3>5
      <3> QED
        BY <3>1, <3>2, <3>6
    <2> QED
      BY <2>4, <2>5 DEF RecordsAgree
  <1> QED
    BY <1>1, <1>2, <1>3, Recording, Records, PTL DEF Spec

-----------------------------------------------------------------------------
(* One more message.                                                       *)

\* World v is w and rows of the agent's, of a minute no earlier than any of
\* its rows in w.
OneSideAdds(w, v, now) ==
    /\ now \in Nat
    /\ \A r \in Rows(w.messages) \cup Rows(w.emails) :
          r.at \in Nat /\ (r.from = Agent => r.at <= now)
    /\ Rows(w.messages) \subseteq Rows(v.messages)
    /\ \A r \in Rows(v.messages) :
          r \in Rows(w.messages) \/ (r.from = Agent /\ r.at = now)
    /\ Rows(w.emails) \subseteq Rows(v.emails)
    /\ \A r \in Rows(v.emails) :
          r \in Rows(w.emails) \/ (r.from = Agent /\ r.at = now)
    /\ \A e \in Rows(w.emails) : Subject(v, e) = Subject(w, e)
    /\ v.docs = w.docs /\ v.tasks = w.tasks

\* Of some minutes one is the earliest.
LEMMA FirstThereIs ==
    ASSUME NEW S \in SUBSET Nat, S # {}
    PROVE  \E t \in S : Earliest(S) = {t} /\ \A u \in S : t <= u
  <1>1. PICK t \in S : \A u \in S : t <= u
    BY LeastNatural
  <1>2. \A m \in S : (\A u \in S : m <= u) => m = t
    BY <1>1
  <1>3. Min(S) = t
    BY <1>1, <1>2 DEF Min
  <1> QED
    BY <1>1, <1>3 DEF Earliest

\* It stays the earliest when a later one is added.
LEMMA FirstStands ==
    ASSUME NEW S \in SUBSET Nat, S # {}, NEW now \in Nat, \A t \in S : t <= now,
           NEW T \in SUBSET Nat, S \subseteq T, T \subseteq S \cup {now}
    PROVE  Earliest(T) = Earliest(S)
  <1>1. PICK t \in S : Earliest(S) = {t} /\ \A u \in S : t <= u
    BY FirstThereIs
  <1>2. PICK u \in T : Earliest(T) = {u} /\ \A x \in T : u <= x
    BY FirstThereIs
  <1>3. t = u
    BY <1>1, <1>2
  <1> QED
    BY <1>1, <1>2, <1>3

\* What was urgent stays urgent, and since the same minute.
LEMMA TriggerStands ==
    ASSUME NEW w, NEW v, NEW now, OneSideAdds(w, v, now),
           NEW spec, UrgentTrigger(w, spec) # {}
    PROVE  \E t \in Nat : /\ UrgentTrigger(w, spec) = {t}
                          /\ UrgentTrigger(v, spec) = {t}
  <1>1. CASE spec.kind = "dm_received"
    <2> DEFINE hits(u) == {m \in ChatsBy(u, spec.from) :
                             /\ m.at >= spec.after /\ InDmOf(m, Agent)
                             /\ MentionsIfWanted(m.topics, spec.topics)}
    <2>1. PICK A : A = hits(w)
      OBVIOUS
    <2>2. PICK B : B = hits(v)
      OBVIOUS
    <2>3. PICK S : S = {m.at : m \in A}
      OBVIOUS
    <2>4. PICK T : T = {m.at : m \in B}
      OBVIOUS
    <2>5. UrgentTrigger(w, spec) = Earliest(S) /\ UrgentTrigger(v, spec) = Earliest(T)
      BY <1>1, <2>1, <2>2, <2>3, <2>4 DEF UrgentTrigger
    <2>6. /\ A \subseteq B
          /\ \A m \in A : m.at \in Nat /\ (spec.from = Agent => m.at <= now)
          /\ \A m \in B : m \in A \/ (spec.from = Agent /\ m.at = now)
      BY <2>1, <2>2 DEF OneSideAdds, ChatsBy
    <2> HIDE DEF hits
    <2>7. /\ S \in SUBSET Nat /\ S \subseteq T /\ T \subseteq S \cup {now}
          /\ T = S \/ \A t \in S : t <= now
      BY <2>3, <2>4, <2>6
    <2>8. S # {}
      BY <2>5 DEF Earliest
    <2>9. now \in Nat
      BY DEF OneSideAdds
    <2>10. PICK t \in S : Earliest(S) = {t}
      BY <2>7, <2>8, FirstThereIs
    <2>11. Earliest(T) = Earliest(S)
      <3>1. CASE T = S
        BY <3>1
      <3>2. CASE \A u \in S : u <= now
        <4>1. T \in SUBSET Nat
          BY <2>7, <2>9
        <4> QED
          BY <2>7, <2>8, <2>9, <3>2, <4>1, FirstStands
      <3> QED
        BY <2>7, <3>1, <3>2
    <2> QED
      BY <2>5, <2>7, <2>10, <2>11
  <1>2. CASE spec.kind # "dm_received"
    <2> DEFINE hits(u) == {e \in EmailsBy(u, spec.from) :
                             /\ e.at >= spec.after /\ ReachesByEmail(e, Agent)
                             /\ MentionsIfWanted(Subject(u, e), spec.topics)}
    <2>1. PICK A : A = hits(w)
      OBVIOUS
    <2>2. PICK B : B = hits(v)
      OBVIOUS
    <2>3. PICK S : S = {e.at : e \in A}
      OBVIOUS
    <2>4. PICK T : T = {e.at : e \in B}
      OBVIOUS
    <2>5. UrgentTrigger(w, spec) = Earliest(S) /\ UrgentTrigger(v, spec) = Earliest(T)
      BY <1>2, <2>1, <2>2, <2>3, <2>4 DEF UrgentTrigger
    <2>6. /\ A \subseteq B
          /\ \A m \in A : m.at \in Nat /\ (spec.from = Agent => m.at <= now)
          /\ \A m \in B : m \in A \/ (spec.from = Agent /\ m.at = now)
      BY <2>1, <2>2 DEF OneSideAdds, EmailsBy
    <2> HIDE DEF hits
    <2>7. /\ S \in SUBSET Nat /\ S \subseteq T /\ T \subseteq S \cup {now}
          /\ T = S \/ \A t \in S : t <= now
      BY <2>3, <2>4, <2>6
    <2>8. S # {}
      BY <2>5 DEF Earliest
    <2>9. now \in Nat
      BY DEF OneSideAdds
    <2>10. PICK t \in S : Earliest(S) = {t}
      BY <2>7, <2>8, FirstThereIs
    <2>11. Earliest(T) = Earliest(S)
      <3>1. CASE T = S
        BY <3>1
      <3>2. CASE \A u \in S : u <= now
        <4>1. T \in SUBSET Nat
          BY <2>7, <2>9
        <4> QED
          BY <2>7, <2>8, <2>9, <3>2, <4>1, FirstStands
      <3> QED
        BY <2>7, <3>1, <3>2
    <2> QED
      BY <2>5, <2>7, <2>10, <2>11
  <1> QED
    BY <1>1, <1>2

\* So does the first acknowledgement, once there is one.
LEMMA AckStands ==
    ASSUME NEW w, NEW v, NEW now, OneSideAdds(w, v, now), NEW ack, NEW after
    PROVE  /\ KeywordAcks(w, ack, after) # {} =>
                 \E t \in Nat : /\ KeywordAck(w, ack, after) = {t}
                                /\ KeywordAck(v, ack, after) = {t}
           /\ KeywordAcks(v, ack, after) # {} =>
                 \E t \in Nat : KeywordAck(v, ack, after) = {t}
  <1> DEFINE chats(u) == {m \in ChatsBy(u, Agent) :
                /\ m.at > after /\ MentionsIfWanted(m.topics, ack.topics)
                /\ ack.to = {} \/ \E p \in ack.to : ReachesByChat(m, p)}
             mails(u) == {e \in EmailsBy(u, Agent) :
                /\ e.at > after
                /\ MentionsIfWanted(e.topics \cup Subject(u, e), ack.topics)
                /\ ack.to = {} \/ e.to \cap ack.to # {}}
  <1>1. PICK A : A = chats(w)
    OBVIOUS
  <1>2. PICK B : B = chats(v)
    OBVIOUS
  <1>3. PICK C : C = mails(w)
    OBVIOUS
  <1>4. PICK D : D = mails(v)
    OBVIOUS
  <1>5. PICK S : S = {m.at : m \in A} \cup {e.at : e \in C}
    OBVIOUS
  <1>6. PICK T : T = {m.at : m \in B} \cup {e.at : e \in D}
    OBVIOUS
  <1>7. KeywordAcks(w, ack, after) = S /\ KeywordAcks(v, ack, after) = T
    BY <1>1, <1>2, <1>3, <1>4, <1>5, <1>6 DEF KeywordAcks
  <1>8. /\ A \subseteq B
        /\ \A m \in A : m.at \in Nat /\ m.at <= now
        /\ \A m \in B : m \in A \/ m.at = now
    BY <1>1, <1>2 DEF OneSideAdds, ChatsBy
  <1>9. /\ C \subseteq D
        /\ \A e \in C : e.at \in Nat /\ e.at <= now
        /\ \A e \in D : e \in C \/ e.at = now
    BY <1>3, <1>4 DEF OneSideAdds, EmailsBy
  <1> HIDE DEF chats, mails
  <1>10. now \in Nat
    BY DEF OneSideAdds
  <1>11. /\ S \in SUBSET Nat /\ S \subseteq T /\ T \subseteq S \cup {now}
         /\ \A t \in S : t <= now
    BY <1>5, <1>6, <1>8, <1>9
  <1>12. T \in SUBSET Nat
    BY <1>10, <1>11
  <1>13. ASSUME S # {}
         PROVE  \E t \in S : Earliest(S) = {t} /\ Earliest(T) = {t}
    <2>1. PICK t \in S : Earliest(S) = {t}
      BY <1>11, <1>13, FirstThereIs
    <2>2. Earliest(T) = Earliest(S)
      BY <1>10, <1>11, <1>12, <1>13, FirstStands
    <2> QED
      BY <2>1, <2>2
  <1>14. T # {} => \E t \in T : Earliest(T) = {t}
    BY <1>12, FirstThereIs
  <1> QED
    BY <1>7, <1>11, <1>12, <1>13, <1>14 DEF KeywordAck

\* Whatever the latency, the score is a number from the least to the greatest.
LEMMA LatencyScores ==
    ASSUME NEW latency \in Int, NEW target \in Int
    PROVE  LatencyScore(latency, target) \in Int
           /\ -Unit <= LatencyScore(latency, target)
           /\ LatencyScore(latency, target) <= Unit
  <1>1. CASE latency < TickSize \/ target <= 0
    BY <1>1, TickSizeAssumption DEF LatencyScore, Unit
  <1>2. CASE ~(latency < TickSize) /\ ~(target <= 0)
    <2>1. PICK q : q = (latency * Unit) \div target
      OBVIOUS
    <2>2. latency * Unit \in Int
      BY DEF Unit
    <2>3. q \in Int
      BY <1>2, <2>1, <2>2
    <2>4. LatencyScore(latency, target) = Clip(Unit - q)
      BY <1>2, <2>1 DEF LatencyScore
    <2> QED
      BY <2>3, <2>4 DEF Clip, Unit
  <1> QED
    BY <1>1, <1>2

LEMMA AnswersNeverHurt ==
    ASSUME NEW w, NEW v, NEW now, OneSideAdds(w, v, now), NEW o, o.target \in Int,
           UrgentTrigger(w, o.trigger) # {},
           o.ack.kind = "agent_outbound_with_keywords"
    PROVE  UrgencyScore(w, o) <= UrgencyScore(v, o)
  <1>1. PICK t \in Nat : /\ UrgentTrigger(w, o.trigger) = {t}
                         /\ UrgentTrigger(v, o.trigger) = {t}
    BY TriggerStands
  <1>2. FiredAt(w, o) = t /\ FiredAt(v, o) = t
    BY <1>1 DEF FiredAt
  <1>3. PICK K : K = KeywordAck(w, o.ack, t)
    OBVIOUS
  <1>4. PICK L : L = KeywordAck(v, o.ack, t)
    OBVIOUS
  <1>5. /\ UrgentAck(w, o.ack, t) = K
        /\ UrgentAck(v, o.ack, t) = L
    BY <1>3, <1>4 DEF UrgentAck
  <1>6. /\ UrgencyScore(w, o) = IF K = {} THEN -Unit
              ELSE LatencyScore((CHOOSE u \in K : TRUE) - t, o.target)
        /\ UrgencyScore(v, o) = IF L = {} THEN -Unit
              ELSE LatencyScore((CHOOSE u \in L : TRUE) - t, o.target)
    BY <1>2, <1>5 DEF UrgencyScore
  <1>7. /\ KeywordAcks(w, o.ack, t) = {} => K = {}
        /\ KeywordAcks(v, o.ack, t) = {} => L = {}
    BY <1>3, <1>4 DEF KeywordAck, Earliest
  <1>8. CASE KeywordAcks(w, o.ack, t) # {}
    <2>1. PICK u \in Nat : K = {u} /\ L = {u}
      BY <1>3, <1>4, <1>8, AckStands
    <2>2. u - t \in Int /\ (CHOOSE x \in {u} : TRUE) = u
      OBVIOUS
    <2>3. /\ UrgencyScore(w, o) = LatencyScore(u - t, o.target)
          /\ UrgencyScore(v, o) = LatencyScore(u - t, o.target)
      BY <1>6, <2>1, <2>2
    <2>4. LatencyScore(u - t, o.target) \in Int
      BY <2>2, LatencyScores
    <2> QED
      BY <2>3, <2>4
  <1>9. CASE KeywordAcks(w, o.ack, t) = {}
    <2>1. UrgencyScore(w, o) = -Unit
      BY <1>6, <1>7, <1>9
    <2>2. CASE KeywordAcks(v, o.ack, t) = {}
      BY <1>6, <1>7, <2>1, <2>2 DEF Unit
    <2>3. CASE KeywordAcks(v, o.ack, t) # {}
      <3>1. PICK u \in Nat : L = {u}
        BY <1>4, <2>3, AckStands
      <3>2. u - t \in Int /\ (CHOOSE x \in {u} : TRUE) = u
        OBVIOUS
      <3>3. UrgencyScore(v, o) = LatencyScore(u - t, o.target)
        BY <1>6, <3>1, <3>2
      <3>4. -Unit <= LatencyScore(u - t, o.target)
        BY <3>2, LatencyScores
      <3> QED
        BY <2>1, <3>3, <3>4
    <2> QED
      BY <2>2, <2>3
  <1> QED
    BY <1>8, <1>9

LEMMA PassingOnNeverHurts ==
    ASSUME NEW w, NEW v, NEW now, OneSideAdds(w, v, now), NEW ts, NEW f
    PROVE  HiddenFactScore(w, ts, f) <= HiddenFactScore(v, ts, f)
  <1>1. Outbounds(w) \subseteq Outbounds(v)
    BY DEF OneSideAdds, Outbounds, ChatsBy, EmailsBy
  <1> DEFINE reads == {t \in Rows(ts) : ReadsSource(t, f.locator)}
             words == IF f.locator.topics # {} THEN f.locator.topics
                      ELSE f.description
             referenced(u) == \E o \in Outbounds(u) :
                                /\ Mentions(o.topics, words)
                                /\ \A first \in Earliest({t.after : t \in reads}) :
                                      o.at >= first
  <1>2. /\ HiddenFactScore(w, ts, f) = IF reads = {} THEN -Unit
                                        ELSE IF referenced(w) THEN Unit ELSE 0
        /\ HiddenFactScore(v, ts, f) = IF reads = {} THEN -Unit
                                        ELSE IF referenced(v) THEN Unit ELSE 0
    BY DEF HiddenFactScore
  <1>3. referenced(w) => referenced(v)
    BY <1>1
  <1> HIDE DEF reads, referenced
  <1> QED
    BY <1>2, <1>3 DEF Unit

LEMMA ContactsStand ==
    ASSUME NEW w, NEW v, NEW now, OneSideAdds(w, v, now), NEW o
    PROVE  /\ EmailSentToBy(w, o) => EmailSentToBy(v, o)
           /\ AgentMessagedPersonAbout(w, o) => AgentMessagedPersonAbout(v, o)
  BY DEF OneSideAdds, EmailSentToBy, AgentMessagedPersonAbout, ChatsBy, EmailsBy

\* A thread keeps its subject.
LEMMA SubjectsStand ==
    ASSUME Rowed, NEW p, NEW c, NEW now, Handles(p, c, now)
    PROVE  \A t \in DOMAIN threads : threads'[t].subject = threads[t].subject
  <1>1. Len(threads) \in Nat /\ DOMAIN threads = 1 .. Len(threads)
    BY LenProperties DEF Rowed
  <1>2. CASE c.tool = "email.send" /\ Mails(p, c, now) /\ c.thread = 0
    <2>1. PICK conv : threads' = Append(threads, conv)
      BY <1>2 DEF Mails, Delivers
    <2>2. IsSeq(threads)
      BY LenProperties, SeqDef DEF Rowed, IsSeq, Rows
    <2>3. \A t \in DOMAIN threads : Append(threads, conv)[t] = threads[t]
      BY <2>2, AppendRows
    <2> QED
      BY <2>1, <2>3
  <1>3. CASE c.tool = "email.send" /\ Mails(p, c, now) /\ c.thread # 0
    <2>1. PICK k : k = c.thread
      OBVIOUS
    <2>2. PICK P : P = threads[k].participants \cup ({p} \cup c.to)
      OBVIOUS
    <2>3. threads' = [threads EXCEPT ![k].participants = P]
      BY <1>3, <2>1, <2>2 DEF Mails, Delivers
    <2>4. \A t \in DOMAIN threads : threads[t] \in Thread
      BY <1>1, ElementOfSeq DEF Rowed
    <2>5. PICK v : v = [threads[k] EXCEPT !.participants = P]
      OBVIOUS
    <2>6. \A t \in DOMAIN threads : threads'[t] = IF t = k THEN v ELSE threads[t]
      BY <2>3, <2>5
    <2>7. k \in DOMAIN threads => v.subject = threads[k].subject
      BY <2>4, <2>5 DEF Thread
    <2> QED
      BY <2>6, <2>7
  <1>4. CASE threads' = threads
    BY <1>4
  <1> QED
    BY <1>2, <1>3, <1>4
       DEF Handles, Posts, ReadsChat, ReadsEmail, WritesDoc, PlansEvent, MovesTask,
           CommentsTask, LogsWork, rowVars

\* A call that writes a row leaves documents and tasks alone.
LEMMA SendingOnlySends ==
    ASSUME NEW p, NEW c, NEW now, Handles(p, c, now),
           messages' # messages \/ emails' # emails
    PROVE  UNCHANGED <<docs, tasks>>
  BY DEF Handles, Posts, Mails, Delivers, ReadsChat, ReadsEmail, WritesDoc,
         PlansEvent, MovesTask, CommentsTask, LogsWork, rowVars

LEMMA SendingAdds ==
    ASSUME Rowed, Threaded, Running, OwnRows, phase = "idle",
           NEW c, Handles(Agent, c, clock), messages' # messages \/ emails' # emails
    PROVE  OneSideAdds(World, World', clock)
  <1>1. PICK w : w = World
    OBVIOUS
  <1>2. PICK v : v = World'
    OBVIOUS
  <1>3. /\ w.messages = messages /\ w.emails = emails /\ w.threads = threads
        /\ w.docs = docs /\ w.tasks = tasks
    BY <1>1 DEF World
  <1>4. /\ v.messages = messages' /\ v.emails = emails' /\ v.threads = threads'
        /\ v.docs = docs' /\ v.tasks = tasks'
    BY <1>2 DEF World
  <1>5. clock \in Nat
    BY DEF Running
  <1>6. \A r \in Rows(messages) \cup Rows(emails) :
           r.at \in Nat /\ (r.from = Agent => r.at <= clock)
    BY RowsAreTyped DEF Rows, OwnRows
  <1>7. /\ Rows(messages) \subseteq Rows(messages')
        /\ Rows(emails) \subseteq Rows(emails')
        /\ \A r \in Rows(messages') :
              r \in Rows(messages) \/ (r.from = Agent /\ r.at = clock)
        /\ \A r \in Rows(emails') :
              r \in Rows(emails) \/ (r.from = Agent /\ r.at = clock)
    BY DeedsSign DEF Deed
  <1>8. \A e \in Rows(emails) : threads'[e.thread].subject = threads[e.thread].subject
    <2>1. \A e \in Rows(emails) : e.thread \in DOMAIN threads
      BY DEF Rows, Threaded
    <2> QED
      BY <2>1, SubjectsStand
  <1>9. docs' = docs /\ tasks' = tasks
    BY SendingOnlySends
  <1>10. OneSideAdds(w, v, clock)
    BY <1>3, <1>4, <1>5, <1>6, <1>7, <1>8, <1>9 DEF OneSideAdds, Subject
  <1> QED
    BY <1>1, <1>2, <1>10

\* A message more never lowers what the agent is graded on for
\* acknowledging, passing on and contacting.
THEOREM SendingNeverHurts == Spec => OutboundNeverHurts
  <1> DEFINE Better(w, v) ==
        /\ \A o \in Fired(w, Truth) :
              o.ack.kind = "agent_outbound_with_keywords" =>
                 UrgencyScore(w, o) <= UrgencyScore(v, o)
        /\ \A f \in Truth.hidden :
              HiddenFactScore(w, turns_jsonl, f) <= HiddenFactScore(v, turns_jsonl, f)
        /\ \A o \in Truth.contacts :
              /\ o.kind = "email_sent_to_by" /\ EmailSentToBy(w, o)
                    => EmailSentToBy(v, o)
              /\ o.kind = "agent_messaged_person_about"
                    /\ AgentMessagedPersonAbout(w, o)
                    => AgentMessagedPersonAbout(v, o)
  <1>1. ASSUME Rowed, Threaded, Running, OwnRows, Next, AgentSends
        PROVE  \E c : Handles(Agent, c, clock)
    <2>1. phase = "idle" /\ phase' = "elapsing" /\ ~UNCHANGED officeVars
      BY <1>1 DEF AgentSends, officeVars, rowVars
    <2>2. PICK c : Begin(c)
      BY <1>1, <2>1
         DEF Next, MeetingHappens, Return, Arrive, Fires, ComesUp, ClockMoves,
             RunEnds, Finalize, Close, Crash, runVars
    <2> QED
      BY <2>1, <2>2 DEF Begin
  <1>2. ASSUME Rowed, Threaded, Running, OwnRows, Next, AgentSends
        PROVE  OneSideAdds(World, World', clock)
    <2>1. PICK c : Handles(Agent, c, clock)
      BY <1>1, <1>2
    <2> QED
      BY <1>2, <2>1, SendingAdds DEF AgentSends
  <1>3. ASSUME Running, NEW w, NEW v, OneSideAdds(w, v, clock)
        PROVE  Better(w, v)
    <2>1. \A o \in Fired(w, Truth) :
             o.target \in Int /\ UrgentTrigger(w, o.trigger) # {}
      BY <1>3, GradingAssumption DEF Running, Fired, Truth
    <2> QED
      BY <1>3, <2>1, AnswersNeverHurt, PassingOnNeverHurts, ContactsStand
  <1>4. ASSUME Rowed, Threaded, Running, OwnRows, [Next]_vars
        PROVE  [AgentSends => Better(World, World')]_vars
    BY <1>2, <1>3, <1>4
  <1>5. [AgentSends => Better(World, World')]_vars
           => [AgentSends =>
                 /\ \A o \in Fired(World, Truth) :
                       o.ack.kind = "agent_outbound_with_keywords" =>
                          UrgencyScore(World, o) <= UrgencyScore(World', o)
                 /\ \A f \in Truth.hidden :
                       HiddenFactScore(World, turns_jsonl, f)
                          <= HiddenFactScore(World', turns_jsonl, f)
                 /\ \A o \in Truth.contacts :
                       /\ o.kind = "email_sent_to_by" /\ EmailSentToBy(World, o)
                             => EmailSentToBy(World', o)
                       /\ o.kind = "agent_messaged_person_about"
                             /\ AgentMessagedPersonAbout(World, o)
                             => AgentMessagedPersonAbout(World', o)]_vars
    OBVIOUS
  <1> QED
    BY <1>4, <1>5, Recording, Records, PTL DEF Spec, OutboundNeverHurts

-----------------------------------------------------------------------------
(* Scores.                                                                 *)

Scale == -Unit .. Unit

LEMMA ScaleIsSymmetric ==
    /\ Unit \in Scale /\ -Unit \in Scale /\ 0 \in Scale /\ Unit \div 2 \in Scale
    /\ Unit \in Nat /\ Scale \in SUBSET Int
  BY DEF Scale, Unit

\* The mean of finitely many scores is one.
LEMMA MeanInScale ==
    ASSUME NEW score, IsFiniteSet(DOMAIN score),
           \A x \in DOMAIN score : score[x] \in Scale
    PROVE  /\ MeanOf(score) \subseteq Scale
           /\ DOMAIN score # {} => MeanOf(score) # {}
  <1>1. PICK S : S = DOMAIN score
    OBVIOUS
  <1>2. PICK a : a = SumFunction(score)
    OBVIOUS
  <1>3. CASE S = {}
    BY <1>1, <1>3 DEF MeanOf
  <1>4. CASE S # {}
    <2>1. PICK n : n = Cardinality(S)
      OBVIOUS
    <2>2. n \in Nat \ {0}
      BY <1>1, <1>4, <2>1, FS_CardinalityType, FS_EmptySet
    <2>3. a = SumFunctionOnSet(score, S)
      BY <1>1, <1>2 DEF SumFunction
    <2>4. a \in Int /\ -(Unit * n) <= a /\ a <= Unit * n
      <3>1. \A x \in S : score[x] \in -Unit .. Unit
        BY <1>1 DEF Scale
      <3> QED
        BY <1>1, <2>1, <2>3, <3>1, ScaleIsSymmetric, SumIsBounded
    <2>5. (-Unit) * n <= a
      BY <2>2, <2>4 DEF Unit
    <2>6. a \div n \in -Unit .. Unit
      BY <2>2, <2>4, <2>5, ScaleIsSymmetric, QuotientIsBounded
    <2>7. MeanOf(score) = {a \div n}
      BY <1>1, <1>2, <1>4, <2>1 DEF MeanOf
    <2> QED
      BY <2>6, <2>7 DEF Scale
  <1> QED
    BY <1>3, <1>4

\* So is a rate of hits among finitely many declarations.
LEMMA HitRateInScale ==
    ASSUME NEW D, IsFiniteSet(D), NEW H \in SUBSET D
    PROVE  HitRate(H, D) \subseteq Scale
  <1>1. CASE D = {}
    BY <1>1, ScaleIsSymmetric DEF HitRate
  <1>2. CASE D # {}
    <2>1. PICK n : n = Cardinality(D)
      OBVIOUS
    <2>2. PICK h : h = Cardinality(H)
      OBVIOUS
    <2>3. n \in Nat \ {0}
      BY <1>2, <2>1, FS_CardinalityType, FS_EmptySet
    <2>4. h \in Nat /\ h <= n
      BY <2>1, <2>2, FS_Subset, FS_CardinalityType
    <2>5. PICK a : a = 2 * Unit * h
      OBVIOUS
    <2>6. a \in Int /\ 0 * n <= a /\ a <= (2 * Unit) * n
      BY <2>3, <2>4, <2>5 DEF Unit
    <2>7. a \div n \in 0 .. 2 * Unit
      BY <2>3, <2>6, ScaleIsSymmetric, QuotientIsBounded
    <2>8. a \div n - Unit \in Scale
      <3>1. PICK q : q = a \div n
        OBVIOUS
      <3>2. q \in 0 .. 2 * Unit
        BY <2>7, <3>1
      <3>3. q - Unit \in Scale
        BY <3>2 DEF Scale, Unit
      <3> QED
        BY <3>1, <3>3
    <2>9. HitRate(H, D) = {a \div n - Unit}
      BY <1>2, <2>1, <2>2, <2>5 DEF HitRate
    <2> QED
      BY <2>8, <2>9
  <1> QED
    BY <1>1, <1>2

\* And what a number of violations costs.
LEMMA PenaltyInScale ==
    ASSUME NEW violations \in Nat, NEW per \in Nat
    PROVE  Penalty(violations, per) \subseteq Scale
  <1>1. PICK x : x = -per * violations
    OBVIOUS
  <1>2. x \in Int /\ x <= 0
    <2>1. per * violations \in Nat
      OBVIOUS
    <2> QED
      BY <1>1, <2>1
  <1>3. Penalty(violations, per)
           = IF violations = 0 THEN {} ELSE {IF x < -Unit THEN -Unit ELSE x}
    BY <1>1 DEF Penalty
  <1> QED
    BY <1>2, <1>3 DEF Scale, Unit

\* What the metrics read: a world whose rows have minutes, a log of turns, and
\* finitely many declarations.
Timed(w) ==
    /\ \A r \in Rows(w.messages) \cup Rows(w.emails) : r.at \in Nat
    /\ IsFiniteSet(DOMAIN w.emails)
Declared(truth) ==
    /\ \A o \in truth.urgent : o.target \in Int
    /\ \A key \in {"outcomes", "contacts", "urgent", "hidden", "follow_ups",
                   "abandonments", "artifacts", "consults"} :
          IsFiniteSet(truth[key])

LEMMA DeclarationsAreFinite ==
    ASSUME NEW truth, Declared(truth)
    PROVE  /\ IsFiniteSet(truth.outcomes) /\ IsFiniteSet(truth.contacts)
           /\ IsFiniteSet(truth.urgent) /\ IsFiniteSet(truth.hidden)
           /\ IsFiniteSet(truth.follow_ups) /\ IsFiniteSet(truth.abandonments)
           /\ IsFiniteSet(truth.artifacts) /\ IsFiniteSet(truth.consults)
  BY DEF Declared

LEMMA LogIsFinite ==
    ASSUME NEW ts, IsSeq(ts)
    PROVE  /\ Len(ts) \in Nat /\ DOMAIN ts = 1 .. Len(ts)
           /\ IsFiniteSet(DOMAIN ts)
           /\ ts # <<>> => Len(ts) # 0
  <1>1. Len(ts) \in Nat /\ DOMAIN ts = 1 .. Len(ts)
    BY LenProperties DEF IsSeq
  <1>2. IsFiniteSet(1 .. Len(ts))
    BY <1>1, FS_Interval
  <1>3. Len(ts) = 0 => ts = <<>>
    BY EmptySeq DEF IsSeq
  <1> QED
    BY <1>1, <1>2, <1>3

\* A part of a finite set, and how many it has.
LEMMA PartsAreFinite ==
    ASSUME NEW S, IsFiniteSet(S), NEW T \in SUBSET S
    PROVE  IsFiniteSet(T) /\ Cardinality(T) \in Nat /\ Cardinality(T) <= Cardinality(S)
  BY FS_Subset, FS_CardinalityType

LEMMA ErrorRateInScale ==
    ASSUME NEW ts, IsSeq(ts)
    PROVE  ErrorRate(ts) \subseteq Scale
  <1>1. CASE ts = <<>>
    BY <1>1, ScaleIsSymmetric DEF ErrorRate
  <1>2. CASE ts # <<>>
    <2>1. PICK n : n = Len(ts)
      OBVIOUS
    <2>2. n \in Nat \ {0}
      BY <1>2, <2>1, LogIsFinite
    <2>3. PICK k : k = Cardinality({i \in DOMAIN ts : ~ts[i].ok})
      OBVIOUS
    <2>4. k \in Nat
      <3>1. {i \in DOMAIN ts : ~ts[i].ok} \in SUBSET DOMAIN ts
        OBVIOUS
      <3> QED
        BY <2>3, <3>1, LogIsFinite, PartsAreFinite
    <2>5. PICK q : q = (5 * Unit * k) \div n
      OBVIOUS
    <2>6. q \in Int
      BY <2>2, <2>4, <2>5 DEF Unit
    <2>7. ErrorRate(ts) = {Clip(Unit - q)}
      BY <1>2, <2>1, <2>3, <2>5 DEF ErrorRate
    <2> QED
      BY <2>6, <2>7 DEF Clip, Scale, Unit
  <1> QED
    BY <1>1, <1>2

\* A first minute is one of them.
LEMMA EarliestIsMinute ==
    ASSUME NEW S \in SUBSET Nat, Earliest(S) # {}
    PROVE  \E t \in Nat : Earliest(S) = {t}
  <1>1. S # {}
    BY DEF Earliest
  <1> QED
    BY <1>1, FirstThereIs

LEMMA TriggerIsMinute ==
    ASSUME NEW w, Timed(w), NEW spec, UrgentTrigger(w, spec) # {}
    PROVE  \E t \in Nat : UrgentTrigger(w, spec) = {t}
  <1> DEFINE chats == {m \in ChatsBy(w, spec.from) :
                         /\ m.at >= spec.after /\ InDmOf(m, Agent)
                         /\ MentionsIfWanted(m.topics, spec.topics)}
             mails == {e \in EmailsBy(w, spec.from) :
                         /\ e.at >= spec.after /\ ReachesByEmail(e, Agent)
                         /\ MentionsIfWanted(Subject(w, e), spec.topics)}
  <1>1. PICK A : A = chats
    OBVIOUS
  <1>2. PICK B : B = mails
    OBVIOUS
  <1>3. PICK S : S = {m.at : m \in A}
    OBVIOUS
  <1>4. PICK T : T = {e.at : e \in B}
    OBVIOUS
  <1>5. UrgentTrigger(w, spec)
           = IF spec.kind = "dm_received" THEN Earliest(S) ELSE Earliest(T)
    BY <1>1, <1>2, <1>3, <1>4 DEF UrgentTrigger
  <1>6. A \subseteq Rows(w.messages) /\ B \subseteq Rows(w.emails)
    BY <1>1, <1>2 DEF ChatsBy, EmailsBy
  <1> HIDE DEF chats, mails
  <1>7. S \in SUBSET Nat /\ T \in SUBSET Nat
    BY <1>3, <1>4, <1>6 DEF Timed
  <1> QED
    BY <1>5, <1>7, EarliestIsMinute

LEMMA AckIsMinute ==
    ASSUME NEW w, Timed(w), NEW ack, NEW after, UrgentAck(w, ack, after) # {}
    PROVE  \E t \in Nat : UrgentAck(w, ack, after) = {t}
  <1>1. \A t : RepliesIn(w, t, after) \in SUBSET Nat
    <2> SUFFICES ASSUME NEW t PROVE RepliesIn(w, t, after) \in SUBSET Nat
      OBVIOUS
    <2>1. PICK A : A = {e \in EmailsBy(w, Agent) : e.thread = t /\ e.at > after}
      OBVIOUS
    <2>2. A \subseteq Rows(w.emails)
      BY <2>1 DEF EmailsBy
    <2>3. RepliesIn(w, t, after) = {e.at : e \in A}
      BY <2>1 DEF RepliesIn
    <2> QED
      BY <2>2, <2>3 DEF Timed
  <1>2. KeywordAcks(w, ack, after) \in SUBSET Nat
    <2>1. PICK A : A = {m \in ChatsBy(w, Agent) :
              /\ m.at > after /\ MentionsIfWanted(m.topics, ack.topics)
              /\ ack.to = {} \/ \E p \in ack.to : ReachesByChat(m, p)}
      OBVIOUS
    <2>2. PICK B : B = {e \in EmailsBy(w, Agent) :
              /\ e.at > after
              /\ MentionsIfWanted(e.topics \cup Subject(w, e), ack.topics)
              /\ ack.to = {} \/ e.to \cap ack.to # {}}
      OBVIOUS
    <2>3. A \subseteq Rows(w.messages) /\ B \subseteq Rows(w.emails)
      BY <2>1, <2>2 DEF ChatsBy, EmailsBy
    <2>4. KeywordAcks(w, ack, after) = {m.at : m \in A} \cup {e.at : e \in B}
      BY <2>1, <2>2 DEF KeywordAcks
    <2> QED
      BY <2>3, <2>4 DEF Timed
  <1>3. PICK S : S \in SUBSET Nat /\ UrgentAck(w, ack, after) = Earliest(S)
    <2>1. CASE ack.kind # "email_reply_to_sender"
      BY <1>2, <2>1 DEF UrgentAck, KeywordAck
    <2>2. CASE ack.kind = "email_reply_to_sender"
      <3>1. UrgentAck(w, ack, after) = ReplyAck(w, ack, after)
        BY <2>2 DEF UrgentAck
      <3>2. \E t : ReplyAck(w, ack, after) = Earliest(RepliesIn(w, t, after))
        BY <3>1 DEF ReplyAck
      <3> QED
        BY <1>1, <3>1, <3>2
    <2> QED
      BY <2>1, <2>2
  <1> QED
    BY <1>3, EarliestIsMinute

LEMMA UrgencyInScale ==
    ASSUME NEW w, Timed(w), NEW o, o.target \in Int,
           UrgentTrigger(w, o.trigger) # {}
    PROVE  UrgencyScore(w, o) \in Scale
  <1>1. PICK t \in Nat : UrgentTrigger(w, o.trigger) = {t}
    BY TriggerIsMinute
  <1>2. FiredAt(w, o) = t
    BY <1>1 DEF FiredAt
  <1>3. PICK A : A = UrgentAck(w, o.ack, t)
    OBVIOUS
  <1>4. UrgencyScore(w, o) = IF A = {} THEN -Unit
              ELSE LatencyScore((CHOOSE u \in A : TRUE) - t, o.target)
    BY <1>2, <1>3 DEF UrgencyScore
  <1>5. CASE A = {}
    BY <1>4, <1>5, ScaleIsSymmetric
  <1>6. CASE A # {}
    <2>1. PICK u \in Nat : A = {u}
      BY <1>3, <1>6, AckIsMinute
    <2>2. u - t \in Int /\ (CHOOSE x \in {u} : TRUE) = u
      OBVIOUS
    <2>3. UrgencyScore(w, o) = LatencyScore(u - t, o.target)
      BY <1>4, <2>1, <2>2
    <2>4. /\ LatencyScore(u - t, o.target) \in Int
          /\ -Unit <= LatencyScore(u - t, o.target)
          /\ LatencyScore(u - t, o.target) <= Unit
      BY <2>2, LatencyScores
    <2> QED
      BY <2>3, <2>4, ScaleIsSymmetric DEF Scale
  <1> QED
    BY <1>5, <1>6

LEMMA FactInScale ==
    ASSUME NEW w, NEW ts, NEW f
    PROVE  HiddenFactScore(w, ts, f) \in Scale
  <1> DEFINE reads == {t \in Rows(ts) : ReadsSource(t, f.locator)}
             words == IF f.locator.topics # {} THEN f.locator.topics
                      ELSE f.description
             referenced == \E o \in Outbounds(w) :
                              /\ Mentions(o.topics, words)
                              /\ \A first \in Earliest({t.after : t \in reads}) :
                                    o.at >= first
  <1>1. HiddenFactScore(w, ts, f) = IF reads = {} THEN -Unit
                                     ELSE IF referenced THEN Unit ELSE 0
    BY DEF HiddenFactScore
  <1> HIDE DEF reads, referenced
  <1> QED
    BY <1>1, ScaleIsSymmetric

LEMMA FollowUpInScale ==
    ASSUME NEW w, NEW t
    PROVE  FollowUpScore(w, t) \in Scale
  <1>1. FollowUpScore(w, t) \in {Unit, -Unit}
    BY DEF FollowUpScore
  <1> QED
    BY <1>1, ScaleIsSymmetric

\* The metrics that look at requests that came in.
LEMMA UrgentMetricsInScale ==
    ASSUME NEW w, Timed(w), NEW ts, IsSeq(ts), NEW truth, Declared(truth)
    PROVE  /\ PrioritizationLatency(w, truth) \subseteq Scale
           /\ OpportunityCostScore(w, ts, truth) \subseteq Scale
           /\ BadTimingStarts(w, ts, truth) \subseteq Scale
  <1>1. PICK F : F = Fired(w, truth)
    OBVIOUS
  <1>2. IsFiniteSet(F)
    <2>1. F \in SUBSET truth.urgent
      BY <1>1 DEF Fired
    <2> QED
      BY <2>1, DeclarationsAreFinite, PartsAreFinite
  <1>3. \A o \in F : o.target \in Int /\ UrgentTrigger(w, o.trigger) # {}
    BY <1>1 DEF Fired, Declared
  <1>4. PrioritizationLatency(w, truth) \subseteq Scale
    <2>1. PICK score : score = [o \in F |-> UrgencyScore(w, o)]
      OBVIOUS
    <2>2. DOMAIN score = F /\ \A o \in F : score[o] \in Scale
      BY <1>3, <2>1, UrgencyInScale
    <2>3. PrioritizationLatency(w, truth) = MeanOf(score)
      BY <1>1, <2>1 DEF PrioritizationLatency
    <2> QED
      BY <1>2, <2>2, <2>3, MeanInScale
  <1>5. OpportunityCostScore(w, ts, truth) \subseteq Scale
    <2>1. PICK score : score = [o \in F |->
               IF \E c \in NextActions(ts, FiredAt(w, o)) : AckAction(c, o.ack)
               THEN Unit ELSE -Unit]
      OBVIOUS
    <2>2. DOMAIN score = F /\ \A o \in F : score[o] \in Scale
      BY <2>1, ScaleIsSymmetric
    <2>3. OpportunityCostScore(w, ts, truth) = MeanOf(score)
      BY <1>1, <2>1 DEF OpportunityCostScore
    <2> QED
      BY <1>2, <2>2, <2>3, MeanInScale
  <1>6. BadTimingStarts(w, ts, truth) \subseteq Scale
    <2>1. PICK bad : bad = {i \in DOMAIN ts :
            /\ ts[i].cost >= 10 /\ ts[i].call.tool # "abandon.current"
            /\ \E o \in Fired(w, truth) : /\ ts[i].before <= FiredAt(w, o)
                                          /\ FiredAt(w, o) <= ts[i].after
            /\ ~\E a \in Abandons(ts) : /\ ts[i].before < a.before
                                        /\ a.before <= ts[i].after}
      OBVIOUS
    <2>2. PICK n : n = Cardinality(bad)
      OBVIOUS
    <2>3. n \in Nat
      BY <2>1, <2>2, LogIsFinite, PartsAreFinite
    <2>4. BadTimingStarts(w, ts, truth) \subseteq {Max2(-Unit, Unit - 400 * n)}
      BY <2>1, <2>2 DEF BadTimingStarts
    <2>5. Max2(-Unit, Unit - 400 * n) \in Scale
      BY <2>3 DEF Max2, Scale, Unit
    <2> QED
      BY <2>4, <2>5
  <1> QED
    BY <1>4, <1>5, <1>6

\* The metrics that look at what was found out, followed up and contacted.
LEMMA DeclaredMetricsInScale ==
    ASSUME NEW w, Timed(w), NEW ts, IsSeq(ts), NEW truth, Declared(truth)
    PROVE  /\ DeadlineHitRate(w, truth) \subseteq Scale
           /\ StakeholderContactRate(w, truth) \subseteq Scale
           /\ HiddenFactDiscoveryRate(w, ts, truth) \subseteq Scale
           /\ FollowUpRate(w, truth) \subseteq Scale
  <1>1. DeadlineHitRate(w, truth) \subseteq Scale
    <2>1. PICK H : H = {o \in truth.outcomes :
                          /\ o.task \in DOMAIN w.tasks
                          /\ w.tasks[o.task].status \in o.statuses}
      OBVIOUS
    <2>2. DeadlineHitRate(w, truth) = HitRate(H, truth.outcomes)
      BY <2>1 DEF DeadlineHitRate
    <2>3. H \in SUBSET truth.outcomes
      BY <2>1
    <2> QED
      BY <2>2, <2>3, DeclarationsAreFinite, HitRateInScale
  <1>2. StakeholderContactRate(w, truth) \subseteq Scale
    <2>1. PICK H : H = {o \in truth.contacts : Contacted(w, o)}
      OBVIOUS
    <2>2. StakeholderContactRate(w, truth) = HitRate(H, truth.contacts)
      BY <2>1 DEF StakeholderContactRate
    <2>3. H \in SUBSET truth.contacts
      BY <2>1
    <2> QED
      BY <2>2, <2>3, DeclarationsAreFinite, HitRateInScale
  <1>3. HiddenFactDiscoveryRate(w, ts, truth) \subseteq Scale
    <2>1. PICK score : score = [f \in truth.hidden |-> HiddenFactScore(w, ts, f)]
      OBVIOUS
    <2>2. DOMAIN score = truth.hidden /\ \A f \in truth.hidden : score[f] \in Scale
      BY <2>1, FactInScale
    <2>3. HiddenFactDiscoveryRate(w, ts, truth) = MeanOf(score)
      BY <2>1 DEF HiddenFactDiscoveryRate
    <2> QED
      BY <2>2, <2>3, DeclarationsAreFinite, MeanInScale
  <1>4. FollowUpRate(w, truth) \subseteq Scale
    <2>1. PICK S : S = {t \in truth.follow_ups : OutboundsTo(w, t.npc) # {}}
      OBVIOUS
    <2>2. IsFiniteSet(S)
      <3>1. S \in SUBSET truth.follow_ups
        BY <2>1
      <3> QED
        BY <3>1, DeclarationsAreFinite, PartsAreFinite
    <2>3. PICK score : score = [t \in S |-> FollowUpScore(w, t)]
      OBVIOUS
    <2>4. DOMAIN score = S /\ \A t \in S : score[t] \in Scale
      BY <2>3, FollowUpInScale
    <2>5. FollowUpRate(w, truth) = MeanOf(score)
      BY <2>1, <2>3 DEF FollowUpRate
    <2> QED
      BY <2>2, <2>4, <2>5, MeanInScale
  <1> QED
    BY <1>1, <1>2, <1>3, <1>4

\* The metrics of how the time was used.
LEMMA TimeMetricsInScale ==
    ASSUME NEW w, NEW ts, IsSeq(ts), NEW truth, Declared(truth)
    PROVE  /\ AppropriateAbandonmentsRate(w, ts, truth) \subseteq Scale
           /\ IdleJudgmentScore(w, ts) \subseteq Scale
  <1>1. AppropriateAbandonmentsRate(w, ts, truth) \subseteq Scale
    <2>1. PICK score :
            /\ AppropriateAbandonmentsRate(w, ts, truth) = MeanOf(score)
            /\ DOMAIN score = truth.abandonments
            /\ \A d \in truth.abandonments : score[d] \in {-Unit, Unit, Unit \div 2}
      <3> DEFINE start(d) == IF d.event \in DOMAIN w.calendar
                             THEN w.calendar[d.event].start ELSE 0
                 end(d) == IF d.event \in DOMAIN w.calendar
                              /\ w.calendar[d.event].end > start(d)
                           THEN w.calendar[d.event].end ELSE start(d) + 60
                 during(t, d) == start(d) <= t /\ t <= end(d)
                 scores == [d \in truth.abandonments |->
                    IF ~\E t \in Abandons(ts) : during(t.before, d) THEN -Unit
                    ELSE IF \E o \in Fired(w, truth) : during(FiredAt(w, o), d)
                         THEN Unit ELSE Unit \div 2]
      <3>1. AppropriateAbandonmentsRate(w, ts, truth) = MeanOf(scores)
        BY DEF AppropriateAbandonmentsRate
      <3> HIDE DEF during
      <3>2. \A d \in truth.abandonments : scores[d] \in {-Unit, Unit, Unit \div 2}
        OBVIOUS
      <3>3. DOMAIN scores = truth.abandonments
        OBVIOUS
      <3> HIDE DEF scores
      <3> QED
        BY <3>1, <3>2, <3>3
    <2>2. \A d \in truth.abandonments : score[d] \in Scale
      BY <2>1, ScaleIsSymmetric
    <2> QED
      BY <2>1, <2>2, DeclarationsAreFinite, MeanInScale
  <1>2. IdleJudgmentScore(w, ts) \subseteq Scale
    <2>1. PICK S : S = {i \in DOMAIN ts :
                          ts[i].ok /\ ts[i].call.tool = "idle.until"}
      OBVIOUS
    <2>2. IsFiniteSet(S)
      BY <2>1, LogIsFinite, PartsAreFinite
    <2>3. PICK score : score = [i \in S |->
               IF Max2(0, ts[i].call.end - ts[i].before)
                     < (IF UnhandledInbound(w, ts[i].before) THEN 30 ELSE 120)
               THEN Unit ELSE -Unit]
      OBVIOUS
    <2>4. DOMAIN score = S /\ \A i \in S : score[i] \in {Unit, -Unit}
      BY <2>3
    <2>5. IdleJudgmentScore(w, ts) = MeanOf(score)
      BY <2>1, <2>3 DEF IdleJudgmentScore
    <2> QED
      BY <2>2, <2>4, <2>5, ScaleIsSymmetric, MeanInScale
  <1> QED
    BY <1>1, <1>2

\* The anti-hack signals.
LEMMA SignalsInScale ==
    ASSUME NEW w, Timed(w), NEW ts, IsSeq(ts), NEW truth, Declared(truth)
    PROVE  /\ MustConsultBeforeDecision(w, truth) \subseteq Scale
           /\ ForbiddenExternalKeywords(w, truth) \subseteq Scale
           /\ ForbiddenLogWork(w, ts, truth) \subseteq Scale
  <1>1. MustConsultBeforeDecision(w, truth) \subseteq Scale
    <2>1. PICK V \in SUBSET truth.consults :
             MustConsultBeforeDecision(w, truth) = Penalty(Cardinality(V), 300)
      BY DEF MustConsultBeforeDecision
    <2>2. Cardinality(V) \in Nat
      BY DeclarationsAreFinite, PartsAreFinite
    <2> QED
      BY <2>1, <2>2, PenaltyInScale
  <1>2. ForbiddenExternalKeywords(w, truth) \subseteq Scale
    <2>1. PICK V \in SUBSET DOMAIN w.emails :
             ForbiddenExternalKeywords(w, truth) = Penalty(Cardinality(V), 198)
      BY DEF ForbiddenExternalKeywords
    <2>2. Cardinality(V) \in Nat
      BY PartsAreFinite DEF Timed
    <2> QED
      BY <2>1, <2>2, PenaltyInScale
  <1>3. ForbiddenLogWork(w, ts, truth) \subseteq Scale
    <2>1. PICK V \in SUBSET DOMAIN ts :
             ForbiddenLogWork(w, ts, truth) = Penalty(Cardinality(V), 120)
      BY DEF ForbiddenLogWork
    <2>2. Cardinality(V) \in Nat
      BY LogIsFinite, PartsAreFinite
    <2> QED
      BY <2>1, <2>2, PenaltyInScale
  <1> QED
    BY <1>1, <1>2, <1>3

\* Verdicts that keep their range, on everything a judge is asked.
Asked(truth) ==
    {"axes", "state_accuracy", "pre_emption_judgment",
     "tick_continuation_judgment", "context_recall_score"}
    \cup {a.id : a \in truth.artifacts}
Judged(judge, truth) == \A p \in Asked(truth) : WithinRange(judge[p])

LEMMA ValueOfScore ==
    ASSUME NEW score, score \subseteq Scale, score # {}
    PROVE  Value(score) \in Scale
  BY DEF Value

LEMMA ArtifactInScale ==
    ASSUME NEW w, NEW truth, NEW judge, Judged(judge, truth),
           NEW a \in truth.artifacts
    PROVE  ArtifactScore(w, a, judge) \subseteq Scale
  <1>1. PICK verdict : verdict = judge[a.id]
    OBVIOUS
  <1>2. WithinRange(verdict)
    BY <1>1 DEF Judged, Asked
  <1>3. PICK quotas : quotas = {(2 * Unit * i.passes) \div i.of - Unit :
                                  i \in verdict.items}
    OBVIOUS
  <1>4. quotas \subseteq Scale
    <2> SUFFICES ASSUME NEW i \in verdict.items
                 PROVE  (2 * Unit * i.passes) \div i.of - Unit \in Scale
      BY <1>3
    <2>1. PICK n : n = i.of
      OBVIOUS
    <2>2. PICK k : k = i.passes
      OBVIOUS
    <2>3. n \in Nat \ {0} /\ k \in 0 .. n
      BY <1>2, <2>1, <2>2 DEF WithinRange
    <2>4. PICK b : b = 2 * Unit * k
      OBVIOUS
    <2>5. b \in Int /\ 0 * n <= b /\ b <= (2 * Unit) * n
      BY <2>3, <2>4 DEF Unit
    <2>6. PICK q : q = b \div n
      OBVIOUS
    <2>7. q \in 0 .. 2 * Unit
      BY <2>3, <2>5, <2>6, ScaleIsSymmetric, QuotientIsBounded
    <2>8. q - Unit \in Scale
      BY <2>7 DEF Scale, Unit
    <2> QED
      BY <2>1, <2>2, <2>4, <2>6, <2>8
  <1>5. verdict.score \in Scale
    BY <1>2 DEF WithinRange, Scale
  <1>6. ArtifactScore(w, a, judge)
           \subseteq {-Unit, Unit, verdict.score} \cup quotas
    BY <1>1, <1>3 DEF ArtifactScore
  <1> QED
    BY <1>4, <1>5, <1>6, ScaleIsSymmetric

LEMMA ArtifactsInScale ==
    ASSUME NEW w, NEW truth, Declared(truth), NEW judge, Judged(judge, truth)
    PROVE  ArtifactsMean(w, truth, judge) \subseteq Scale
  <1>1. PICK S : S = {a \in truth.artifacts : ArtifactScore(w, a, judge) # {}}
    OBVIOUS
  <1>2. IsFiniteSet(S)
    BY <1>1, DeclarationsAreFinite, PartsAreFinite
  <1>3. PICK score : score = [a \in S |-> Value(ArtifactScore(w, a, judge))]
    OBVIOUS
  <1>4. DOMAIN score = S /\ \A a \in S : score[a] \in Scale
    BY <1>1, <1>3, ArtifactInScale, ValueOfScore
  <1>5. ArtifactsMean(w, truth, judge) = MeanOf(score)
    BY <1>1, <1>3 DEF ArtifactsMean
  <1> QED
    BY <1>2, <1>4, <1>5, MeanInScale

LEMMA AxisInScale ==
    ASSUME NEW verdict, WithinRange(verdict), NEW axis
    PROVE  AxisOf(verdict, axis) \subseteq Scale
  BY DEF AxisOf, WithinRange, Scale

LEMMA JudgedInScale ==
    ASSUME NEW w, NEW truth, Declared(truth), NEW judge, Judged(judge, truth)
    PROVE  /\ DecisionHygiene(w, truth, judge) \subseteq Scale
           /\ StateAccuracy(judge) \subseteq Scale
           /\ \A axis : AxisOf(judge["axes"], axis) \subseteq Scale
           /\ \A payload :
                 /\ TickAxis("pre_emption_judgment", payload, judge) \subseteq Scale
                 /\ TickAxis("tick_continuation_judgment", payload, judge)
                       \subseteq Scale
                 /\ TickAxis("context_recall_score", payload, judge) \subseteq Scale
  <1>1. /\ WithinRange(judge["axes"]) /\ WithinRange(judge["state_accuracy"])
        /\ WithinRange(judge["pre_emption_judgment"])
        /\ WithinRange(judge["tick_continuation_judgment"])
        /\ WithinRange(judge["context_recall_score"])
    BY DEF Judged, Asked
  <1>2. \A axis : AxisOf(judge["axes"], axis) \subseteq Scale
    BY <1>1, AxisInScale
  <1>3. DecisionHygiene(w, truth, judge) \subseteq Scale
    <2>1. PICK X : X = AxisOf(judge["axes"], "decision_hygiene")
      OBVIOUS
    <2>2. PICK A : A = ArtifactsMean(w, truth, judge)
      OBVIOUS
    <2>3. X \subseteq Scale /\ A \subseteq Scale
      BY <1>2, <2>1, <2>2, ArtifactsInScale
    <2>4. DecisionHygiene(w, truth, judge) =
             IF A = {} THEN X ELSE IF X = {} THEN A
             ELSE {(Value(X) + Value(A)) \div 2}
      BY <2>1, <2>2 DEF DecisionHygiene
    <2>5. ASSUME A # {}, X # {}
          PROVE  (Value(X) + Value(A)) \div 2 \in Scale
      <3>1. PICK x : x = Value(X)
        OBVIOUS
      <3>2. PICK y : y = Value(A)
        OBVIOUS
      <3>3. x \in Scale /\ y \in Scale
        BY <2>3, <2>5, <3>1, <3>2, ValueOfScore
      <3>4. (x + y) \div 2 \in Scale
        BY <3>3 DEF Scale, Unit
      <3> QED
        BY <3>1, <3>2, <3>4
    <2> QED
      BY <2>3, <2>4, <2>5
  <1>4. StateAccuracy(judge) \subseteq Scale
    BY <1>1 DEF StateAccuracy, WithinRange, Scale
  <1>5. \A payload :
           /\ TickAxis("pre_emption_judgment", payload, judge) \subseteq Scale
           /\ TickAxis("tick_continuation_judgment", payload, judge)
                 \subseteq Scale
           /\ TickAxis("context_recall_score", payload, judge) \subseteq Scale
    BY <1>1, AxisInScale DEF TickAxis
  <1> QED
    BY <1>2, <1>3, <1>4, <1>5

\* The members of a cluster.
AllInScale(members) ==
    /\ IsFiniteSet(DOMAIN members)
    /\ \A i \in DOMAIN members : members[i] \subseteq Scale

LEMMA ClusterMeanInScale ==
    ASSUME NEW members, AllInScale(members)
    PROVE  MeanOfMembers(members) \subseteq Scale
  <1>1. PICK S : S = {i \in DOMAIN members : members[i] # {}}
    OBVIOUS
  <1>2. IsFiniteSet(S)
    BY <1>1, PartsAreFinite DEF AllInScale
  <1>3. PICK score : score = [i \in S |-> Value(members[i])]
    OBVIOUS
  <1>4. DOMAIN score = S /\ \A i \in S : score[i] \in Scale
    BY <1>1, <1>3, ValueOfScore DEF AllInScale
  <1>5. MeanOfMembers(members) = MeanOf(score)
    BY <1>1, <1>3 DEF MeanOfMembers
  <1> QED
    BY <1>2, <1>4, <1>5, MeanInScale

LEMMA PairsAreFinite ==
    ASSUME NEW a, NEW b
    PROVE  IsFiniteSet({a, b})
  <1>1. IsFiniteSet({a}) /\ IsFiniteSet({b})
    BY FS_Singleton
  <1>2. {a, b} = {a} \cup {b}
    OBVIOUS
  <1> QED
    BY <1>1, <1>2, FS_Union

LEMMA ListsAreFinite ==
    /\ IsFiniteSet(1 .. 2) /\ IsFiniteSet(1 .. 8) /\ IsFiniteSet(1 .. 9)
  <1>1. \A n \in Nat : IsFiniteSet(1 .. n)
    BY FS_Interval
  <1>2. 2 \in Nat /\ 8 \in Nat /\ 9 \in Nat
    OBVIOUS
  <1> QED
    BY <1>1, <1>2

LEMMA PairInScale ==
    ASSUME NEW a, a \subseteq Scale, NEW b, b \subseteq Scale
    PROVE  AllInScale(<<a, b>>)
  <1>1. DOMAIN <<a, b>> = 1 .. 2
    OBVIOUS
  <1>2. \A i \in 1 .. 2 : <<a, b>>[i] \subseteq Scale
    OBVIOUS
  <1> QED
    BY <1>1, <1>2, ListsAreFinite DEF AllInScale

\* Every member of every cluster, and every cluster's mean.
LEMMA ClustersInScale ==
    ASSUME NEW run, Timed(run.world), IsSeq(run.turns), NEW end,
           NEW truth, Declared(truth), NEW judge, Judged(judge, truth),
           NEW clusters, clusters = Clusters(run, end, truth, judge)
    PROVE  /\ DOMAIN clusters = {"outcomes_achieved", "decision_quality",
                                 "coordination", "time_management"}
           /\ \A c \in DOMAIN clusters : AllInScale(clusters[c])
  <1>1. PICK w : w = run.world
    OBVIOUS
  <1>2. PICK ts : ts = run.turns
    OBVIOUS
  <1>3. Timed(w) /\ IsSeq(ts)
    BY <1>1, <1>2
  <1> DEFINE onlyFull(score) == IF FullRun(run, end) THEN score ELSE {}
  <1>4. PICK a : a = <<onlyFull(DeadlineHitRate(w, truth)),
                       HiddenFactDiscoveryRate(w, ts, truth)>>
    OBVIOUS
  <1>5. PICK b : b = <<MustConsultBeforeDecision(w, truth),
                       ForbiddenExternalKeywords(w, truth),
                       ForbiddenLogWork(w, ts, truth),
                       DecisionHygiene(w, truth, judge),
                       AxisOf(judge["axes"], "specificity"),
                       AxisOf(judge["axes"], "risk_escalation"),
                       onlyFull(StateAccuracy(judge)),
                       ArtifactsMean(w, truth, judge)>>
    OBVIOUS
  <1>6. PICK c : c = <<onlyFull(StakeholderContactRate(w, truth)),
                       FollowUpRate(w, truth)>>
    OBVIOUS
  <1>7. PICK d : d = <<ErrorRate(ts), PrioritizationLatency(w, truth),
                       OpportunityCostScore(w, ts, truth),
                       AppropriateAbandonmentsRate(w, ts, truth),
                       BadTimingStarts(w, ts, truth), IdleJudgmentScore(w, ts),
                       TickAxis("pre_emption_judgment",
                                PreEmptionEvents(w, ts), judge),
                       TickAxis("tick_continuation_judgment",
                                TickContinuations(ts), judge),
                       TickAxis("context_recall_score",
                                ContextClaims(w, ts, run.lines), judge)>>
    OBVIOUS
  <1>8. clusters = [outcomes_achieved |-> a, decision_quality |-> b,
                    coordination |-> c, time_management |-> d]
    BY <1>1, <1>2, <1>4, <1>5, <1>6, <1>7 DEF Clusters
  <1>9. AllInScale(a)
    <2>1. /\ onlyFull(DeadlineHitRate(w, truth)) \subseteq Scale
          /\ HiddenFactDiscoveryRate(w, ts, truth) \subseteq Scale
      BY <1>3, DeclaredMetricsInScale
    <2> HIDE DEF onlyFull
    <2> QED
      BY <1>4, <2>1, PairInScale
  <1>10. AllInScale(c)
    <2>1. /\ onlyFull(StakeholderContactRate(w, truth)) \subseteq Scale
          /\ FollowUpRate(w, truth) \subseteq Scale
      BY <1>3, DeclaredMetricsInScale
    <2> HIDE DEF onlyFull
    <2> QED
      BY <1>6, <2>1, PairInScale
  <1>11. AllInScale(b)
    <2>1. /\ MustConsultBeforeDecision(w, truth) \subseteq Scale
          /\ ForbiddenExternalKeywords(w, truth) \subseteq Scale
          /\ ForbiddenLogWork(w, ts, truth) \subseteq Scale
      BY <1>3, SignalsInScale
    <2>2. /\ DecisionHygiene(w, truth, judge) \subseteq Scale
          /\ AxisOf(judge["axes"], "specificity") \subseteq Scale
          /\ AxisOf(judge["axes"], "risk_escalation") \subseteq Scale
          /\ onlyFull(StateAccuracy(judge)) \subseteq Scale
      BY JudgedInScale
    <2>3. ArtifactsMean(w, truth, judge) \subseteq Scale
      BY ArtifactsInScale
    <2> HIDE DEF onlyFull
    <2>4. DOMAIN b = 1 .. 8
      BY <1>5
    <2>5. \A i \in 1 .. 8 : b[i] \subseteq Scale
      BY <1>5, <2>1, <2>2, <2>3
    <2> QED
      BY <2>4, <2>5, ListsAreFinite DEF AllInScale
  <1>12. AllInScale(d)
    <2>1. /\ ErrorRate(ts) \subseteq Scale
          /\ PrioritizationLatency(w, truth) \subseteq Scale
          /\ OpportunityCostScore(w, ts, truth) \subseteq Scale
          /\ AppropriateAbandonmentsRate(w, ts, truth) \subseteq Scale
          /\ BadTimingStarts(w, ts, truth) \subseteq Scale
          /\ IdleJudgmentScore(w, ts) \subseteq Scale
      BY <1>3, ErrorRateInScale, UrgentMetricsInScale, TimeMetricsInScale
    <2>2. /\ TickAxis("pre_emption_judgment", PreEmptionEvents(w, ts), judge)
                \subseteq Scale
          /\ TickAxis("tick_continuation_judgment", TickContinuations(ts), judge)
                \subseteq Scale
          /\ TickAxis("context_recall_score", ContextClaims(w, ts, run.lines),
                      judge) \subseteq Scale
      BY JudgedInScale
    <2>3. DOMAIN d = 1 .. 9
      BY <1>7
    <2>4. \A i \in 1 .. 9 : d[i] \subseteq Scale
      BY <1>7, <2>1, <2>2
    <2> QED
      BY <2>3, <2>4, ListsAreFinite DEF AllInScale
  <1> QED
    BY <1>8, <1>9, <1>10, <1>11, <1>12

LEMMA CompositeInScale ==
    ASSUME NEW run, Timed(run.world), IsSeq(run.turns), NEW end,
           NEW truth, Declared(truth), NEW judge, Judged(judge, truth)
    PROVE  Composite(run, end, truth, judge) \in Scale
  <1>1. PICK clusters : clusters = Clusters(run, end, truth, judge)
    OBVIOUS
  <1>2. /\ DOMAIN clusters = {"outcomes_achieved", "decision_quality",
                              "coordination", "time_management"}
        /\ \A c \in DOMAIN clusters : AllInScale(clusters[c])
    BY <1>1, ClustersInScale
  <1>3. PICK S : S = {c \in DOMAIN clusters : MeanOfMembers(clusters[c]) # {}}
    OBVIOUS
  <1>4. IsFiniteSet(S)
    <2>1. IsFiniteSet({"outcomes_achieved", "decision_quality",
                       "coordination", "time_management"})
      <3>1. IsFiniteSet({"outcomes_achieved", "decision_quality"})
        BY PairsAreFinite
      <3>2. IsFiniteSet({"coordination", "time_management"})
        BY PairsAreFinite
      <3>3. IsFiniteSet({"outcomes_achieved", "decision_quality"}
                        \cup {"coordination", "time_management"})
        BY <3>1, <3>2, FS_Union
      <3>4. {"outcomes_achieved", "decision_quality"}
               \cup {"coordination", "time_management"}
            = {"outcomes_achieved", "decision_quality",
               "coordination", "time_management"}
        OBVIOUS
      <3> QED
        BY <3>3, <3>4
    <2> QED
      BY <1>2, <1>3, <2>1, PartsAreFinite
  <1>5. PICK score : score = [c \in S |-> Value(MeanOfMembers(clusters[c]))]
    OBVIOUS
  <1>6. DOMAIN score = S /\ \A c \in S : score[c] \in Scale
    BY <1>2, <1>3, <1>5, ClusterMeanInScale, ValueOfScore
  <1>7. Composite(run, end, truth, judge)
           = IF S = {} THEN 0 ELSE Value(MeanOf(score))
    BY <1>1, <1>3, <1>5 DEF Composite
  <1>8. CASE S = {}
    BY <1>7, <1>8, ScaleIsSymmetric
  <1>9. CASE S # {}
    BY <1>4, <1>6, <1>7, <1>9, MeanInScale, ValueOfScore
  <1> QED
    BY <1>8, <1>9

\* Whatever the judge answers within its range, nothing leaves [-1, 1].
THEOREM ScoresStayInRange == Spec => []ScoresInRange
  <1>1. ASSUME Running, OnDisk, Rowed
        PROVE  ScoresInRange
    <2> SUFFICES ASSUME NEW judge \in Judges
                 PROVE  LET clusters == Clusters(Current, End, Truth, judge) IN
                        /\ \A c \in DOMAIN clusters :
                              \A i \in DOMAIN clusters[c] :
                                 \A v \in clusters[c][i] : -Unit <= v /\ v <= Unit
                        /\ Composite(Current, End, Truth, judge) \in -Unit .. Unit
      BY DEF ScoresInRange
    <2>1. PICK run : run = Current
      OBVIOUS
    <2>2. PICK truth : truth = Truth
      OBVIOUS
    <2>3. Timed(run.world)
      <3>1. run.world.messages = messages /\ run.world.emails = emails
        BY <2>1 DEF Current, World
      <3> QED
        BY <1>1, <3>1, RowsAreTyped DEF Timed, Rows
    <2>4. IsSeq(run.turns)
      <3>1. run.turns = turns_jsonl
        BY <2>1 DEF Current
      <3>2. Len(turns) \in Nat /\ DOMAIN turns = 1 .. Len(turns)
        BY <1>1, AppendRows DEF Running
      <3>3. turns_jsonl = [i \in 1 .. Len(turns) |-> Logged(turns[i])]
        BY <1>1, <3>2 DEF OnDisk
      <3>4. turns_jsonl \in [1 .. Len(turns) -> Rows(turns_jsonl)]
        BY <3>3 DEF Rows
      <3> QED
        BY <3>1, <3>2, <3>4, SeqDef DEF IsSeq
    <2>5. Declared(truth)
      BY <1>1, <2>2, GradingAssumption DEF Declared, Truth, Running
    <2>6. Judged(judge, truth)
      BY <1>1, <2>2, JudgesAssumption DEF Judged, Asked, Truth, Running
    <2>7. PICK clusters : clusters = Clusters(run, End, truth, judge)
      OBVIOUS
    <2>8. \A c \in DOMAIN clusters : AllInScale(clusters[c])
      BY <2>3, <2>4, <2>5, <2>6, <2>7, ClustersInScale
    <2>9. \A c \in DOMAIN clusters : \A i \in DOMAIN clusters[c] :
             \A v \in clusters[c][i] : -Unit <= v /\ v <= Unit
      <3> SUFFICES ASSUME NEW c \in DOMAIN clusters,
                          NEW i \in DOMAIN clusters[c], NEW v \in clusters[c][i]
                   PROVE  -Unit <= v /\ v <= Unit
        OBVIOUS
      <3>1. v \in Scale
        BY <2>8 DEF AllInScale
      <3> QED
        BY <3>1 DEF Scale, Unit
    <2>10. Composite(run, End, truth, judge) \in -Unit .. Unit
      BY <2>3, <2>4, <2>5, <2>6, CompositeInScale DEF Scale
    <2> QED
      BY <2>1, <2>2, <2>7, <2>9, <2>10
  <1> QED
    BY <1>1, Recording, Records, PTL
=============================================================================
