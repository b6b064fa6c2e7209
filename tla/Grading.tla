------------------------------- MODULE Grading -------------------------------
(***************************************************************************)
(* What the recording, the briefing and the evaluation of a run owe one    *)
(* another.                                                                *)
(***************************************************************************)
EXTENDS Session, FinalScore, Briefing

CONSTANT Judges   \* judges, as functions from prompts to verdicts

\* What eval.yaml declares: finitely many of each, targets in whole minutes.
ASSUME GradingAssumption ==
    \A i \in DOMAIN Plots :
        /\ \A o \in Plots[i].truth.urgent : o.target \in Int
        /\ \A key \in {"outcomes", "contacts", "urgent", "hidden", "follow_ups",
                       "abandonments", "artifacts", "consults"} :
              IsFiniteSet(Plots[i].truth[key])

\* A verdict that keeps the range the judge is asked for.
WithinRange(verdict) ==
    /\ verdict.score \in -Unit .. Unit
    /\ \A axis \in DOMAIN verdict.axes : verdict.axes[axis] \in -Unit .. Unit
    /\ \A i \in verdict.items : i.of \in Nat \ {0} /\ i.passes \in 0 .. i.of

ASSUME JudgesAssumption ==
    \A judge \in Judges, i \in DOMAIN Plots :
        \A p \in {"axes", "state_accuracy", "pre_emption_judgment",
                 "tick_continuation_judgment", "context_recall_score"}
                \cup {a.id : a \in Plots[i].truth.artifacts} :
            WithinRange(judge[p])

Truth == Plots[plot].truth

\* The run directory, and the run as it would be recorded now.
Recorded == [world |-> Value(snapshot), turns |-> turns_jsonl,
             lines |-> events, final |-> Value(run_json)]
Current == [world |-> World, turns |-> turns_jsonl, lines |-> events,
            final |-> FinalSimTime]

TypeOK ==
    /\ OfficeTypeOK
    /\ plot \in DOMAIN Plots /\ clock \in Nat /\ phase \in Phases
    /\ Len(turns_jsonl) = Len(turns) /\ npc_clock \in Nat
    /\ \A i \in DOMAIN turns : turns[i].before <= turns[i].after
    /\ files \subseteq Artifacts

-----------------------------------------------------------------------------
LinesOf(kind) == {i \in DOMAIN events : events[i].kind = kind}
\* The status the lines leave a task in.
LastLine(task) ==
    {i \in LinesOf("task_status_changed") :
        /\ events[i].payload.task_id = task
        /\ \A j \in LinesOf("task_status_changed") :
              j > i => events[j].payload.task_id # task}

\* A directory that evaluate_run can open leaves nothing out: every turn, the
\* last state of the World and the last minute are there, also when the process
\* died inside finalize, which writes them one after the other (run_logger.py:
\* 77-99 and 115-164, final.py:381-398).  Which runs that die can be opened at
\* all is another question: see CrashedRunsAreScoreable.
GradableRunsAreComplete ==
    Gradable =>
        /\ turns_jsonl = [i \in DOMAIN turns |-> Logged(turns[i])]
        /\ snapshot = {World} /\ run_json = {clock}

\* The lines of events.jsonl and the seed add up to the World at every moment:
\* a line for each row that the loader had not inserted before the recorder was
\* wired, and the last change of a task's status leads to the status it has
\* (loader.py:185-214, cli.py:61-87, run_logger.py:52-71, world.py:137-226).
LinesAddUp ==
    /\ Len(InitialMessages) + Cardinality(LinesOf("message_inserted"))
          = Len(messages)
    /\ Len(InitialEmails) + Cardinality(LinesOf("email_inserted")) = Len(emails)
    /\ Len(InitialThreads) + Cardinality(LinesOf("email_thread_created"))
          = Len(threads)
    /\ Cardinality(LinesOf("meeting_transcript_added"))
          = Cardinality(DOMAIN transcripts)
    /\ \A t \in DOMAIN tasks : \A i \in LastLine(t) :
          events[i].payload.to = tasks[t].status

\* The evaluator takes a run for a full one exactly when its simulated time
\* was used up, whatever the last turn was and wherever it ended; only a run
\* out of turns is graded at the lower tier (run_logger.py:115-146,
\* final.py:391-399).
FullTierMeansTheEnd ==
    Gradable => /\ FullRun(Recorded, End) <=> clock >= End
                /\ TurnsLeft => FullRun(Recorded, End)

\* Whatever the judge answers within its range, and whatever part of it
\* fails, no member of a cluster and no composite leaves [-1, 1]
\* (final.py:18-26, metrics.py, rubrics.py:62-115).
ScoresInRange ==
    phase = "idle" =>
        \A judge \in Judges :
            LET clusters == Clusters(Current, End, Truth, judge) IN
            /\ \A c \in DOMAIN clusters :
                  \A i \in DOMAIN clusters[c] :
                     \A v \in clusters[c][i] : -Unit <= v /\ v <= Unit
            /\ Composite(Current, End, Truth, judge) \in -Unit .. Unit

\* The two copies of the artifact locator agree on whether there is an
\* artifact, but for one made only of comments on a document: it is graded and
\* has no time, so that no consultation is required for it (metrics.py:
\* 1253-1308, "Mirrors the locator semantics in rubrics.py"; rubrics.py:
\* 118-196).
TimedArtifactsAreFound ==
    \A a \in Truth.artifacts :
        IF ArtifactTime(World, a.locator) # {}
        THEN ArtifactFound(World, a.locator)
        ELSE ArtifactFound(World, a.locator) =>
                /\ a.locator.kind = "decision_signal"
                /\ CommentHits(World, a.locator) # {}

\* A meeting that is marked attended has a transcript, which was written between
\* its start and its end whenever the agent came in, and whoever answered in
\* the meantime, and in which the agent does not speak (tools/meetings.py:
\* 44-68, npc/meetings.py:35-90).  Of a meeting the agent stayed away from
\* nothing is claimed: README.md:132 promises a transcript and the code makes none.
MeetingsOnRecord ==
    \A id \in DOMAIN calendar : calendar[id].attended =>
        /\ id \in DOMAIN transcripts
        /\ calendar[id].start <= transcripts[id].generated_at
        /\ transcripts[id].generated_at <= calendar[id].end
        /\ Agent \notin transcripts[id].speakers

\* What the agent did, the turn in flight included.
Done ==
    IF flight = NoFlight THEN turns ELSE Append(turns, TurnOf(flight))
DoneAt(tools, t) ==
    {i \in DOMAIN Done : /\ Done[i].ok /\ Done[i].call.tool \in tools
                         /\ Done[i].before = t}
WrittenAt(rows, t) == {i \in DOMAIN rows : rows[i].from = Agent /\ rows[i].at = t}

\* The turns and the World tell one story: at each minute the agent's rows are
\* as many as the calls that began then and succeeded, so that reading, acting
\* and answering can be ordered across both records (registry.py:144-189,
\* driver.py:242-258, metrics.py).  A scenario that seeds rows in the agent's
\* name is outside OfficeAssumption: those rows have no turn.
RecordsAgree ==
    \A t \in {Done[i].before : i \in DOMAIN Done}
             \cup {r.at : r \in ChatsBy(World, Agent) \cup EmailsBy(World, Agent)} :
        /\ Cardinality(WrittenAt(messages, t))
              = Cardinality(DoneAt({"chat.send", "chat.dm"}, t))
        /\ Cardinality(WrittenAt(emails, t))
              = Cardinality(DoneAt({"email.send"}, t))
        /\ \A d \in DOMAIN docs :
              Cardinality({i \in DOMAIN docs[d].comments :
                  /\ docs[d].comments[i].author = Agent
                  /\ docs[d].comments[i].at = t})
              = Cardinality({i \in DoneAt({"docs.comment"}, t) :
                                Done[i].call.doc = d})

\* A step in which the agent sends a chat or an email.
AgentSends ==
    /\ phase = "idle" /\ phase' = "elapsing"
    /\ messages' # messages \/ emails' # emails

\* A message more from the agent is never held against it where acknowledging,
\* passing on and contacting are scored, however late other people's rows are
\* stamped (metrics.py:264-331, 557-622, 143-211).  Follow-up, idling and the
\* anti-hack signals do count against a sender.
OutboundNeverHurts ==
    [][AgentSends =>
        /\ \A o \in Fired(World, Truth) :
              o.ack.kind = "agent_outbound_with_keywords" =>
                 UrgencyScore(World, o) <= UrgencyScore(World', o)
        /\ \A f \in Truth.hidden :
              HiddenFactScore(World, turns_jsonl, f)
                 <= HiddenFactScore(World', turns_jsonl, f)
        /\ \A o \in Truth.contacts :
              /\ o.kind = "email_sent_to_by" /\ EmailSentToBy(World, o)
                    => EmailSentToBy(World', o)
              /\ o.kind = "agent_messaged_person_about"
                    /\ AgentMessagedPersonAbout(World, o)
                    => AgentMessagedPersonAbout(World', o)]_vars

\* An email that made its recipients participants of its thread: email.send
\* always does, a scripted sender only when it opens a thread.  The loader and
\* a scripted email into a thread that is there leave the participants alone.
OpensThread(i) ==
    /\ emails[i].thread > Len(InitialThreads)
    /\ \A j \in EmailsIn(emails[i].thread) : i <= j
Widens(i) ==
    i > Len(InitialEmails) /\ (~emails[i].scripted \/ OpensThread(i))
MayRead(p, t) == Accepts(p, [Blank EXCEPT !.tool = "email.read", !.thread = t], clock)

\* The agent is told of everything it can be graded on for answering: until it
\* has been read, every direct message or email to it, seeded, scripted or sent
\* by an NPC, is listed in the briefing and in the delta since any minute
\* before it.  The direct channel is one it may read, and so is the thread of
\* an email that widened it; any other may be listed and yet be refused by
\* email.read, if the scenario wrote it into a thread without the agent
\* (briefing.py:486-530, chat.py:148-163, email.py:42-77 and 121-135,
\* loader.py:284-330).
InboundIsBriefed ==
    phase = "idle" =>
        /\ \A i \in DOMAIN messages \ seen.chats :
              LET ch == messages[i].channel IN
              InDmOf(messages[i], Agent) /\ messages[i].from # Agent =>
                 /\ \E u \in UnreadChats : u.channel = ch
                 /\ \A since \in 0 .. (messages[i].at - 1) :
                       \E u \in DeltaChats(since) : u.channel = ch
                 /\ Accepts(Agent, [Blank EXCEPT !.tool = "chat.read",
                                                 !.channel = ch], clock)
        /\ \A i \in DOMAIN emails \ seen.emails :
              LET t == emails[i].thread IN
              ReachesByEmail(emails[i], Agent) =>
                 /\ \E j \in UnreadEmails : emails[j].thread = t
                 /\ \A since \in 0 .. (emails[i].at - 1) :
                       \E j \in DeltaEmails(since) : emails[j].thread = t
                 /\ Widens(i) => MayRead(Agent, t)

-----------------------------------------------------------------------------
\* What the repository says of a run and the code does not do.

\* A run that died after its first turn can still be graded at the lower tier
\* (run_logger.py:8, "a crashed run is still scoreable at the `slice_safe`
\* tier"; final.py:381-390).
CrashedRunsAreScoreable ==
    phase = "crashed" /\ turns_jsonl # <<>> => Gradable

\* What a claim about a task is checked against: the status the lines had
\* given the task by then (final.py:1067-1069, "the most recent
\* task_status_changed in events.jsonl with `sim_time <= claim_sim_time`").
ClaimStatesKnown ==
    \A claim \in ContextClaims(World, turns_jsonl, events) :
        (\E i \in LinesOf("task_status_changed") :
            /\ events[i].payload.task_id = claim.task
            /\ events[i].at <= claim.at)
        => claim.state_at_claim # {}
=============================================================================
