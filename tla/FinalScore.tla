------------------------------ MODULE FinalScore ------------------------------
(***************************************************************************)
(* The final evaluation of a run directory (src/sim/evaluator/final.py and *)
(* rubrics.py).  A run is a record of what is on disk: world, turns, lines *)
(* (events.jsonl) and final (final_sim_time).  The judge is a function     *)
(* from prompts (an artifact's id, "axes" or an axis) to verdicts:         *)
(*   failed  the call or the parsing of its answer failed for good         *)
(*   score   the top-level score, 0 unless the answer has one              *)
(*   items   {} or {[passes, of]}: the rubric items it ticked              *)
(*   axes    the axes its answer names, with their scores                  *)
(***************************************************************************)
EXTENDS Metrics

-----------------------------------------------------------------------------
\* rubrics.py: the latest matching email, or every row with a keyword; here
\* the comments of a document count.
CommentHits(w, loc) ==
    {n \in UNION {Rows(w.docs[d].comments) : d \in DOMAIN w.docs} :
        Allowed(n.author, loc.from) /\ Mentions(n.topics, loc.topics)}
EmailBody(w, loc) ==
    {e \in EmailArtifacts(w, loc) :
        \A f \in EmailArtifacts(w, loc) : f.at <= e.at}
DecisionChunks(w, loc) ==
    {r \in Rows(w.messages) \cup Rows(w.emails) :
        Allowed(r.from, loc.from) /\ Mentions(r.topics, loc.topics)}
    \cup {v \in UNION {Rows(w.docs[d].versions) : d \in DOMAIN w.docs} :
        Allowed(v.author, loc.from) /\ Mentions(v.topics, loc.topics)}
    \cup CommentHits(w, loc)

ArtifactFound(w, loc) ==
    \/ loc.kind = "email_thread" /\ EmailBody(w, loc) # {}
    \/ loc.kind = "decision_signal" /\ DecisionChunks(w, loc) # {}

\* score_artifact: -1 when there is none, {} when the judge failed on it.
ArtifactScore(w, a, judge) ==
    LET verdict == judge[a.id] IN
    IF ~ArtifactFound(w, a.locator) THEN {-Unit}
    ELSE IF ~a.rubric THEN {Unit}
    ELSE IF verdict.failed THEN {}
    ELSE IF verdict.items = {} THEN {verdict.score}
    ELSE {(2 * Unit * i.passes) \div i.of - Unit : i \in verdict.items}

Value(score) == CHOOSE v \in score : TRUE

ArtifactsMean(w, truth, judge) ==
    MeanOf([a \in {a \in truth.artifacts : ArtifactScore(w, a, judge) # {}} |->
               Value(ArtifactScore(w, a, judge))])

-----------------------------------------------------------------------------
\* The judge's axes; {} when failed or not applicable.
AxisOf(verdict, axis) ==
    IF verdict.failed \/ axis \notin DOMAIN verdict.axes THEN {}
    ELSE {verdict.axes[axis]}

\* The artifacts count once more inside decision_hygiene.
DecisionHygiene(w, truth, judge) ==
    LET axis == AxisOf(judge["axes"], "decision_hygiene")
        artifacts == ArtifactsMean(w, truth, judge)
    IN  IF artifacts = {} THEN axis
        ELSE IF axis = {} THEN artifacts
        ELSE {(Value(axis) + Value(artifacts)) \div 2}

\* An answer without the key falls back on its top-level score.
StateAccuracy(judge) ==
    LET verdict == judge["state_accuracy"]
    IN  IF verdict.failed THEN {}
        ELSE IF "state_accuracy" \in DOMAIN verdict.axes
        THEN {verdict.axes["state_accuracy"]}
        ELSE {verdict.score}

\* _READ_TOOLS of final.py; those the registry knows under other names are
\* taken for actions.
JudgeReadTools ==
    {"chat.read", "chat.list_channels", "chat.list_recent", "email.list",
     "email.read", "email.list_threads", "docs.list", "docs.read",
     "tasks.list", "tasks.get", "calendar.list", "directory.list",
     "presence.get", "presence.list"}

\* One event for every abandon.current, failed ones too: the turn before it,
\* who wrote in the half hour before, and the next action within 15 minutes.
PreEmptionEvents(w, ts) ==
    LET recent(t) == {r.from : r \in {r \in
            {m \in Rows(w.messages) : ReachesByChat(m, Agent)}
            \cup {e \in Rows(w.emails) : ReachesByEmail(e, Agent)} :
            r.from # Agent /\ t - 30 <= r.at /\ r.at <= t}}
        actions(i) == {j \in DOMAIN ts : /\ j > i
                          /\ ts[j].before <= ts[i].after + 15
                          /\ ts[j].call.tool \notin JudgeReadTools}
    IN  {[abandoned |-> {ts[j].call.tool : j \in {i - 1} \cap DOMAIN ts},
          recent |-> recent(ts[i].before),
          next |-> {ts[j].call.tool : j \in Earliest(actions(i))}] :
            i \in {i \in DOMAIN ts : ts[i].call.tool = "abandon.current"}}

\* Turns taken for continuations of the tick of the turn before them.
TickContinuations(ts) ==
    {i \in DOMAIN ts : i > 1 /\ ts[i].before = ts[i - 1].after}

\* The status history read from events.jsonl: a payload's status or
\* new_status, at its sim_time or else at minute 0.
StatusHistory(lines) ==
    LET changes == {l.payload : l \in {l \in Rows(lines) :
                                          l.kind = "task_status_changed"}}
        entry(p, k) == [task |-> p.task_id, status |-> p[k],
                        at |-> IF "sim_time" \in DOMAIN p THEN p.sim_time ELSE 0]
    IN  UNION {{entry(p, k) : k \in {"status", "new_status"} \cap DOMAIN p} :
                 p \in changes}

StatusAt(lines, task, t) ==
    LET past == {h \in StatusHistory(lines) : h.task = task /\ h.at <= t}
    IN  {h.status : h \in {h \in past : \A g \in past : g.at <= h.at}}

\* A claim is a chat or an email that names a task.
ContextClaims(w, ts, lines) ==
    LET reads(t) == {r.before : r \in {r \in Rows(ts) :
            r.call.tool \in {"tasks.list", "tasks.get"} /\ r.before <= t}}
        claim(o, task) ==
            [task |-> task, at |-> o.at,
             state_at_claim |-> StatusAt(lines, task, o.at),
             state_at_last_read |->
                UNION {StatusAt(lines, task, Max(reads(o.at))) :
                         k \in Earliest(reads(o.at))},
             final_state |-> w.tasks[task].status]
    IN  UNION {{claim(o, task) : task \in o.topics \cap DOMAIN w.tasks} :
                 o \in ChatsBy(w, Agent) \cup EmailsBy(w, Agent)}

\* _add_axis_from_judge: the judge is asked only when there is something to
\* judge.
TickAxis(axis, payload, judge) ==
    IF payload = {} THEN {} ELSE AxisOf(judge[axis], axis)

-----------------------------------------------------------------------------
\* evaluate_run.
FinalTime(run) ==
    IF run.final # 0 THEN run.final
    ELSE IF run.turns = <<>> THEN 0 ELSE Last(run.turns).after
FullRun(run, end) == FinalTime(run) >= end

\* _build_clusters: the members of each cluster, in the order of CLUSTERS.
Clusters(run, end, truth, judge) ==
    LET w == run.world
        ts == run.turns
        onlyFull(score) == IF FullRun(run, end) THEN score ELSE {}
    IN  [outcomes_achieved |->
            <<onlyFull(DeadlineHitRate(w, truth)),
              HiddenFactDiscoveryRate(w, ts, truth)>>,
         decision_quality |->
            <<MustConsultBeforeDecision(w, truth),
              ForbiddenExternalKeywords(w, truth),
              ForbiddenLogWork(w, ts, truth),
              DecisionHygiene(w, truth, judge),
              AxisOf(judge["axes"], "specificity"),
              AxisOf(judge["axes"], "risk_escalation"),
              onlyFull(StateAccuracy(judge)),
              ArtifactsMean(w, truth, judge)>>,
         coordination |->
            <<onlyFull(StakeholderContactRate(w, truth)),
              FollowUpRate(w, truth)>>,
         time_management |->
            <<ErrorRate(ts), PrioritizationLatency(w, truth),
              OpportunityCostScore(w, ts, truth),
              AppropriateAbandonmentsRate(w, ts, truth),
              BadTimingStarts(w, ts, truth), IdleJudgmentScore(w, ts),
              TickAxis("pre_emption_judgment", PreEmptionEvents(w, ts), judge),
              TickAxis("tick_continuation_judgment", TickContinuations(ts),
                       judge),
              TickAxis("context_recall_score",
                       ContextClaims(w, ts, run.lines), judge)>>]

\* The mean of the members that contribute; a cluster without one is left out.
MeanOfMembers(members) ==
    MeanOf([i \in {i \in DOMAIN members : members[i] # {}} |->
               Value(members[i])])

Composite(run, end, truth, judge) ==
    LET clusters == Clusters(run, end, truth, judge)
        contributing == {c \in DOMAIN clusters :
                            MeanOfMembers(clusters[c]) # {}}
    IN  IF contributing = {} THEN 0
        ELSE Value(MeanOf([c \in contributing |->
                             Value(MeanOfMembers(clusters[c]))]))
=============================================================================
