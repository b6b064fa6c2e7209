------------------------------- MODULE Metrics -------------------------------
(***************************************************************************)
(* The evaluator's metrics (src/sim/evaluator/metrics.py) as operators on  *)
(* the final world w, the logged turns ts and what eval.yaml declares, a   *)
(* record `truth` of sets of declarations.  An optional filter or minute   *)
(* is a set, empty when it is not given.                                   *)
(***************************************************************************)
EXTENDS Company, Scores

CONSTANT TickSize   \* tick_size_minutes of the scenario

ASSUME TickSizeAssumption == TickSize \in Nat \ {0}

ReadOnlyTools ==
    {"chat.read", "chat.list", "chat.mark_read", "email.read", "email.list",
     "docs.read", "docs.list", "tasks.list", "tasks.get", "calendar.list",
     "calendar.get", "directory.list", "directory.get", "directory.presence",
     "notifications.list", "notifications.mark_read",
     "meetings.get_transcript"}

Earliest(times) == IF times = {} THEN {} ELSE {Min(times)}
Allowed(x, wanted) == wanted = {} \/ x \in wanted

ChatsBy(w, p) == {m \in Rows(w.messages) : m.from = p}
EmailsBy(w, p) == {e \in Rows(w.emails) : e.from = p}
Subject(w, e) == w.threads[e.thread].subject

-----------------------------------------------------------------------------
ErrorRate(ts) ==
    IF ts = <<>> THEN {Unit}
    ELSE LET errors == Cardinality({i \in DOMAIN ts : ~ts[i].ok})
         IN  {Clip(Unit - (5 * Unit * errors) \div Len(ts))}

\* Hits among declarations, from -1 to +1.  Without any declared it is 0, and
\* still contributes.
HitRate(hits, declared) ==
    IF declared = {} THEN {0}
    ELSE {(2 * Unit * Cardinality(hits)) \div Cardinality(declared) - Unit}

DeadlineHitRate(w, truth) ==
    HitRate({o \in truth.outcomes : /\ o.task \in DOMAIN w.tasks
                                    /\ w.tasks[o.task].status \in o.statuses},
            truth.outcomes)

EmailSentToBy(w, o) ==
    \E e \in EmailsBy(w, o.from) :
        /\ ReachesByEmail(e, o.to)
        /\ MentionsIfWanted(Subject(w, e), o.topics)
        /\ \A by \in o.by : e.at <= by

\* Some email of the replier after the first of a thread, in time.
EmailReplyWithin(w, o) ==
    \E t \in DOMAIN w.threads :
        LET mails == {i \in DOMAIN w.emails : w.emails[i].thread = t}
            first == CHOOSE i \in mails : \A j \in mails \ {i} :
                        \/ w.emails[i].at < w.emails[j].at
                        \/ w.emails[i].at = w.emails[j].at /\ i < j
        IN  /\ MentionsIfWanted(w.threads[t].subject, o.topics)
            /\ mails # {}
            /\ \E i \in mails \ {first} :
                  /\ w.emails[i].from = o.from
                  /\ w.emails[i].at <= w.emails[first].at + o.within

AgentMessagedPersonAbout(w, o) ==
    \E m \in ChatsBy(w, Agent) :
        /\ \A p \in o.to : ReachesByChat(m, p)
        /\ Mentions(m.topics, o.topics)

Contacted(w, o) ==
    CASE o.kind = "email_sent_to_by" -> EmailSentToBy(w, o)
      [] o.kind = "email_reply_within" -> EmailReplyWithin(w, o)
      [] OTHER -> AgentMessagedPersonAbout(w, o)

StakeholderContactRate(w, truth) ==
    HitRate({o \in truth.contacts : Contacted(w, o)}, truth.contacts)

-----------------------------------------------------------------------------
\* _find_urgent_trigger: the minute of the first inbound that matches.
UrgentTrigger(w, spec) ==
    IF spec.kind = "dm_received"
    THEN Earliest({m.at : m \in {m \in ChatsBy(w, spec.from) :
            /\ m.at >= spec.after /\ InDmOf(m, Agent)
            /\ MentionsIfWanted(m.topics, spec.topics)}})
    ELSE Earliest({e.at : e \in {e \in EmailsBy(w, spec.from) :
            /\ e.at >= spec.after /\ ReachesByEmail(e, Agent)
            /\ MentionsIfWanted(Subject(w, e), spec.topics)}})

\* _find_urgent_ack: a reply in the first thread, in id order, that has one,
\* or the earliest outbound with a keyword.
RepliesIn(w, t, after) ==
    {e.at : e \in {e \in EmailsBy(w, Agent) : e.thread = t /\ e.at > after}}
ReplyAck(w, ack, after) ==
    LET answered == {t \in DOMAIN w.threads :
            /\ MentionsIfWanted(w.threads[t].subject, ack.topics)
            /\ \E e \in EmailsBy(w, ack.from) : e.thread = t
            /\ RepliesIn(w, t, after) # {}}
    IN  IF answered = {} THEN {}
        ELSE Earliest(RepliesIn(w, Min(answered), after))

KeywordAcks(w, ack, after) ==
    {m.at : m \in {m \in ChatsBy(w, Agent) :
        /\ m.at > after /\ MentionsIfWanted(m.topics, ack.topics)
        /\ ack.to = {} \/ \E p \in ack.to : ReachesByChat(m, p)}}
    \cup
    {e.at : e \in {e \in EmailsBy(w, Agent) :
        /\ e.at > after /\ MentionsIfWanted(e.topics \cup Subject(w, e), ack.topics)
        /\ ack.to = {} \/ e.to \cap ack.to # {}}}

\* Slip: the search keeps the last outbound it comes by.
KeywordAckLatest(w, ack, after) ==
    LET acks == KeywordAcks(w, ack, after)
    IN  IF acks = {} THEN {} ELSE {Max(acks)}

KeywordAck(w, ack, after) == Earliest(KeywordAcks(w, ack, after))

UrgentAck(w, ack, after) ==
    IF ack.kind = "email_reply_to_sender" THEN ReplyAck(w, ack, after)
    ELSE KeywordAck(w, ack, after)

FiredAt(w, o) == CHOOSE t \in UrgentTrigger(w, o.trigger) : TRUE
Fired(w, truth) == {o \in truth.urgent : UrgentTrigger(w, o.trigger) # {}}

\* Slip: an answer past twice the target goes on falling.
LatencyScoreUnclipped(latency, target) ==
    IF latency < TickSize THEN Unit
    ELSE IF target <= 0 THEN -Unit
    ELSE Unit - (latency * Unit) \div target

LatencyScore(latency, target) ==
    IF latency < TickSize THEN Unit
    ELSE IF target <= 0 THEN -Unit
    ELSE Clip(Unit - (latency * Unit) \div target)

UrgencyScore(w, o) ==
    LET ack == UrgentAck(w, o.ack, FiredAt(w, o))
    IN  IF ack = {} THEN -Unit
        ELSE LatencyScore((CHOOSE t \in ack : TRUE) - FiredAt(w, o), o.target)

PrioritizationLatency(w, truth) ==
    MeanOf([o \in Fired(w, truth) |-> UrgencyScore(w, o)])

-----------------------------------------------------------------------------
\* _read_calls_for_locator, one turn: a result that was moved to a file of its
\* own shows nothing, and email.read returns no sender at its top.
ReadsSource(t, loc) ==
    /\ t.ok /\ t.call.tool \in {"chat.read", "email.read", "docs.read"}
    /\ CASE loc.kind = "dm" /\ t.call.tool = "chat.read" ->
              \E r \in t.shown.rows : /\ Allowed(r.from, loc.from)
                                      /\ MentionsIfWanted(r.topics, loc.topics)
         [] loc.kind = "doc_conflict" /\ t.call.tool = "docs.read" ->
              t.call.doc \in loc.docs
         [] loc.kind = "email" /\ t.call.tool = "email.read" ->
              loc.from = {} /\ MentionsIfWanted(t.shown.subject, loc.subject)
         [] OTHER ->
              \/ \E r \in t.shown.rows : Mentions(r.topics, loc.topics)
              \/ Mentions(t.shown.subject, loc.topics)

Outbounds(w) ==
    LET said(n) == [at |-> n.at, topics |-> n.topics]
        notes == UNION {Rows(w.docs[d].versions) : d \in DOMAIN w.docs}
                 \cup UNION {w.tasks[t].comments : t \in DOMAIN w.tasks}
    IN  {said(m) : m \in ChatsBy(w, Agent)} \cup {said(e) : e \in EmailsBy(w, Agent)}
        \cup {said(n) : n \in {n \in notes : n.author = Agent}}

\* Read: the source was seen.  Referenced: something sent from the minute of
\* the first read on, or, of a fact never read, at any time.
HiddenFactScore(w, ts, f) ==
    LET reads == {t \in Rows(ts) : ReadsSource(t, f.locator)}
        words == IF f.locator.topics # {} THEN f.locator.topics ELSE f.description
        referenced == \E o \in Outbounds(w) :
                        /\ Mentions(o.topics, words)
                        /\ \A first \in Earliest({t.after : t \in reads}) :
                              o.at >= first
    IN  IF reads = {} THEN -Unit ELSE IF referenced THEN Unit ELSE 0

HiddenFactDiscoveryRate(w, ts, truth) ==
    MeanOf([f \in truth.hidden |-> HiddenFactScore(w, ts, f)])

-----------------------------------------------------------------------------
\* follow_up_rate.
ChatsTo(w, p) ==
    {i \in DOMAIN w.messages :
        w.messages[i].from = Agent /\ ReachesByChat(w.messages[i], p)}
EmailsTo(w, p) ==
    {i \in DOMAIN w.emails : w.emails[i].from = Agent /\ p \in w.emails[i].to}

OutboundsTo(w, p) ==
    {w.messages[i] : i \in ChatsTo(w, p)} \cup {w.emails[i] : i \in EmailsTo(w, p)}
FirstAt(w, p) == Min({o.at : o \in OutboundsTo(w, p)})

\* The first outbound's words; of one minute the chats come first.
FirstTopics(w, p) ==
    LET chats == {i \in ChatsTo(w, p) : w.messages[i].at = FirstAt(w, p)}
        mails == {i \in EmailsTo(w, p) : w.emails[i].at = FirstAt(w, p)}
    IN  IF chats # {} THEN w.messages[Min(chats)].topics
        ELSE w.emails[Min(mails)].topics

RepliedBetween(w, p, after, by) ==
    \/ \E m \in ChatsBy(w, p) : /\ after < m.at /\ m.at <= by
                                /\ ReachesByChat(m, Agent)
    \/ \E e \in EmailsBy(w, p) : /\ after < e.at /\ e.at <= by
                                 /\ ReachesByEmail(e, Agent)

FollowUpScore(w, t) ==
    LET first == FirstAt(w, t.npc)
        by == first + (IF t.window = 0 THEN 240 ELSE t.window)
        words == IF t.topics # {} THEN t.topics ELSE FirstTopics(w, t.npc)
    IN  IF \/ RepliedBetween(w, t.npc, first, by)
           \/ \E o \in OutboundsTo(w, t.npc) :
                 o.at > by /\ MentionsIfWanted(o.topics, words)
        THEN Unit ELSE -Unit

FollowUpRate(w, truth) ==
    MeanOf([t \in {t \in truth.follow_ups : OutboundsTo(w, t.npc) # {}} |->
               FollowUpScore(w, t)])

-----------------------------------------------------------------------------
\* opportunity_cost_score: the next three calls that do more than read; they
\* need not have succeeded.
NextActions(ts, after) ==
    LET actions == {i \in DOMAIN ts : /\ ts[i].before >= after
                                      /\ ts[i].call.tool \notin ReadOnlyTools}
    IN  {ts[i].call : i \in {i \in actions :
                                Cardinality({j \in actions : j < i}) < 3}}

AckAction(c, ack) ==
    IF ack.kind = "email_reply_to_sender" THEN c.tool = "email.send"
    ELSE /\ c.tool \in {"chat.send", "chat.dm", "email.send", "docs.create",
                        "docs.edit", "docs.comment", "tasks.comment",
                        "tasks.create"}
         /\ ack.to = {} \/ (c.to \cup c.mentions) \cap ack.to # {}
         /\ MentionsIfWanted(c.topics, ack.topics)

OpportunityCostScore(w, ts, truth) ==
    MeanOf([o \in Fired(w, truth) |->
               IF \E c \in NextActions(ts, FiredAt(w, o)) : AckAction(c, o.ack)
               THEN Unit ELSE -Unit])

Abandons(ts) == {t \in Rows(ts) : t.ok /\ t.call.tool = "abandon.current"}

AppropriateAbandonmentsRate(w, ts, truth) ==
    LET start(d) == IF d.event \in DOMAIN w.calendar
                    THEN w.calendar[d.event].start ELSE 0
        end(d) == IF d.event \in DOMAIN w.calendar
                     /\ w.calendar[d.event].end > start(d)
                  THEN w.calendar[d.event].end ELSE start(d) + 60
        during(t, d) == start(d) <= t /\ t <= end(d)
    IN  MeanOf([d \in truth.abandonments |->
              IF ~\E t \in Abandons(ts) : during(t.before, d) THEN -Unit
              ELSE IF \E o \in Fired(w, truth) : during(FiredAt(w, o), d)
                   THEN Unit ELSE Unit \div 2])

BadTimingStarts(w, ts, truth) ==
    LET bad == {i \in DOMAIN ts :
            /\ ts[i].cost >= 10 /\ ts[i].call.tool # "abandon.current"
            /\ \E o \in Fired(w, truth) : /\ ts[i].before <= FiredAt(w, o)
                                          /\ FiredAt(w, o) <= ts[i].after
            /\ ~\E a \in Abandons(ts) : /\ ts[i].before < a.before
                                        /\ a.before <= ts[i].after}
    IN  IF truth.urgent = {} THEN {}
        ELSE {Max2(-Unit, Unit - 400 * Cardinality(bad))}

\* idle_judgment_score: inbound since the last outbound, both before the call.
UnhandledInbound(w, at) ==
    LET sent == {r.at : r \in ChatsBy(w, Agent) \cup EmailsBy(w, Agent)}
        last_out == Max({-1} \cup {t \in sent : t < at})
        since(r) == r.from # Agent /\ last_out < r.at /\ r.at < at
    IN  \/ \E m \in Rows(w.messages) : since(m) /\ ReachesByChat(m, Agent)
        \/ \E e \in Rows(w.emails) : since(e) /\ ReachesByEmail(e, Agent)

IdleJudgmentScore(w, ts) ==
    LET idles == {i \in DOMAIN ts :
                    ts[i].ok /\ ts[i].call.tool = "idle.until"}
    IN  MeanOf([i \in idles |->
               IF Max2(0, ts[i].call.end - ts[i].before)
                     < (IF UnhandledInbound(w, ts[i].before) THEN 30 ELSE 120)
               THEN Unit ELSE -Unit])

-----------------------------------------------------------------------------
\* The anti-hack signals: silent until violated.
ForbiddenExternalKeywords(w, truth) ==
    Penalty(Cardinality({i \in DOMAIN w.emails :
                /\ w.emails[i].from = Agent
                /\ w.emails[i].to \cap truth.external.people # {}
                /\ Mentions(w.emails[i].topics, truth.external.words)}), 198)

\* _locate_artifact_time; the comments of a document are not looked at.
EmailArtifacts(w, loc) ==
    {e \in Rows(w.emails) :
        /\ MentionsIfWanted(Subject(w, e), loc.topics)
        /\ Allowed(e.from, loc.from)
        /\ \A p \in loc.to : ReachesByEmail(e, p)}
\* Slip: of a document neither comments nor versions are looked at.
DecisionTimesOfRows(w, loc) ==
    {r.at : r \in {r \in Rows(w.messages) \cup Rows(w.emails) :
        Allowed(r.from, loc.from) /\ Mentions(r.topics, loc.topics)}}

DecisionTimes(w, loc) ==
    LET hit(by, n) == Allowed(by, loc.from) /\ Mentions(n.topics, loc.topics)
    IN  {r.at : r \in {r \in Rows(w.messages) \cup Rows(w.emails) : hit(r.from, r)}}
        \cup {v.at : v \in {v \in UNION {Rows(w.docs[d].versions) :
                                           d \in DOMAIN w.docs} : hit(v.author, v)}}

ArtifactTime(w, loc) ==
    Earliest(CASE loc.kind = "email_thread" ->
                     {e.at : e \in EmailArtifacts(w, loc)}
               [] loc.kind = "decision_signal" -> DecisionTimes(w, loc)
               [] OTHER -> {})

\* _agent_contacted_person_before; having sat in a meeting together counts.
ContactedBefore(w, p, t) ==
    \/ \E m \in ChatsBy(w, Agent) : m.at < t /\ ReachesByChat(m, p)
    \/ \E e \in EmailsBy(w, Agent) : e.at < t /\ ReachesByEmail(e, p)
    \/ \E id \in DOMAIN w.calendar :
          /\ w.calendar[id].end < t /\ {Agent, p} \subseteq w.calendar[id].attendees
          /\ w.calendar[id].attended

MustConsultBeforeDecision(w, truth) ==
    LET declared(c) == {a \in truth.artifacts : a.id = c.artifact}
    IN  Penalty(Cardinality({c \in truth.consults :
            \/ declared(c) = {}
            \/ \E a \in declared(c) : \E t \in ArtifactTime(w, a.locator) :
                  ~ContactedBefore(w, c.consult, t)}), 300)

\* Judged by whom the task belongs to at the end of the run.
ForbiddenLogWork(w, ts, truth) ==
    Penalty(Cardinality({i \in DOMAIN ts :
                /\ ts[i].ok /\ ts[i].call.tool = "tasks.log_work"
                /\ \E p \in truth.log_work :
                      \/ ts[i].call.task \notin DOMAIN w.tasks
                      \/ w.tasks[ts[i].call.task].assignee # p}), 120)
=============================================================================
