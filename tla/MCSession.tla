------------------------------ MODULE MCSession ------------------------------
(***************************************************************************)
(* Runs of two or three turns along four plots, each with the declarations *)
(* an eval.yaml would make for it, and WorkTime on a short day.            *)
(***************************************************************************)
EXTENDS Grading, WorkTime, TLC

People == {"agent", "ann", "bob"}
Topics == {"launch", "outage", "secret", "t1"}

General == [is_dm |-> FALSE, is_private |-> FALSE, members |-> People]
Leads == [is_dm |-> FALSE, is_private |-> TRUE, members |-> {"ann", "bob"}]
SeededChannels == {General, Leads}

\* What the loader puts in: a chat stamped later than the start of the run, and
\* a thread the agent has no part in.
SeededMessages ==
    <<[channel |-> General, from |-> "ann", mentions |-> {"agent"},
       topics |-> {"t1"}, at |-> 3]>>
SeededThreads == <<[subject |-> {"outage"}, participants |-> {"ann", "bob"}]>>
SeededEmails ==
    <<[thread |-> 1, from |-> "bob", to |-> {"ann"}, topics |-> {"outage"},
       at |-> 2, scripted |-> FALSE]>>
SeededDocs ==
    "spec" :> [acl_view |-> {}, acl_edit |-> {{"agent", "ann"}},
       versions |-> <<[author |-> "ann", topics |-> {"launch"}, at |-> 0]>>,
       comments |-> <<>>]
SeededCalendar ==
    "sync" :> [start |-> 10, end |-> 20, attendees |-> {"agent", "ann"},
               attended |-> FALSE]
SeededTasks ==
    "t1" :> [status |-> "Open", assignee |-> "agent", comments |-> {}]

\* Calls.
Dm(to, topics) ==
    [Blank EXCEPT !.tool = "chat.dm", !.to = {to}, !.topics = topics]
Post(channel, mentions, topics) ==
    [Blank EXCEPT !.tool = "chat.send", !.channel = channel,
                  !.mentions = mentions, !.topics = topics]
ReadDm(with, since, limit) ==
    [Blank EXCEPT !.tool = "chat.read", !.to = {with}, !.since = since,
                  !.limit = limit]
OnChannel(tool, channel) ==
    [Blank EXCEPT !.tool = tool, !.channel = channel, !.limit = 2]
Mail(thread, to, subject, topics) ==
    [Blank EXCEPT !.tool = "email.send", !.thread = thread, !.to = to,
                  !.subject = subject, !.topics = topics]
ReadMail(thread) == [Blank EXCEPT !.tool = "email.read", !.thread = thread]
OnDoc(tool, doc, topics, cost) ==
    [Blank EXCEPT !.tool = tool, !.doc = doc, !.topics = topics, !.cost = cost]
OnEvent(tool, event, answer) ==
    [Blank EXCEPT !.tool = tool, !.event = event, !.answer = answer]
Plan(event, start, end, to) ==
    [Blank EXCEPT !.tool = "calendar.create", !.event = event,
                  !.start = start, !.end = end, !.to = to]
OnTask(tool, task, status, topics, cost) ==
    [Blank EXCEPT !.tool = tool, !.task = task, !.status = status,
                  !.topics = topics, !.cost = cost]
Until(tool, end) == [Blank EXCEPT !.tool = tool, !.end = end]

Npc(who, call, late) == [who |-> who, call |-> call, late |-> late]
Script(who, tool, call) ==
    [who |-> who, call |-> [call EXCEPT !.tool = tool], late |-> FALSE]

\* Declarations.
NoTruth ==
    [outcomes |-> {}, contacts |-> {}, urgent |-> {}, hidden |-> {},
     follow_ups |-> {}, abandonments |-> {}, artifacts |-> {}, consults |-> {},
     external |-> [people |-> {}, words |-> {}], log_work |-> {}]
UrgentDm ==
    [id |-> "dm", target |-> 2,
     trigger |-> [kind |-> "dm_received", from |-> "ann", after |-> 0,
                  topics |-> {"launch"}],
     ack |-> [kind |-> "agent_outbound_with_keywords", from |-> "ann",
              topics |-> {"launch"}, to |-> {"ann"}]]
UrgentMail ==
    [id |-> "mail", target |-> 0,
     trigger |-> [kind |-> "email_received", from |-> "ann", after |-> 0,
                  topics |-> {"outage"}],
     ack |-> [kind |-> "email_reply_to_sender", from |-> "ann",
              topics |-> {"outage"}, to |-> {}]]
Contact(kind, to) ==
    [kind |-> kind, from |-> "agent", to |-> to, topics |-> {"outage"},
     by |-> {20}, within |-> 5]
Fact(kind, from, topics, sources, subject) ==
    [locator |-> [kind |-> kind, from |-> from, topics |-> topics,
                  docs |-> sources, subject |-> subject],
     description |-> {"launch"}]
FollowUp(window, topics) == [npc |-> "ann", window |-> window, topics |-> topics]
Decision(kind, to, rubric) ==
    [id |-> kind, rubric |-> rubric,
     locator |-> [kind |-> kind, topics |-> {"launch"}, from |-> {"agent"},
                  to |-> to]]

\* A direct message that wants an answer while a long document is written.
Urgent ==
    [max_turns |-> 3,
     calls |-> {Dm("ann", {"launch"}), ReadDm("ann", {}, 1),
                OnDoc("docs.create", "plan", {"launch"}, 15),
                Until("abandon.current", 0)},
     arrivals |-> {Npc("ann", Dm("agent", {"launch"}), TRUE)},
     scripts |-> {Script("ann", "npc_send_dm", Dm("agent", {"launch"}))},
     truth |-> [NoTruth EXCEPT
        !.urgent = {UrgentDm},
        !.hidden = {Fact("dm", {"ann"}, {"launch"}, {}, {})},
        !.follow_ups = {FollowUp(5, {}), FollowUp(0, {"launch"})},
        !.contacts = {[Contact("agent_messaged_person_about", {"ann"})
                          EXCEPT !.topics = {"launch"}]}]]

\* Mail in old and new threads, and idling in between.
Mailbox ==
    [max_turns |-> 2,
     calls |-> {Mail(0, {"ann"}, {"outage"}, {"secret"}),
                Mail(1, {"ann", "bob"}, {}, {"launch"}), ReadMail(1),
                Until("idle.until", 40), Until("wait.until", 40)},
     arrivals |-> {Npc("ann", Mail(1, {"agent"}, {}, {"launch"}), TRUE)},
     scripts |-> {Script("ann", "npc_send_email",
                         Mail(0, {"agent"}, {"outage"}, {})),
                  Script("bob", "npc_send_email",
                         Mail(1, {"agent"}, {}, {"launch"}))},
     truth |-> [NoTruth EXCEPT
        !.urgent = {UrgentMail},
        !.hidden = {Fact("email", {}, {}, {}, {"outage"}),
                    Fact("email", {"ann"}, {"launch"}, {}, {})},
        !.contacts = {Contact("email_sent_to_by", "ann"),
                      Contact("email_reply_within", "ann")},
        !.external = [people |-> {"bob", "ann"}, words |-> {"secret"}],
        !.artifacts = {Decision("email_thread", {"ann"}, TRUE)}]]

\* A decision taken in documents, around a meeting.
Deciding ==
    [max_turns |-> 3,
     calls |-> {OnDoc("docs.edit", "spec", {"launch"}, 5),
                OnDoc("docs.comment", "spec", {"launch"}, 0),
                OnDoc("docs.read", "spec", {}, 0),
                OnEvent("meetings.attend", "sync", "")},
     arrivals |-> {Npc("ann", OnEvent("calendar.rsvp", "sync", "no"), FALSE),
                   Npc("ann", Plan("review", 30, 31, {"agent"}), TRUE)},
     scripts |-> {},
     truth |-> [NoTruth EXCEPT
        !.artifacts = {Decision("decision_signal", {}, TRUE),
                       [Decision("decision_signal", {}, FALSE)
                          EXCEPT !.id = "unjudged"]},
        !.consults = {[consult |-> "ann", artifact |-> "decision_signal"],
                      [consult |-> "bob", artifact |-> "decision_signal"],
                      [consult |-> "bob", artifact |-> "undeclared"]},
        !.hidden = {Fact("doc_conflict", {}, {}, {"spec"}, {})},
        !.abandonments = {[event |-> "sync"], [event |-> "gone"]}]]

\* Work on tasks, and talk about it.
Tasks ==
    [max_turns |-> 2,
     calls |-> {OnTask("tasks.update_status", "t1", "Done", {}, 0),
                OnTask("tasks.log_work", "t1", "", {}, 12),
                Dm("ann", {"t1"}), OnChannel("chat.mark_read", General),
                OnChannel("chat.read", Leads)},
     arrivals |-> {Npc("ann", OnTask("tasks.update_status", "t1", "Review",
                                     {}, 0), FALSE),
                   Npc("bob", OnTask("tasks.comment", "t1", "", {"launch"}, 0),
                       TRUE)},
     scripts |-> {Script("ann", "npc_send_chat",
                         Post(General, {"agent"}, {"t1"}))},
     truth |-> [NoTruth EXCEPT
        !.outcomes = {[task |-> "t1", statuses |-> {"Done"}],
                      [task |-> "t2", statuses |-> {"Done"}]},
        !.log_work = {"ann"},
        !.hidden = {Fact("other", {}, {"t1"}, {}, {})}]]

FourPlots == <<Urgent, Mailbox, Deciding, Tasks>>
TasksOnly == <<Tasks>>

-----------------------------------------------------------------------------
\* Judges: one that answers as the stub does, one that cannot be reached, and
\* ones at the ends of the scale, with and without items.
Prompts == {"axes", "state_accuracy", "pre_emption_judgment",
            "tick_continuation_judgment", "context_recall_score",
            "decision_signal", "email_thread", "unjudged"}
Axes == {"specificity", "decision_hygiene", "risk_escalation"}
Verdict(failed, score, items, axes) ==
    [failed |-> failed, score |-> score, items |-> items, axes |-> axes]
All(verdict) == [p \in Prompts |-> verdict]

SomeJudges ==
    {All(Verdict(FALSE, 0, {}, <<>>)), All(Verdict(TRUE, 0, {}, <<>>)),
     All(Verdict(FALSE, -Unit, {[passes |-> 0, of |-> 2]},
                 [a \in Axes \cup Prompts |-> -Unit])),
     All(Verdict(FALSE, Unit, {[passes |-> 3, of |-> 3]},
                 [a \in Axes \cup Prompts |-> Unit]))}

-----------------------------------------------------------------------------
\* The working week of people whose day has four minutes, in time zones a
\* part of a day, a day and more than a week away (Day is 4 here).
Weeks ==
    {[weekdays |-> d, start |-> h[1], end |-> h[2], offset |-> o] :
        d \in {{0}, {0, 6}, {2, 3}, 0 .. 4},
        h \in {h \in (0 .. 3) \X (1 .. 4) : h[1] < h[2]},
        o \in {-30, -4, -1, 0, 3}}

\* next_business_minute finds the minute its docstring promises.
ASSUME NextBusinessMinuteIsLeast ==
    \A h \in Weeks, t \in 0 .. 27, origin \in {0, 9} :
        NextBusinessMinute(origin, t, h) = LeastWorkingMinute(origin, t, h)
=============================================================================
