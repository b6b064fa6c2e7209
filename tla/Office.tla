-------------------------------- MODULE Office --------------------------------
(***************************************************************************)
(* What people do to the World through its tools (src/sim/tools/chat.py,   *)
(* email.py, docs.py, calendar.py, meetings.py, tasks.py), each call with  *)
(* its access check, its effect and the line it leaves in events.jsonl.    *)
(* The agent and the NPCs call the same handlers; the scenario's scripted  *)
(* senders (src/sim/scenario/loader.py) insert rows past them.             *)
(***************************************************************************)
EXTENDS Company

CONSTANTS Channels,         \* the seeded channels; direct ones are made on use
          InitialMessages, InitialThreads, InitialEmails,
          InitialDocs, InitialCalendar, InitialTasks

\* A seeded row is in a channel or thread that is there, since the loader would
\* raise otherwise; it may carry any minute, and none is written by the agent,
\* as in the scenarios that are shipped.  Participants of a thread are as the
\* seed lists them.  A seeded document has a version at most and no comment.
ASSUME OfficeAssumption ==
    /\ Channels \subseteq Channel
    /\ InitialMessages \in Seq(Message) /\ InitialThreads \in Seq(Thread)
    /\ InitialEmails \in Seq(Email)
    /\ \A i \in DOMAIN InitialMessages :
          /\ InitialMessages[i].channel \in Channels
          /\ InitialMessages[i].from # Agent
    /\ \A i \in DOMAIN InitialEmails :
          /\ InitialEmails[i].thread \in DOMAIN InitialThreads
          /\ InitialEmails[i].from # Agent /\ ~InitialEmails[i].scripted
    /\ \A d \in DOMAIN InitialDocs :
          InitialDocs[d] \in Doc /\ InitialDocs[d].comments = <<>>
    /\ \A e \in DOMAIN InitialCalendar :
          /\ InitialCalendar[e] \in CalendarEvent
          /\ InitialCalendar[e].start <= InitialCalendar[e].end
          /\ ~InitialCalendar[e].attended
    /\ \A t \in DOMAIN InitialTasks : "status" \in DOMAIN InitialTasks[t]

VARIABLES messages, threads, emails,  \* rows in the order of insertion
          docs, calendar, transcripts, tasks,
          seen,    \* the rows whose read_by holds the agent
          events   \* the lines of events.jsonl; `at` is not in the line

rowVars == <<messages, threads, emails>>
officeVars == <<rowVars, docs, calendar, transcripts, tasks, seen, events>>

\* World.snapshot, as far as it is graded.
World == [messages |-> messages, threads |-> threads, emails |-> emails,
          docs |-> docs, calendar |-> calendar, tasks |-> tasks]

\* A dictionary with one entry more, or another one.
Put(f, key, value) ==
    [k \in DOMAIN f \cup {key} |-> IF k = key THEN value ELSE f[k]]

\* The channel of a call that names none.
NoChannel == [is_dm |-> FALSE, is_private |-> FALSE, members |-> {}]

\* A tool call: the tool and the arguments it needs, the others left blank.
\* cost is what the length of a body makes it where it depends on one.
Blank == [tool |-> "", to |-> {}, mentions |-> {}, topics |-> {},
          channel |-> NoChannel, since |-> {}, limit |-> 0, thread |-> 0,
          subject |-> {}, doc |-> "", view |-> {}, edit |-> {}, event |-> "",
          start |-> 0, end |-> 0, task |-> "", status |-> "", answer |-> "",
          cost |-> 0]

\* What the argument models accept, with people looked up: minutes may be any
\* numbers, a direct message has one recipient and a chat names its channel.
WellFormed(c) ==
    /\ c.start \in Int /\ c.end \in Int /\ c.cost \in Nat /\ c.thread \in Nat
    /\ c.to \subseteq Person /\ c.mentions \subseteq Person
    /\ c.topics \subseteq Topic /\ c.subject \subseteq Topic
    /\ c.view \subseteq SUBSET Person /\ c.edit \subseteq SUBSET Person
    /\ c.tool \in {"chat.dm", "npc_send_dm"} => \E p \in Person : c.to = {p}
    /\ c.tool \in {"chat.send", "npc_send_chat"} => c.to = {}

\* costs.py; a call that names no known tool or does not validate costs the
\* registry's fallback.  Tools that advance the clock themselves declare 0.
DeclaredCost(c) ==
    CASE c.tool \in {"docs.create", "docs.edit"} -> c.cost
      [] c.tool \in {"chat.send", "tasks.log_work"} -> Max2(1, c.cost)
      [] c.tool = "email.send" -> Max2(3, c.cost)
      [] c.tool = "docs.read" -> 5
      [] c.tool \in {"email.read", "calendar.create", "docs.comment",
                     "abandon.current"} -> 2
      [] c.tool \in {"wait.until", "idle.until", "meetings.attend",
                     "chat.mark_read"} -> 0
      [] OTHER -> 1

-----------------------------------------------------------------------------
\* acl.py.
ChannelVisibleTo(ch, p) == ~ch.is_private \/ p \in ch.members
DocViewAllowed(d, p) == \A acl \in d.acl_view : p \in acl
DocEditAllowed(d, p) ==
    \A acl \in (IF d.acl_edit # {} THEN d.acl_edit ELSE d.acl_view) : p \in acl

\* _resolve_channel_id: a channel by its id, or the direct one with `to`.
ChannelOf(c, p) ==
    IF c.to = {} THEN c.channel
    ELSE DmChannel(p, CHOOSE q \in c.to : TRUE)

ChannelExists(ch) == ch \in Channels \/ \E m \in Rows(messages) : m.channel = ch

\* Rows by time, and rows of one minute by number.
Earlier(rows, i, j) ==
    rows[i].at < rows[j].at \/ (rows[i].at = rows[j].at /\ i < j)

\* The last n of the messages in S.
Newest(S, n) ==
    {i \in S : Cardinality({j \in S : Earlier(messages, i, j)}) < n}

\* messages_in_channel, then chat.read's window: strictly after `since`, then
\* the last `limit` of them; a limit of 0 cuts nothing (the slice [-0:]).
InChannel(ch) == {i \in DOMAIN messages : messages[i].channel = ch}
ReadWindow(c, p) ==
    LET all == {i \in InChannel(ChannelOf(c, p)) :
                   \A t \in c.since : messages[i].at > t}
    IN  IF c.limit = 0 THEN all ELSE Newest(all, c.limit)

EmailsIn(thread) == {i \in DOMAIN emails : emails[i].thread = thread}

\* What the handler checks before it does anything.
Accepts(p, c, now) ==
    LET ch == ChannelOf(c, p) IN
    \/ c.tool = "chat.dm" /\ p \notin c.to
    \/ c.tool = "chat.send" /\ ChannelExists(c.channel)
                            /\ ChannelVisibleTo(c.channel, p)
    \/ c.tool \in {"chat.read", "chat.mark_read"}
          /\ ChannelExists(ch) /\ ChannelVisibleTo(ch, p)
    \/ c.tool = "email.send" /\ c.thread \in 0 .. Len(threads)
    \/ c.tool = "email.read" /\ c.thread \in DOMAIN threads
                             /\ p \in threads[c.thread].participants
    \/ /\ c.tool \in {"docs.read", "docs.comment"}
       /\ c.doc \in DOMAIN docs /\ DocViewAllowed(docs[c.doc], p)
       /\ c.tool = "docs.read" => docs[c.doc].versions # <<>>
    \/ c.tool = "docs.create" /\ c.doc \notin DOMAIN docs
    \/ c.tool = "docs.edit" /\ c.doc \in DOMAIN docs
                            /\ DocEditAllowed(docs[c.doc], p)
    \/ c.tool = "calendar.create" /\ c.end > c.start
                                  /\ c.event \notin DOMAIN calendar
    \/ c.tool = "calendar.rsvp" /\ c.event \in DOMAIN calendar
    \/ c.tool = "meetings.attend"
          /\ c.event \in DOMAIN calendar
          /\ p \in calendar[c.event].attendees
          /\ now <= calendar[c.event].end
    \/ c.tool \in {"tasks.update_status", "tasks.comment", "tasks.log_work",
                   "tasks.get"} /\ c.task \in DOMAIN tasks
    \/ c.tool = "wait.until" /\ c.end >= now
    \/ c.tool \in {"idle.until", "abandon.current"}

-----------------------------------------------------------------------------
\* RunLogger.wire: the World's events become lines, in the order they are
\* emitted (those about notifications are left out, see Messaging).
Line(kind, payload, now) == [kind |-> kind, payload |-> payload, at |-> now]
Emits(lines) == events' = events \o lines

\* Slip: the message is stamped when its minutes are over.
PostsWhenPaid(p, c, now) ==
    /\ messages' = Append(messages,
          [channel |-> ChannelOf(c, p), from |-> p, mentions |-> c.mentions,
           topics |-> c.topics, at |-> now + DeclaredCost(c)])
    /\ Emits(<<Line("message_inserted", [row |-> Len(messages) + 1], now)>>)
    /\ UNCHANGED <<threads, emails, docs, calendar, tasks, seen>>

\* chat_send, chat_dm: World.add_message, in a direct channel that may have to
\* be made first.
Posts(p, c, now) ==
    /\ messages' = Append(messages,
          [channel |-> ChannelOf(c, p), from |-> p, mentions |-> c.mentions,
           topics |-> c.topics, at |-> now])
    /\ Emits((IF ChannelExists(ChannelOf(c, p)) THEN <<>>
              ELSE <<Line("channel_added", [row |-> 0], now)>>)
             \o <<Line("message_inserted", [row |-> Len(messages) + 1], now)>>)
    /\ UNCHANGED <<threads, emails, docs, calendar, tasks, seen>>

\* World.add_email: into a new thread among those who write and are written to
\* when none is named, else into the named one, whose participants grow by
\* `joining`.
Delivers(p, c, now, joining, scripted) ==
    LET thread == IF c.thread = 0 THEN Len(threads) + 1 ELSE c.thread
    IN  /\ threads' =
              IF c.thread = 0
              THEN Append(threads,
                          [subject |-> c.subject, participants |-> {p} \cup c.to])
              ELSE [threads EXCEPT ![thread].participants = @ \cup joining]
        /\ emails' = Append(emails,
              [thread |-> thread, from |-> p, to |-> c.to,
               topics |-> c.topics, at |-> now, scripted |-> scripted])
        /\ Emits((IF c.thread = 0
                  THEN <<Line("email_thread_created", [row |-> thread], now)>>
                  ELSE <<>>)
                 \o <<Line("email_inserted", [row |-> Len(emails) + 1], now)>>)
        /\ UNCHANGED <<messages, docs, calendar, tasks, seen>>

\* Slip: a thread keeps the participants it was opened with.
MailsToOldParticipants(p, c, now) == Delivers(p, c, now, {}, FALSE)

\* email_send: the caller and the addressees join the thread.
Mails(p, c, now) == Delivers(p, c, now, {p} \cup c.to, FALSE)

\* _make_email_sender: nobody joins a thread that is there.
ScriptMails(p, c, now) == Delivers(p, c, now, {}, TRUE)

\* chat_read, chat_mark_read and email_read set read_by; only the agent's
\* marks are ever looked at.
ReadsChat(p, c) ==
    /\ seen' = [seen EXCEPT !.chats = @ \cup
          (IF p # Agent THEN {}
           ELSE IF c.tool = "chat.read" THEN ReadWindow(c, p)
           ELSE InChannel(ChannelOf(c, p)))]
    /\ UNCHANGED <<rowVars, docs, calendar, tasks, events>>
ReadsEmail(p, c) ==
    /\ seen' = [seen EXCEPT !.emails = @ \cup
          (IF p = Agent THEN EmailsIn(c.thread) ELSE {})]
    /\ UNCHANGED <<rowVars, docs, calendar, tasks, events>>

\* docs_create, docs_edit, docs_comment.
NoteOf(p, c, now) == [author |-> p, topics |-> c.topics, at |-> now]
WritesDoc(p, c, now) ==
    /\ docs' =
          IF c.tool = "docs.create"
          THEN Put(docs, c.doc, [acl_view |-> c.view, acl_edit |-> c.edit,
                  versions |-> <<NoteOf(p, c, now)>>, comments |-> <<>>])
          ELSE IF c.tool = "docs.edit"
          THEN [docs EXCEPT ![c.doc].versions = Append(@, NoteOf(p, c, now))]
          ELSE [docs EXCEPT ![c.doc].comments = Append(@, NoteOf(p, c, now))]
    /\ LET line(kind) == Line(kind, [doc_id |-> c.doc], now)
       IN  Emits(CASE c.tool = "docs.create" ->
                        <<line("doc_created"), line("doc_edited")>>
                   [] c.tool = "docs.edit" -> <<line("doc_edited")>>
                   [] OTHER -> <<line("doc_commented")>>)
    /\ UNCHANGED <<rowVars, calendar, tasks, seen>>

\* calendar_create, calendar_rsvp: neither schedules or cancels a start event.
PlansEvent(p, c, now) ==
    /\ calendar' =
          IF c.tool = "calendar.create"
          THEN Put(calendar, c.event, [start |-> c.start, end |-> c.end,
                  attendees |-> c.to \cup {p}, attended |-> FALSE])
          ELSE [calendar EXCEPT ![c.event].attendees =
                  IF c.answer = "no" THEN @ \ {p} ELSE @ \cup {p}]
    /\ Emits(<<Line(IF c.tool = "calendar.create"
                    THEN "calendar_event_created" ELSE "calendar_rsvp",
                    [event_id |-> c.event], now)>>)
    /\ UNCHANGED <<rowVars, docs, tasks, seen>>

\* tasks_update_status, tasks_comment and tasks_log_work; which status a task
\* may take and what is left of its effort is TaskBoard's subject.
MovesTask(p, c, now) ==
    /\ c.tool = "tasks.update_status"
    /\ tasks' = [tasks EXCEPT ![c.task].status = c.status]
    /\ Emits(<<Line("task_status_changed",
                    [task_id |-> c.task, from |-> tasks[c.task].status,
                     to |-> c.status], now)>>)
    /\ UNCHANGED <<rowVars, docs, calendar, seen>>
CommentsTask(p, c, now) ==
    /\ c.tool = "tasks.comment"
    /\ tasks' = [tasks EXCEPT ![c.task].comments = @ \cup {NoteOf(p, c, now)}]
    /\ Emits(<<Line("task_commented", [task_id |-> c.task], now)>>)
    /\ UNCHANGED <<rowVars, docs, calendar, seen>>

LogsWork(c, now) ==
    /\ c.tool = "tasks.log_work"
    /\ Emits(<<Line("task_work_logged", [task_id |-> c.task], now)>>)
    /\ UNCHANGED <<rowVars, docs, calendar, tasks, seen>>

\* The handler of an accepted call at minute now.  meetings.attend is not
\* here: time passes inside its handler.
Handles(p, c, now) ==
    /\ Accepts(p, c, now)
    /\ UNCHANGED transcripts
    /\ \/ c.tool \in {"chat.send", "chat.dm"} /\ Posts(p, c, now)
       \/ c.tool = "email.send" /\ Mails(p, c, now)
       \/ c.tool \in {"chat.read", "chat.mark_read"} /\ ReadsChat(p, c)
       \/ c.tool = "email.read" /\ ReadsEmail(p, c)
       \/ c.tool \in {"docs.create", "docs.edit", "docs.comment"}
             /\ WritesDoc(p, c, now)
       \/ c.tool \in {"calendar.create", "calendar.rsvp"} /\ PlansEvent(p, c, now)
       \/ MovesTask(p, c, now) \/ CommentsTask(p, c, now) \/ LogsWork(c, now)
       \/ /\ c.tool \in {"docs.read", "tasks.get", "wait.until", "idle.until",
                         "abandon.current"}
          /\ UNCHANGED <<rowVars, docs, calendar, tasks, seen, events>>

\* A scripted sender of the scenario: no access check and no price.  A channel
\* or thread that does not exist raises out of the run.
Scripted(p, c, now) ==
    /\ UNCHANGED transcripts
    /\ \/ c.tool = "npc_send_dm" /\ Posts(p, c, now)
       \/ /\ c.tool = "npc_send_chat" /\ ChannelExists(c.channel)
          /\ Posts(p, c, now)
       \/ /\ c.tool = "npc_send_email" /\ c.thread \in 0 .. Len(threads)
          /\ ScriptMails(p, c, now)

\* Slip: a meeting attended again is held again.
MeetsAgain(id, s, now) ==
    /\ calendar' = [calendar EXCEPT ![id].attended = TRUE]
    /\ s \subseteq calendar[id].attendees \ {Agent}
    /\ transcripts' =
          Put(transcripts, id, [generated_at |-> now, speakers |-> s])
    /\ Emits(<<Line("meeting_transcript_added", [meeting_id |-> id], now)>>)
    /\ UNCHANGED <<rowVars, docs, tasks, seen>>

\* run_meeting: a transcript, once per event, of what the NPCs among the
\* attendees have to say; s are those who speak.
Meets(id, s, now) ==
    /\ calendar' = [calendar EXCEPT ![id].attended = TRUE]
    /\ IF id \in DOMAIN transcripts
       THEN UNCHANGED <<transcripts, events>>
       ELSE /\ s \subseteq calendar[id].attendees \ {Agent}
            /\ transcripts' =
                Put(transcripts, id, [generated_at |-> now, speakers |-> s])
            /\ Emits(<<Line("meeting_transcript_added",
                            [meeting_id |-> id], now)>>)
    /\ UNCHANGED <<rowVars, docs, tasks, seen>>

\* What a read returns: sender and topics of each row, and the subject.
Excerpt(rows) == {[from |-> r.from, topics |-> r.topics] : r \in rows}
Nothing == [rows |-> {}, subject |-> {}]
Result(p, c) ==
    CASE c.tool = "chat.read" ->
            [Nothing EXCEPT !.rows =
                Excerpt({messages[i] : i \in ReadWindow(c, p)})]
      [] c.tool = "email.read" ->
            [rows |-> Excerpt({emails[i] : i \in EmailsIn(c.thread)}),
             subject |-> threads[c.thread].subject]
      [] c.tool = "docs.read" ->
            LET v == Last(docs[c.doc].versions)
            IN  [Nothing EXCEPT !.rows =
                    {[from |-> v.author, topics |-> v.topics]}
                    \cup {[from |-> n.author, topics |-> n.topics] :
                            n \in Rows(docs[c.doc].comments)}]
      [] OTHER -> Nothing

\* load_scenario has seeded the World before RunLogger.wire subscribes to it, so
\* that no seeded row has a line.
OfficeInit ==
    /\ messages = InitialMessages /\ threads = InitialThreads
    /\ emails = InitialEmails
    /\ docs = InitialDocs /\ calendar = InitialCalendar /\ tasks = InitialTasks
    /\ transcripts = <<>>
    /\ seen = [chats |-> {}, emails |-> {}]
    /\ events = <<>>

OfficeTypeOK ==
    /\ messages \in Seq(Message) /\ emails \in Seq(Email)
    /\ threads \in Seq(Thread)
    /\ \A d \in DOMAIN docs : docs[d] \in Doc
    /\ \A e \in DOMAIN calendar : calendar[e] \in CalendarEvent
    /\ \A e \in DOMAIN transcripts : transcripts[e] \in Transcript
    /\ seen.chats \subseteq DOMAIN messages
    /\ seen.emails \subseteq DOMAIN emails
=============================================================================
