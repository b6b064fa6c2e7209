------------------------------ MODULE Messaging ------------------------------
(***************************************************************************)
(* How a message reaches people: chat.send, chat.dm, email.send,           *)
(* calendar.create and the scripted senders insert into the World, whose   *)
(* two subscribers - the notification dispatcher and the NPC runtime -     *)
(* write inbox rows and NPC triggers, and the tool registries hand the     *)
(* rows out with the results of later calls.                               *)
(***************************************************************************)
EXTENDS HopCap, Sequences, SequencesExt

CONSTANTS Channels,   \* channels.yaml: [is_dm, is_private, members] records
          Threads,    \* threads of the seed: a sequence of participant sets
          ChatCalls,  \* chat.send arguments: [channel, mentions] records
          DmCalls,    \* chat.dm arguments: recipients
          EmailCalls, \* email.send arguments: [to, thread], 0 = a new thread
          Actors,     \* senders of the scripted messages of events.yaml
          Bookings,   \* calendar.create arguments: [attendees, start]
          MaxTime,    \* bound: last minute
          MaxInserts, \* bound: messages, emails and bookings of a run
          MaxBundles  \* bound: successful calls of a run

Channel == [is_dm : BOOLEAN, is_private : BOOLEAN, members : SUBSET Person]

ASSUME ChannelsAssumption == Channels \subseteq Channel
ASSUME ActorsAssumption == Actors \subseteq Person
ASSUME ThreadsAssumption == Threads \in Seq(SUBSET Person)
ASSUME CallsAssumption ==
    /\ DmCalls \subseteq Person
    /\ ChatCalls \subseteq [channel : Channel, mentions : SUBSET Person]
    /\ EmailCalls \subseteq [to : SUBSET Person, thread : Nat]
    /\ Bookings \subseteq [attendees : SUBSET Person, start : Nat]
    /\ MaxTime \in Nat /\ MaxInserts \in Nat /\ MaxBundles \in Nat

VARIABLES sim_time,      \* Scheduler.sim_time
          high,          \* history: the latest minute the clock ever showed
          active,        \* dispatches in progress, innermost first
          channels,      \* World.channels
          threads,       \* participants of World.email_threads
          emails,        \* World.emails since the seed
          inserts,       \* number of messages, emails and events inserted
          notifications, \* World.notifications
          delivered,     \* ToolRegistry._delivered_ids of each person
          bundles,       \* history: ToolResult.notifications of each successful
                         \* call: to whom, when and after how many inserts
          accepted,      \* history: every trigger queued for an NPC
          dropped        \* NpcRuntime.dropped

vars == <<sim_time, high, active, channels, threads, emails, inserts,
          notifications, delivered, bundles, accepted, dropped, hops>>

worldVars == <<channels, threads, emails, inserts, notifications, accepted,
               dropped, hops>>

Max2(a, b) == IF a >= b THEN a ELSE b

Init ==
    /\ sim_time = 0 /\ high = 0
    /\ active = <<>>
    /\ channels = Channels
    /\ threads = Threads
    /\ emails = <<>>
    /\ inserts = 0
    /\ notifications = {}
    /\ delivered = [p \in Person |-> {}]
    /\ bundles = <<>>
    /\ accepted = [p \in Managed |-> {}]
    /\ dropped = {}
    /\ hops = [pair \in Pair |-> {}]

-----------------------------------------------------------------------------
\* The subscribers of an insert.

\* notifications.py, message_inserted: mentioned people, and in a DM the
\* other party.
NotifiedByChat(from, channel, mentions) ==
    (mentions \cup (IF channel.is_dm THEN channel.members ELSE {})) \ {from}

\* Slip: only mentions trigger an NPC.
TriggeredByMention(from, channel, mentions) ==
    {p \in (mentions \ {from}) \ {Agent} : p \in Managed}

\* runtime.py, message_inserted: the NPCs "who'd care".
TriggeredByChat(from, channel, mentions) ==
    LET others == IF channel.is_dm
                  THEN {m \in channel.members : m # from} ELSE {}
    IN  {p \in ((others \cup mentions) \ {from}) \ {Agent} : p \in Managed}

\* The same pair for email_inserted, `to` standing for to and cc together.
NotifiedByEmail(from, to) == to \ {from}
TriggeredByEmail(from, to) == {p \in (to \ {from}) \ {Agent} : p \in Managed}

\* add_notification for every recipient of the insert.
Notify(kind, recipients, created_at) ==
    notifications' = notifications \cup
        {[kind |-> kind, source |-> inserts + 1, recipient |-> r,
          created_at |-> created_at] : r \in recipients}

\* The NPC runtime queues a trigger or, over the cap, records a drop.
Trigger(from, candidates) ==
    LET let_through == {p \in candidates : MayHop(from, p, sim_time)}
        trigger == [source |-> inserts + 1, sender |-> from, at |-> sim_time]
    IN  /\ accepted' = [p \in Managed |->
                IF p \in let_through THEN accepted[p] \cup {trigger}
                ELSE accepted[p]]
        /\ dropped' = dropped \cup
                {[source |-> inserts + 1, recipient |-> p] :
                    p \in candidates \ let_through}
        /\ ReserveHops(from, candidates, trigger)

AddMessage(from, channel, mentions) ==
    /\ inserts < MaxInserts
    /\ inserts' = inserts + 1
    /\ Notify("chat_message", NotifiedByChat(from, channel, mentions), sim_time)
    /\ Trigger(from, TriggeredByChat(from, channel, mentions))

AddEmail(from, thread, to, scripted) ==
    /\ inserts < MaxInserts
    /\ inserts' = inserts + 1
    /\ emails' = Append(emails, [thread |-> thread, sender |-> from, to |-> to,
                                 scripted |-> scripted])
    /\ Notify("email", NotifiedByEmail(from, to), sim_time)
    /\ Trigger(from, TriggeredByEmail(from, to))

-----------------------------------------------------------------------------
\* Dispatches.  The agent calls when nothing else runs; an NPC from its poll
\* handler, inside whatever call is in progress, and never inside its own
\* (OnePollPerNpc of Simulation.tla).
Begin(p, fails) ==
    /\ p \in Managed \cup {Agent}
    /\ p = Agent => active = <<>>
    /\ \A i \in DOMAIN active : active[i].caller # p
    /\ active' = <<[caller |-> p, fails |-> fails, started |-> sim_time]>>
                 \o active

DmChannel(a, b) == [is_dm |-> TRUE, is_private |-> TRUE, members |-> {a, b}]

\* channel_visible_to, for a channel that exists.
VisibleTo(channel, p) == channel.is_private => p \in channel.members

\* chat_send, up to the registry's advance by the call's cost.
ChatSend(p, c) ==
    /\ c.channel \in channels
    /\ VisibleTo(c.channel, p)
    /\ Begin(p, FALSE)
    /\ AddMessage(p, c.channel, c.mentions)
    /\ UNCHANGED <<sim_time, high, channels, threads, emails, delivered, bundles>>

\* chat_dm: the channel is created on first use.
ChatDm(p, to) ==
    /\ to # p
    /\ Begin(p, FALSE)
    /\ channels' = channels \cup {DmChannel(p, to)}
    /\ AddMessage(p, DmChannel(p, to), {})
    /\ UNCHANGED <<sim_time, high, threads, emails, delivered, bundles>>

\* Slip: a reply leaves the participants of its thread alone.
EmailReplyOnly(p, c) ==
    /\ c.to # {}
    /\ c.thread \in 0 .. Len(threads)
    /\ Begin(p, FALSE)
    /\ IF c.thread = 0
       THEN /\ threads' = Append(threads, c.to \cup {p})
            /\ AddEmail(p, Len(threads) + 1, c.to, FALSE)
       ELSE /\ UNCHANGED threads
            /\ AddEmail(p, c.thread, c.to, FALSE)
    /\ UNCHANGED <<sim_time, high, channels, delivered, bundles>>

\* email_send: a new thread, or a reply that makes caller and recipients
\* participants of its thread.
EmailSend(p, c) ==
    /\ c.to # {}
    /\ c.thread \in 0 .. Len(threads)
    /\ Begin(p, FALSE)
    /\ IF c.thread = 0
       THEN /\ threads' = Append(threads, c.to \cup {p})
            /\ AddEmail(p, Len(threads) + 1, c.to, FALSE)
       ELSE /\ threads' = [threads EXCEPT ![c.thread] = @ \cup c.to \cup {p}]
            /\ AddEmail(p, c.thread, c.to, FALSE)
    /\ UNCHANGED <<sim_time, high, channels, delivered, bundles>>

\* Slip: the row is dated a reminder's lead before the start.
CalendarCreateReminding(p, c) ==
    /\ Begin(p, FALSE)
    /\ inserts < MaxInserts
    /\ inserts' = inserts + 1
    /\ Notify("calendar_event", c.attendees \cup {p}, c.start - 15)
    /\ UNCHANGED <<sim_time, high, channels, threads, emails, delivered,
                   bundles, accepted, dropped, hops>>

\* calendar_create: every attendee, the organizer included, is notified as
\* of the start of the event.
CalendarCreate(p, c) ==
    /\ Begin(p, FALSE)
    /\ inserts < MaxInserts
    /\ inserts' = inserts + 1
    /\ Notify("calendar_event", c.attendees \cup {p}, c.start)
    /\ UNCHANGED <<sim_time, high, channels, threads, emails, delivered,
                   bundles, accepted, dropped, hops>>

\* _failure: an unknown tool, arguments that do not validate or a call its
\* handler refuses.  It costs time all the same.
CallFails(p) ==
    /\ Begin(p, TRUE)
    /\ UNCHANGED <<sim_time, high, worldVars, delivered, bundles>>

\* Slip: a cursor instead of the delivered ids: the rows of the caller's last
\* minute and later.
DueSinceCursor(p) ==
    LET mine == {i \in DOMAIN bundles : bundles[i].to = p}
    IN  {n \in notifications :
            /\ n.recipient = p
            /\ n.created_at <= sim_time
            /\ \A i \in mine : n.created_at >= bundles[i].at}

\* _collect_notifications: the caller's rows that are due and undelivered.
DueRows(p) ==
    {n \in notifications : /\ n.recipient = p
                           /\ n \notin delivered[p]
                           /\ n.created_at <= sim_time}

\* Slip: a failed call collects too, and its result has no room for rows.
CallReturnsCollecting ==
    LET p == Head(active).caller
    IN  /\ active # <<>>
        /\ active' = Tail(active)
        /\ Len(bundles) < MaxBundles
        /\ bundles' = IF Head(active).fails THEN bundles
                      ELSE Append(bundles, [to |-> p, at |-> sim_time,
                                after |-> inserts, items |-> DueRows(p)])
        /\ delivered' = [delivered EXCEPT ![p] = @ \cup DueRows(p)]
        /\ UNCHANGED <<sim_time, high, worldVars>>

\* The advance has returned into the innermost dispatch: a successful call's
\* result carries the rows, a failed one's does not.
CallReturns ==
    LET p == Head(active).caller
    IN  /\ active # <<>>
        /\ active' = Tail(active)
        /\ IF Head(active).fails
           THEN UNCHANGED <<delivered, bundles>>
           ELSE /\ Len(bundles) < MaxBundles
                /\ bundles' = Append(bundles, [to |-> p, at |-> sim_time,
                                after |-> inserts, items |-> DueRows(p)])
                /\ delivered' = [delivered EXCEPT ![p] = @ \cup DueRows(p)]
        /\ UNCHANGED <<sim_time, high, worldVars>>

-----------------------------------------------------------------------------
\* Scripted senders (events.yaml): no access check and no dispatch.
ScriptedChat(actor, c) ==
    /\ c.channel \in channels
    /\ AddMessage(actor, c.channel, c.mentions)
    /\ UNCHANGED <<sim_time, high, active, channels, threads, emails,
                   delivered, bundles>>

ScriptedDm(actor, to) ==
    /\ to # actor
    /\ channels' = channels \cup {DmChannel(actor, to)}
    /\ AddMessage(actor, DmChannel(actor, to), {})
    /\ UNCHANGED <<sim_time, high, active, threads, emails, delivered, bundles>>

\* Unlike email_send, an existing thread keeps its participants.
ScriptedEmail(actor, c) ==
    /\ c.thread \in 0 .. Len(threads)
    /\ IF c.thread = 0
       THEN /\ threads' = Append(threads, c.to \cup {actor})
            /\ AddEmail(actor, Len(threads) + 1, c.to, TRUE)
       ELSE /\ UNCHANGED threads
            /\ AddEmail(actor, c.thread, c.to, TRUE)
    /\ UNCHANGED <<sim_time, high, active, channels, delivered, bundles>>

\* The scheduler moves the clock, in both directions (ClockNeverGoesBack of
\* Simulation.tla) but never below the start of a dispatch in progress.
ClockMoves(t) ==
    /\ active # <<>> => t >= Head(active).started
    /\ sim_time' = t
    /\ high' = Max2(high, t)
    /\ UNCHANGED <<active, worldVars, delivered, bundles>>

Next ==
    \/ \E p \in Person, c \in ChatCalls : ChatSend(p, c)
    \/ \E p \in Person, to \in DmCalls : ChatDm(p, to)
    \/ \E p \in Person, c \in EmailCalls : EmailSend(p, c)
    \/ \E p \in Person, c \in Bookings : CalendarCreate(p, c)
    \/ \E p \in Person : CallFails(p)
    \/ CallReturns
    \/ \E a \in Actors, c \in ChatCalls : ScriptedChat(a, c)
    \/ \E a \in Actors, to \in DmCalls : ScriptedDm(a, to)
    \/ \E a \in Actors, c \in EmailCalls : ScriptedEmail(a, c)
    \/ \E t \in 0 .. MaxTime : ClockMoves(t)

Spec == Init /\ [][Next]_vars

-----------------------------------------------------------------------------
\* Types.
Kind == {"chat_message", "email", "calendar_event"}
Row == [kind : Kind, source : Nat, recipient : Person, created_at : Nat]
TriggerRecord == [source : Nat, sender : Person, at : Nat]

TypeOK ==
    /\ {sim_time, high, inserts} \subseteq Nat
    /\ active \in Seq([caller : Managed \cup {Agent}, fails : BOOLEAN,
                       started : Nat])
    /\ channels \subseteq Channel
    /\ threads \in Seq(SUBSET Person)
    /\ emails \in Seq([thread : Nat, sender : Person, to : SUBSET Person,
                       scripted : BOOLEAN])
    /\ notifications \subseteq Row
    /\ delivered \in [Person -> SUBSET Row]
    /\ bundles \in Seq([to : Managed \cup {Agent}, at : Nat, after : Nat,
                        items : SUBSET Row])
    /\ accepted \in [Managed -> SUBSET TriggerRecord]
    /\ dropped \subseteq [source : Nat, recipient : Managed]
    /\ hops \in [Pair -> SUBSET TriggerRecord]

-----------------------------------------------------------------------------
\* However the clock moves, at most Cap triggers of one sender to one NPC lie
\* in the window before the latest minute the clock ever showed: pruning in
\* a nested advance never forgets a hop that still counts (runtime.py:212-229).
HopBound ==
    \A from \in Person \ {Agent}, p \in Managed :
        Cardinality({t \in accepted[p] : /\ t.sender = from
                                         /\ t.at >= high - Window}) <= Cap

\* The two subscribers work out the recipients of an insert on their own and
\* agree: an NPC has a trigger or a recorded drop, and not both, for exactly
\* the messages and emails in its inbox (notifications.py:30-83,
\* runtime.py:141-206).
SubscribersAgree ==
    \A p \in Managed :
        LET inbox == {n.source : n \in {r \in notifications :
                            r.recipient = p /\ r.kind # "calendar_event"}}
            triggered == {t.source : t \in accepted[p]}
            lost == {d.source : d \in {e \in dropped : e.recipient = p}}
        IN  inbox = triggered \cup lost /\ triggered \cap lost = {}

\* No row is handed to its recipient twice, although a row is never removed
\* and the clock may return to its minute (registry.py:195-209).
EachRowOnce ==
    \A i, j \in DOMAIN bundles :
        i # j => bundles[i].items \cap bundles[j].items = {}

\* Whoever completes a call has by then been handed every row of theirs that
\* was inserted and due: none falls between two bundles, is lost with a
\* failed call or skipped by a clock that went back (registry.py:173-209).
NoRowMissed ==
    \A i \in DOMAIN bundles : \A n \in notifications :
        /\ n.recipient = bundles[i].to
        /\ n.source <= bundles[i].after
        /\ n.created_at <= bundles[i].at
        => \E j \in 1 .. i : n \in bundles[j].items

\* Everybody a tool-sent email went to may read its thread, whoever replies to
\* it and with whatever recipients (email.py:49-65 and 121-126).
RecipientsCanRead ==
    \A i \in DOMAIN emails :
        ~emails[i].scripted =>
            emails[i].to \cup {emails[i].sender} \subseteq threads[emails[i].thread]
=============================================================================
