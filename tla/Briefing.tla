------------------------------- MODULE Briefing -------------------------------
(***************************************************************************)
(* What the agent is told before it decides (src/sim/agent/briefing.py):   *)
(* BriefingAssembler.build, which the driver calls, and the parts of       *)
(* build_delta_briefing that differ, which nothing calls yet.              *)
(***************************************************************************)
EXTENDS Office

\* The messages of a channel the agent may look into, and which of them it
\* has neither written nor read; the last ten are quoted.
Listable(ch) == Agent \in ch.members \/ ~ch.is_private
Unread(ch) ==
    {i \in InChannel(ch) : i \notin seen.chats /\ messages[i].from # Agent}
Quoted(S) == Newest(S, 10)

UsedChannels == {m.channel : m \in Rows(messages)}
UnreadChats ==
    {[channel |-> ch, count |-> Cardinality(Unread(ch)),
      quoted |-> Quoted(Unread(ch))] :
        ch \in {ch \in UsedChannels : Listable(ch) /\ Unread(ch) # {}}}

\* The newest of the emails in S of each of their threads; of one minute the
\* one with the lowest id.
NewestPerThread(S) ==
    {i \in S : \A j \in S \ {i} : emails[j].thread = emails[i].thread =>
        \/ emails[j].at < emails[i].at
        \/ emails[j].at = emails[i].at /\ i < j}
UnreadEmails ==
    NewestPerThread({i \in DOMAIN emails :
        ReachesByEmail(emails[i], Agent) /\ i \notin seen.emails})

\* Tasks of the agent's, and conversations whose last word is not the agent's:
\* any direct channel, be the agent in it or not, and mentions elsewhere.
LastIn(ch) ==
    messages[CHOOSE i \in InChannel(ch) :
                \A j \in InChannel(ch) : ~Earlier(messages, i, j)]
TasksOwned == {t \in DOMAIN tasks :
                  tasks[t].assignee = Agent /\ tasks[t].status # "Done"}
AwaitingReply ==
    {ch \in UsedChannels :
        /\ ch.is_dm \/ Agent \in ch.members
        /\ LastIn(ch).from # Agent
        /\ ch.is_dm \/ Agent \in LastIn(ch).mentions}

UpcomingCalendar(now) ==
    {id \in DOMAIN calendar :
        /\ Agent \in calendar[id].attendees
        /\ now <= calendar[id].start /\ calendar[id].start <= now + 240}

-----------------------------------------------------------------------------
\* What came after minute `since`, whether it has been read or not.
New(ch, since) ==
    {i \in InChannel(ch) : messages[i].at > since /\ messages[i].from # Agent}
DeltaChats(since) ==
    {[channel |-> ch, count |-> Cardinality(New(ch, since)),
      quoted |-> Quoted(New(ch, since))] :
        ch \in {ch \in UsedChannels :
                   ChannelVisibleTo(ch, Agent) /\ New(ch, since) # {}}}
DeltaEmails(since) ==
    NewestPerThread({i \in DOMAIN emails :
        ReachesByEmail(emails[i], Agent) /\ emails[i].at > since})
=============================================================================
