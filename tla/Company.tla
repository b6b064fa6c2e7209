------------------------------- MODULE Company -------------------------------
(***************************************************************************)
(* The records the World keeps (src/sim/store/entities.py) as far as the   *)
(* tools, the briefing and the evaluator tell them apart.  A body is the   *)
(* set of topics a keyword search would find in it; a thread's subject     *)
(* likewise.                                                               *)
(***************************************************************************)
EXTENDS Integers, Sequences, FiniteSets, SequencesExt, FiniteSetsExt

CONSTANTS Person,  \* ids of personas
          Agent,   \* the persona with is_agent
          Topic    \* keywords and task ids that occur in bodies and subjects

ASSUME AgentAssumption == Agent \in Person

Channel == [is_dm : BOOLEAN, is_private : BOOLEAN, members : SUBSET Person]

Message == [channel : Channel, from : Person, mentions : SUBSET Person,
            topics : SUBSET Topic, at : Nat]

\* `to` stands for to and cc together; thread is an index of the threads.  The
\* id tells whether a scripted sender inserted it.
Email == [thread : Nat, from : Person, to : SUBSET Person,
          topics : SUBSET Topic, at : Nat, scripted : BOOLEAN]

Thread == [subject : SUBSET Topic, participants : SUBSET Person]

\* A version or a comment of a document.
Note == [author : Person, topics : SUBSET Topic, at : Nat]

\* An access list is optional: {} when absent, {list} when given.
Doc == [acl_view : SUBSET SUBSET Person, acl_edit : SUBSET SUBSET Person,
        versions : Seq(Note), comments : Seq(Note)]

CalendarEvent == [start : Int, end : Int, attendees : SUBSET Person,
                  attended : BOOLEAN]

Transcript == [generated_at : Nat, speakers : SUBSET Person]

Max2(a, b) == IF a >= b THEN a ELSE b
Min2(a, b) == IF a <= b THEN a ELSE b

\* The values of a finite sequence.
Rows(s) == {s[i] : i \in DOMAIN s}

DmChannel(a, b) == [is_dm |-> TRUE, is_private |-> TRUE, members |-> {a, b}]

\* A chat in the direct channel of p, or one that names p.
InDmOf(m, p) == m.channel.is_dm /\ p \in m.channel.members
ReachesByChat(m, p) == InDmOf(m, p) \/ p \in m.mentions

\* An email to or cc p.
ReachesByEmail(e, p) == p \in e.to

\* Keyword search: any of the wanted topics, and no wish is always met.
Mentions(topics, wanted) == topics \cap wanted # {}
MentionsIfWanted(topics, wanted) == wanted = {} \/ Mentions(topics, wanted)
=============================================================================
