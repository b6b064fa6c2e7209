-------------------------- MODULE Messaging_proofs --------------------------
(***************************************************************************)
(* Proofs about messaging, for any people, channels, threads, calls, hop   *)
(* cap and window, and for a clock that moves in both directions.          *)
(***************************************************************************)
EXTENDS Messaging, FiniteSetTheorems, SequenceTheorems, TLAPS

-----------------------------------------------------------------------------
(* Type correctness.                                                       *)

\* What a dispatch does to the stack keeps it a stack.
LEMMA BeginType ==
    ASSUME TypeOK, NEW p \in Person, NEW fails \in BOOLEAN, Begin(p, fails)
    PROVE  active' \in Seq([caller : Managed \cup {Agent}, fails : BOOLEAN,
                            started : Nat])
  <1> DEFINE Frame == [caller : Managed \cup {Agent}, fails : BOOLEAN, started : Nat]
             f == [caller |-> p, fails |-> fails, started |-> sim_time]
  <1>1. f \in Frame /\ active \in Seq(Frame) /\ active' = <<f>> \o active
    BY DEF TypeOK, Begin
  <1> HIDE DEF f, Frame
  <1>2. <<f>> \in Seq(Frame)
    BY <1>1
  <1> QED
    BY <1>1, <1>2, ConcatProperties DEF Frame

\* The innermost dispatch, and the stack without it.
LEMMA ActiveHead ==
    ASSUME TypeOK, active # <<>>
    PROVE  /\ Head(active) \in [caller : Managed \cup {Agent}, fails : BOOLEAN,
                               started : Nat]
           /\ Head(active).caller \in Managed \cup {Agent}
           /\ Tail(active) \in Seq([caller : Managed \cup {Agent},
                                    fails : BOOLEAN, started : Nat])
  <1> DEFINE Frame == [caller : Managed \cup {Agent}, fails : BOOLEAN, started : Nat]
  <1>1. active \in Seq(Frame)
    BY DEF TypeOK
  <1>2. Head(active) \in Frame /\ Tail(active) \in Seq(Frame)
    <2> HIDE DEF Frame
    <2> QED
      BY <1>1, HeadTailProperties
  <1> QED
    BY <1>2

\* The subscribers write rows, triggers, drops and hops of the right types.
LEMMA NotifyType ==
    ASSUME TypeOK, NEW kind \in Kind, NEW recipients \in SUBSET Person,
           NEW at \in Nat, Notify(kind, recipients, at)
    PROVE  notifications' \subseteq Row
  BY DEF TypeOK, Notify, Row

\* Queueing triggers and reserving hops keeps both of the right types.
LEMMA TriggerType ==
    ASSUME TypeOK, NEW from \in Person, NEW candidates \in SUBSET Managed,
           Trigger(from, candidates)
    PROVE  /\ accepted' \in [Managed -> SUBSET TriggerRecord]
           /\ dropped' \subseteq [source : Nat, recipient : Managed]
           /\ hops' \in [Pair -> SUBSET TriggerRecord]
  <1> DEFINE t == [source |-> inserts + 1, sender |-> from, at |-> sim_time]
  <1>1. t \in TriggerRecord
    BY DEF TypeOK, TriggerRecord
  <1>2. accepted' \in [Managed -> SUBSET TriggerRecord]
    BY <1>1 DEF TypeOK, Trigger
  <1>3. dropped' \subseteq [source : Nat, recipient : Managed]
    BY DEF TypeOK, Trigger
  <1>4. \A pair \in Pair, now \in Nat : Recent(pair, now) \subseteq TriggerRecord
    BY DEF TypeOK, Recent
  <1>5. hops' \in [Pair -> SUBSET TriggerRecord]
    BY <1>1, <1>4 DEF TypeOK, Trigger, ReserveHops
  <1> QED
    BY <1>2, <1>3, <1>5

\* The recipients the subscribers work out.
LEMMA ChatRecipients ==
    ASSUME NEW from \in Person, NEW channel \in Channel,
           NEW mentions \in SUBSET Person
    PROVE  /\ NotifiedByChat(from, channel, mentions) \in SUBSET Person
           /\ TriggeredByChat(from, channel, mentions)
                = NotifiedByChat(from, channel, mentions) \cap Managed
  BY PeopleAssumption DEF Channel, NotifiedByChat, TriggeredByChat

\* The two subscribers of an email work out the same NPCs.
LEMMA EmailRecipients ==
    ASSUME NEW from \in Person, NEW to \in SUBSET Person
    PROVE  /\ NotifiedByEmail(from, to) \in SUBSET Person
           /\ TriggeredByEmail(from, to) = NotifiedByEmail(from, to) \cap Managed
  BY PeopleAssumption DEF NotifiedByEmail, TriggeredByEmail

\* The channel of two people is a channel.
LEMMA DmChannelType ==
    ASSUME NEW a \in Person, NEW b \in Person
    PROVE  DmChannel(a, b) \in Channel
  BY DEF DmChannel, Channel

\* What every insert does, seen from the proofs below: rows for the
\* `notified`, and triggers or drops for the NPCs among them.
Inserted(kind, from, notified, at) ==
    /\ inserts' = inserts + 1
    /\ Notify(kind, notified, at)
    /\ Trigger(from, notified \cap Managed)

Booked(c, p) ==
    /\ inserts' = inserts + 1
    /\ Notify("calendar_event", c.attendees \cup {p}, c.start)
    /\ UNCHANGED <<accepted, dropped, hops>>

\* A chat message is an insert for the people it notifies.
LEMMA MessageInserts ==
    ASSUME TypeOK, NEW from \in Person, NEW channel \in Channel,
           NEW mentions \in SUBSET Person, AddMessage(from, channel, mentions)
    PROVE  \E notified \in SUBSET Person :
              Inserted("chat_message", from, notified, sim_time)
  <1> DEFINE notified == NotifiedByChat(from, channel, mentions)
  <1>1. /\ notified \in SUBSET Person
        /\ TriggeredByChat(from, channel, mentions) = notified \cap Managed
    BY ChatRecipients
  <1>2. Inserted("chat_message", from, notified, sim_time)
    BY <1>1 DEF AddMessage, Inserted
  <1> QED
    BY <1>1, <1>2

\* An email is an insert for the people it notifies.
LEMMA EmailInserts ==
    ASSUME TypeOK, NEW from \in Person, NEW thread, NEW to \in SUBSET Person,
           NEW scripted, AddEmail(from, thread, to, scripted)
    PROVE  \E notified \in SUBSET Person :
              Inserted("email", from, notified, sim_time)
  <1> DEFINE notified == NotifiedByEmail(from, to)
  <1>1. /\ notified \in SUBSET Person
        /\ TriggeredByEmail(from, to) = notified \cap Managed
    BY EmailRecipients
  <1>2. Inserted("email", from, notified, sim_time)
    BY <1>1 DEF AddEmail, Inserted
  <1> QED
    BY <1>1, <1>2

\* Every step, as far as rows, triggers, hops and bundles go: an insert with
\* its subscribers, a booking, a call that returns, a clock that moves, or
\* nothing.
Quiet == UNCHANGED <<sim_time, high, delivered, bundles>>

Effects ==
    \/ /\ \E kind \in {"chat_message", "email"}, from \in Person,
             notified \in SUBSET Person : Inserted(kind, from, notified, sim_time)
       /\ Quiet
    \/ /\ \E p \in Person, c \in Bookings : Booked(c, p)
       /\ Quiet
    \/ CallReturns
    \/ \E t \in Nat : ClockMoves(t)
    \/ /\ UNCHANGED <<inserts, notifications, accepted, dropped, hops>>
       /\ Quiet

\* Every step is one of these.
LEMMA StepEffects == TypeOK /\ [Next]_vars => Effects
  <1> SUFFICES ASSUME TypeOK, [Next]_vars PROVE Effects
    OBVIOUS
  <1> USE DEF Effects
  <1>1. ASSUME NEW p \in Person, NEW c \in ChatCalls,
               ChatSend(p, c) \/ ScriptedChat(p, c)
        PROVE  Effects
    <2>1. c.channel \in Channel /\ c.mentions \in SUBSET Person
      BY CallsAssumption
    <2>2. AddMessage(p, c.channel, c.mentions) /\ Quiet
      BY <1>1 DEF ChatSend, ScriptedChat, Quiet
    <2>3. \E n \in SUBSET Person : Inserted("chat_message", p, n, sim_time)
      BY <2>1, <2>2, MessageInserts
    <2> QED
      BY <2>2, <2>3
  <1>2. ASSUME NEW p \in Person, NEW to \in DmCalls,
               ChatDm(p, to) \/ ScriptedDm(p, to)
        PROVE  Effects
    <2>1. DmChannel(p, to) \in Channel /\ {} \in SUBSET Person
      BY CallsAssumption, DmChannelType
    <2>2. AddMessage(p, DmChannel(p, to), {}) /\ Quiet
      BY <1>2 DEF ChatDm, ScriptedDm, Quiet
    <2>3. \E n \in SUBSET Person : Inserted("chat_message", p, n, sim_time)
      BY <2>1, <2>2, MessageInserts
    <2> QED
      BY <2>2, <2>3
  <1>3. ASSUME NEW p \in Person, NEW c \in EmailCalls,
               EmailSend(p, c) \/ ScriptedEmail(p, c)
        PROVE  Effects
    <2>1. c.to \in SUBSET Person
      BY CallsAssumption
    <2>2. /\ \E thread, scripted : AddEmail(p, thread, c.to, scripted)
          /\ Quiet
      BY <1>3 DEF EmailSend, ScriptedEmail, Quiet
    <2>3. \E n \in SUBSET Person : Inserted("email", p, n, sim_time)
      BY <2>1, <2>2, EmailInserts
    <2> QED
      BY <2>2, <2>3
  <1>4. ASSUME NEW p \in Person, NEW c \in Bookings, CalendarCreate(p, c)
        PROVE  Effects
    BY <1>4 DEF CalendarCreate, Booked, Quiet
  <1>5. ASSUME NEW p \in Person, CallFails(p) PROVE Effects
    BY <1>5 DEF CallFails, worldVars, Quiet
  <1>6. ASSUME NEW t \in 0 .. MaxTime, ClockMoves(t) PROVE Effects
    BY <1>6
  <1>7. CASE UNCHANGED vars
    BY <1>7 DEF vars, Quiet
  <1> QED
    BY <1>1, <1>2, <1>3, <1>4, <1>5, <1>6, <1>7, ActorsAssumption DEF Next

-----------------------------------------------------------------------------
(* Type correctness, continued.                                            *)

\* An insert leaves rows, triggers, drops and hops of the right types.
LEMMA InsertedType ==
    ASSUME TypeOK, NEW kind \in {"chat_message", "email"}, NEW from \in Person,
           NEW notified \in SUBSET Person, Inserted(kind, from, notified, sim_time)
    PROVE  /\ inserts' \in Nat /\ notifications' \subseteq Row
           /\ accepted' \in [Managed -> SUBSET TriggerRecord]
           /\ dropped' \subseteq [source : Nat, recipient : Managed]
           /\ hops' \in [Pair -> SUBSET TriggerRecord]
  <1>1. sim_time \in Nat /\ kind \in Kind /\ notified \cap Managed \in SUBSET Managed
    BY DEF TypeOK, Kind
  <1>2. inserts' \in Nat
    BY DEF TypeOK, Inserted
  <1>3. notifications' \subseteq Row
    BY <1>1, NotifyType DEF Inserted
  <1> QED
    BY <1>1, <1>2, <1>3, TriggerType DEF Inserted

\* So does every step.
LEMMA EffectsType ==
    TypeOK /\ Effects =>
        /\ {sim_time', high', inserts'} \subseteq Nat
        /\ notifications' \subseteq Row
        /\ delivered' \in [Person -> SUBSET Row]
        /\ bundles' \in Seq([to : Managed \cup {Agent}, at : Nat, after : Nat,
                             items : SUBSET Row])
        /\ accepted' \in [Managed -> SUBSET TriggerRecord]
        /\ dropped' \subseteq [source : Nat, recipient : Managed]
        /\ hops' \in [Pair -> SUBSET TriggerRecord]
  <1> DEFINE Goal ==
        /\ {sim_time', high', inserts'} \subseteq Nat
        /\ notifications' \subseteq Row
        /\ delivered' \in [Person -> SUBSET Row]
        /\ bundles' \in Seq([to : Managed \cup {Agent}, at : Nat, after : Nat,
                             items : SUBSET Row])
        /\ accepted' \in [Managed -> SUBSET TriggerRecord]
        /\ dropped' \subseteq [source : Nat, recipient : Managed]
        /\ hops' \in [Pair -> SUBSET TriggerRecord]
  <1> SUFFICES ASSUME TypeOK, Effects PROVE Goal
    OBVIOUS
  <1>1. CASE /\ \E kind \in {"chat_message", "email"}, from \in Person,
                  notified \in SUBSET Person :
                    Inserted(kind, from, notified, sim_time)
             /\ Quiet
    BY <1>1, InsertedType DEF TypeOK, Quiet
  <1>2. ASSUME NEW p \in Person, NEW c \in Bookings, Booked(c, p), Quiet
        PROVE  Goal
    <2>1. c.attendees \cup {p} \in SUBSET Person /\ c.start \in Nat
      BY CallsAssumption
    <2>2. notifications' \subseteq Row
      BY <1>2, <2>1, NotifyType DEF Booked, Kind
    <2> QED
      BY <1>2, <2>2 DEF Booked, Quiet, TypeOK
  <1>3. CASE CallReturns
    <2> DEFINE p == Head(active).caller
               bundle == [to |-> p, at |-> sim_time, after |-> inserts,
                          items |-> DueRows(p)]
    <2>1. active # <<>> /\ Head(active).caller \in Managed \cup {Agent}
      BY <1>3, ActiveHead DEF CallReturns
    <2>2. p \in Person /\ DueRows(p) \in SUBSET Row
      BY <2>1, PeopleAssumption DEF DueRows, TypeOK
    <2>3. bundle \in [to : Managed \cup {Agent}, at : Nat, after : Nat,
                      items : SUBSET Row]
      BY <2>1, <2>2 DEF TypeOK
    <2>4. bundles' = bundles \/ bundles' = Append(bundles, bundle)
      BY <1>3 DEF CallReturns
    <2> DEFINE Bundle == [to : Managed \cup {Agent}, at : Nat, after : Nat,
                          items : SUBSET Row]
    <2>5. bundles' \in Seq(Bundle)
      <3>1. bundles \in Seq(Bundle) /\ bundle \in Bundle
        BY <2>3 DEF TypeOK
      <3> HIDE DEF bundle, Bundle
      <3> QED
        BY <3>1, <2>4, AppendProperties
    <2>6. delivered' \in [Person -> SUBSET Row]
      BY <1>3, <2>2 DEF CallReturns, TypeOK
    <2> QED
      BY <1>3, <2>5, <2>6 DEF CallReturns, worldVars, TypeOK
  <1>4. ASSUME NEW t \in Nat, ClockMoves(t) PROVE Goal
    BY <1>4 DEF ClockMoves, worldVars, Max2, TypeOK
  <1>5. CASE /\ UNCHANGED <<inserts, notifications, accepted, dropped, hops>>
             /\ Quiet
    BY <1>5 DEF Quiet, TypeOK
  <1> QED
    BY <1>1, <1>2, <1>3, <1>4, <1>5 DEF Effects

\* An element appended to a sequence.
LEMMA Appended ==
    ASSUME NEW S, NEW s \in Seq(S), NEW e \in S
    PROVE  /\ Append(s, e) \in Seq(S)
           /\ Len(s) \in Nat /\ Len(Append(s, e)) = Len(s) + 1
           /\ DOMAIN s = 1 .. Len(s)
           /\ DOMAIN Append(s, e) = 1 .. Len(s) + 1
           /\ \A i \in 1 .. Len(s) : Append(s, e)[i] = s[i]
           /\ Append(s, e)[Len(s) + 1] = e
  BY AppendProperties, LenProperties

-----------------------------------------------------------------------------
(* Email threads: every tool-sent email's people are in its thread.        *)

ThreadsOK ==
    \A i \in DOMAIN emails :
        /\ emails[i].thread \in DOMAIN threads
        /\ ~emails[i].scripted =>
              emails[i].to \cup {emails[i].sender} \subseteq threads[emails[i].thread]

Mailbox == [thread : Nat, sender : Person, to : SUBSET Person, scripted : BOOLEAN]

\* An email joins the list, in a thread that exists and that, if a tool sent
\* it, has its people; no thread loses anybody.
LEMMA EmailJoins ==
    ASSUME TypeOK, ThreadsOK, NEW from \in Person, NEW to \in SUBSET Person,
           NEW scripted \in BOOLEAN, NEW thread \in Nat,
           AddEmail(from, thread, to, scripted),
           DOMAIN threads \subseteq DOMAIN threads',
           \A k \in DOMAIN threads : threads[k] \subseteq threads'[k],
           thread \in DOMAIN threads',
           ~scripted => to \cup {from} \subseteq threads'[thread]
    PROVE  emails' \in Seq(Mailbox) /\ ThreadsOK'
  <1> DEFINE e == [thread |-> thread, sender |-> from, to |-> to, scripted |-> scripted]
  <1>1. e \in Mailbox /\ emails \in Seq(Mailbox) /\ emails' = Append(emails, e)
    BY DEF Mailbox, TypeOK, AddEmail
  <1>2. e.thread = thread /\ e.to = to /\ e.sender = from /\ e.scripted = scripted
    OBVIOUS
  <1> HIDE DEF e
  <1>3. /\ emails' \in Seq(Mailbox)
        /\ DOMAIN emails = 1 .. Len(emails) /\ Len(emails) \in Nat
        /\ DOMAIN emails' = 1 .. Len(emails) + 1
        /\ \A i \in 1 .. Len(emails) : emails'[i] = emails[i]
        /\ emails'[Len(emails) + 1] = e
    BY <1>1, Appended
  <1>4. ASSUME NEW i \in DOMAIN emails'
        PROVE  /\ emails'[i].thread \in DOMAIN threads'
               /\ ~emails'[i].scripted =>
                    emails'[i].to \cup {emails'[i].sender}
                        \subseteq threads'[emails'[i].thread]
    <2>1. CASE i \in DOMAIN emails
      BY <2>1, <1>3 DEF ThreadsOK
    <2>2. CASE i = Len(emails) + 1
      BY <2>2, <1>2, <1>3
    <2> QED
      BY <2>1, <2>2, <1>3
  <1> QED
    BY <1>3, <1>4 DEF ThreadsOK

\* A new thread, or one that gains people.
LEMMA ThreadsGrow ==
    ASSUME TypeOK, NEW people \in SUBSET Person, NEW k \in 0 .. Len(threads),
           threads' = IF k = 0 THEN Append(threads, people)
                      ELSE [threads EXCEPT ![k] = @ \cup people]
    PROVE  LET thread == IF k = 0 THEN Len(threads) + 1 ELSE k
           IN  /\ threads' \in Seq(SUBSET Person)
               /\ DOMAIN threads \subseteq DOMAIN threads'
               /\ \A j \in DOMAIN threads : threads[j] \subseteq threads'[j]
               /\ thread \in Nat /\ thread \in DOMAIN threads'
               /\ people \subseteq threads'[thread]
  <1>1. threads \in Seq(SUBSET Person) /\ Len(threads) \in Nat
        /\ DOMAIN threads = 1 .. Len(threads)
    BY LenProperties DEF TypeOK
  <1>2. CASE k = 0
    <2>1. threads' = Append(threads, people)
      BY <1>2
    <2> QED
      BY <1>1, <1>2, <2>1, Appended
  <1>3. CASE k # 0
    <2>1. k \in 1 .. Len(threads)
      BY <1>1, <1>3
    <2>2. threads' = [threads EXCEPT ![k] = threads[k] \cup people]
      BY <1>3
    <2>3. threads[k] \cup people \in SUBSET Person
      BY <1>1, <2>1, ElementOfSeq
    <2> DEFINE Folk == SUBSET Person
               more == threads[k] \cup people
    <2>4. threads' \in Seq(SUBSET Person)
      <3>1. /\ threads \in Seq(Folk) /\ more \in Folk
            /\ threads' = [threads EXCEPT ![k] = more]
        BY <1>1, <2>2, <2>3
      <3> HIDE DEF Folk, more
      <3>2. \A q \in Seq(Folk) : \A j \in 1 .. Len(q), e \in Folk :
                [q EXCEPT ![j] = e] \in Seq(Folk)
        BY ExceptSeq
      <3>3. [threads EXCEPT ![k] = more] \in Seq(Folk)
        BY <2>1, <3>1, <3>2, Zenon
      <3>4. threads' \in Seq(Folk)
        BY <3>1, <3>3, Zenon
      <3> QED
        BY <3>4 DEF Folk
    <2> QED
      BY <1>1, <1>3, <2>1, <2>2, <2>4
  <1> QED
    BY <1>2, <1>3

\* Steps that touch neither emails nor threads.
LEMMA MailUntouched ==
    ASSUME ThreadsOK, UNCHANGED <<emails, threads>> PROVE ThreadsOK'
  BY DEF ThreadsOK

\* Every step keeps calls, channels, threads and emails well typed, and
\* whoever an email went to stays a participant of its thread.
LEMMA MailStep ==
    TypeOK /\ ThreadsOK /\ [Next]_vars =>
        /\ active' \in Seq([caller : Managed \cup {Agent}, fails : BOOLEAN,
                            started : Nat])
        /\ channels' \subseteq Channel
        /\ threads' \in Seq(SUBSET Person)
        /\ emails' \in Seq(Mailbox)
        /\ ThreadsOK'
  <1> DEFINE ActiveOK == active' \in Seq([caller : Managed \cup {Agent},
                                          fails : BOOLEAN, started : Nat])
             Goal == /\ ActiveOK
                     /\ channels' \subseteq Channel
                     /\ threads' \in Seq(SUBSET Person)
                     /\ emails' \in Seq(Mailbox)
                     /\ ThreadsOK'
  <1> SUFFICES ASSUME TypeOK, ThreadsOK, [Next]_vars PROVE Goal
    OBVIOUS
  <1>0. /\ emails \in Seq(Mailbox) /\ threads \in Seq(SUBSET Person)
        /\ channels \subseteq Channel
        /\ active \in Seq([caller : Managed \cup {Agent}, fails : BOOLEAN,
                           started : Nat])
    BY DEF TypeOK, Mailbox
  <1>1. ASSUME NEW p \in Person, NEW fails \in BOOLEAN, Begin(p, fails)
        PROVE  ActiveOK
    BY <1>1, BeginType
  <1>2. ASSUME NEW p \in Person, NEW c \in ChatCalls,
               ChatSend(p, c) \/ ScriptedChat(p, c)
        PROVE  Goal
    <2>1. ActiveOK
      BY <1>0, <1>1, <1>2 DEF ChatSend, ScriptedChat
    <2>2. UNCHANGED <<channels, threads, emails>>
      BY <1>2 DEF ChatSend, ScriptedChat
    <2> QED
      BY <1>0, <2>1, <2>2, MailUntouched
  <1>3. ASSUME NEW p \in Person, NEW to \in DmCalls,
               ChatDm(p, to) \/ ScriptedDm(p, to)
        PROVE  Goal
    <2>1. ActiveOK
      BY <1>0, <1>1, <1>3 DEF ChatDm, ScriptedDm
    <2>2. /\ UNCHANGED <<threads, emails>>
          /\ channels' = channels \cup {DmChannel(p, to)}
      BY <1>3 DEF ChatDm, ScriptedDm
    <2>3. channels' \subseteq Channel
      BY <1>0, <2>2, DmChannelType, CallsAssumption
    <2> QED
      BY <1>0, <2>1, <2>2, <2>3, MailUntouched
  <1>4. ASSUME NEW p \in Person, NEW c \in EmailCalls, EmailSend(p, c)
        PROVE  Goal
    <2> DEFINE thread == IF c.thread = 0 THEN Len(threads) + 1 ELSE c.thread
               people == c.to \cup {p}
    <2>1. ActiveOK /\ UNCHANGED channels
      BY <1>1, <1>4 DEF EmailSend
    <2>2. c.thread \in 0 .. Len(threads) /\ c.to \in SUBSET Person
          /\ people \in SUBSET Person
      BY <1>4, CallsAssumption DEF EmailSend
    <2>3. threads' = IF c.thread = 0 THEN Append(threads, people)
                     ELSE [threads EXCEPT ![c.thread] = @ \cup people]
      BY <1>4 DEF EmailSend
    <2>4. AddEmail(p, thread, c.to, FALSE)
      BY <1>4 DEF EmailSend
    <2>5. /\ threads' \in Seq(SUBSET Person)
          /\ DOMAIN threads \subseteq DOMAIN threads'
          /\ \A j \in DOMAIN threads : threads[j] \subseteq threads'[j]
          /\ thread \in Nat /\ thread \in DOMAIN threads'
          /\ people \subseteq threads'[thread]
      BY <2>2, <2>3, ThreadsGrow
    <2>6. emails' \in Seq(Mailbox) /\ ThreadsOK'
      BY <2>2, <2>4, <2>5, EmailJoins
    <2> QED
      BY <1>0, <2>1, <2>5, <2>6
  <1>5. ASSUME NEW p \in Person, NEW c \in EmailCalls, ScriptedEmail(p, c)
        PROVE  Goal
    <2> DEFINE thread == IF c.thread = 0 THEN Len(threads) + 1 ELSE c.thread
               people == IF c.thread = 0 THEN c.to \cup {p} ELSE {}
    <2>1. ActiveOK /\ UNCHANGED channels
      BY <1>0, <1>5 DEF ScriptedEmail
    <2>2. c.thread \in 0 .. Len(threads) /\ c.to \in SUBSET Person
          /\ people \in SUBSET Person
      BY <1>5, CallsAssumption DEF ScriptedEmail
    <2>3. threads' = IF c.thread = 0 THEN Append(threads, people)
                     ELSE [threads EXCEPT ![c.thread] = @ \cup people]
      <3>1. CASE c.thread = 0
        BY <1>5, <3>1 DEF ScriptedEmail
      <3>2. CASE c.thread # 0
        <4>1. threads' = threads
          BY <1>5, <3>2 DEF ScriptedEmail
        <4>2. c.thread \in DOMAIN threads
          BY <1>0, <2>2, <3>2, LenProperties
        <4>3. [threads EXCEPT ![c.thread] = @ \cup {}] = threads
          BY <1>0, <4>2
        <4> QED
          BY <3>2, <4>1, <4>3
      <3> QED
        BY <3>1, <3>2
    <2>4. AddEmail(p, thread, c.to, TRUE)
      BY <1>5 DEF ScriptedEmail
    <2>5. /\ threads' \in Seq(SUBSET Person)
          /\ DOMAIN threads \subseteq DOMAIN threads'
          /\ \A j \in DOMAIN threads : threads[j] \subseteq threads'[j]
          /\ thread \in Nat /\ thread \in DOMAIN threads'
      BY <2>2, <2>3, ThreadsGrow
    <2>6. emails' \in Seq(Mailbox) /\ ThreadsOK'
      BY <2>2, <2>4, <2>5, EmailJoins
    <2> QED
      BY <1>0, <2>1, <2>5, <2>6
  <1>6. ASSUME NEW p \in Person, NEW c \in Bookings, CalendarCreate(p, c)
        PROVE  Goal
    BY <1>0, <1>1, <1>6, MailUntouched DEF CalendarCreate
  <1>7. ASSUME NEW p \in Person, CallFails(p) PROVE Goal
    BY <1>0, <1>1, <1>7, MailUntouched DEF CallFails, worldVars
  <1>8. CASE CallReturns
    BY <1>0, <1>8, ActiveHead, MailUntouched DEF CallReturns, worldVars
  <1>9. ASSUME NEW t \in 0 .. MaxTime, ClockMoves(t) PROVE Goal
    BY <1>0, <1>9, MailUntouched DEF ClockMoves, worldVars
  <1>10. CASE UNCHANGED vars
    BY <1>0, <1>10, MailUntouched DEF vars
  <1> QED
    BY <1>2, <1>3, <1>4, <1>5, <1>6, <1>7, <1>8, <1>9, <1>10, ActorsAssumption
       DEF Next

-----------------------------------------------------------------------------
(* The hop cap.  The list of a pair is pruned against the clock of the     *)
(* moment, which may lie behind the latest minute shown: an entry that is  *)
(* still in the window of that latest minute is therefore still listed.    *)

RecentTriggers(from, p) ==
    {t \in accepted[p] : t.sender = from /\ t.at >= high - Window}

HopsOK ==
    /\ sim_time <= high
    /\ \A pair \in Pair : IsFiniteSet(hops[pair]) /\ Cardinality(hops[pair]) <= Cap
    /\ \A from \in Person \ {Agent}, p \in Managed :
            RecentTriggers(from, p) \subseteq hops[<<from, p>>]

\* An insert keeps the lists within the cap: it prunes the list of each NPC
\* it notifies and adds to it only below the cap.
LEMMA HopsInserted ==
    ASSUME TypeOK, HopsOK, NEW kind, NEW from \in Person,
           NEW notified \in SUBSET Person,
           Inserted(kind, from, notified, sim_time), Quiet
    PROVE  HopsOK'
  <1> DEFINE trigger == [source |-> inserts + 1, sender |-> from, at |-> sim_time]
             candidates == notified \cap Managed
  <1>1. /\ trigger.at = sim_time /\ trigger.sender = from
        /\ sim_time \in Nat /\ high \in Nat /\ sim_time <= high
        /\ sim_time' = sim_time /\ high' = high
    BY DEF TypeOK, HopsOK, Quiet
  <1>2. /\ accepted' = [p \in Managed |->
                IF p \in candidates /\ MayHop(from, p, sim_time)
                THEN accepted[p] \cup {trigger} ELSE accepted[p]]
        /\ ReserveHops(from, candidates, trigger)
    BY DEF Inserted, Trigger
  <1> HIDE DEF trigger, candidates
  <1>3. ASSUME NEW pair \in Pair
        PROVE  IsFiniteSet(hops'[pair]) /\ Cardinality(hops'[pair]) <= Cap
    <2>1. IsFiniteSet(hops[pair]) /\ Cardinality(hops[pair]) <= Cap
      BY DEF HopsOK
    <2> DEFINE recent == Recent(pair, sim_time)
    <2>2. recent \in SUBSET hops[pair]
      BY DEF Recent
    <2>3. IsFiniteSet(recent) /\ Cardinality(recent) <= Cardinality(hops[pair])
      BY <2>1, <2>2, FS_Subset
    <2>4. Cardinality(recent) \in Nat /\ Cardinality(hops[pair]) \in Nat
      BY <2>1, <2>3, FS_CardinalityType
    <2>5. CASE from = Agent \/ pair[1] # from \/ pair[2] \notin candidates
      BY <1>2, <2>1, <2>5 DEF ReserveHops
    <2>6. CASE ~(from = Agent \/ pair[1] # from \/ pair[2] \notin candidates)
      <3>1. pair = <<from, pair[2]>>
        BY <2>6 DEF Pair
      <3>2. hops'[pair] = recent \cup
                (IF MayHop(from, pair[2], sim_time) THEN {trigger} ELSE {})
        BY <1>1, <1>2, <2>6 DEF ReserveHops
      <3>3. CASE MayHop(from, pair[2], sim_time)
        <4>1. Cardinality(recent) < Cap
          BY <2>6, <3>1, <3>3 DEF MayHop
        <4>2. hops'[pair] = recent \cup {trigger}
          BY <3>2, <3>3
        <4> HIDE DEF recent
        <4>3. /\ IsFiniteSet(recent \cup {trigger})
              /\ Cardinality(recent \cup {trigger}) <= Cardinality(recent) + 1
          BY <2>3, <2>4, FS_AddElement
        <4>4. Cardinality(recent \cup {trigger}) \in Nat
          BY <4>3, FS_CardinalityType
        <4> QED
          BY <2>4, <4>1, <4>2, <4>3, <4>4, CapAssumption
      <3>4. CASE ~MayHop(from, pair[2], sim_time)
        <4>1. hops'[pair] = recent
          BY <3>2, <3>4
        <4> QED
          BY <2>1, <2>3, <2>4, <4>1, CapAssumption
      <3> QED
        BY <3>3, <3>4
    <2> QED
      BY <2>5, <2>6
  <1>4. ASSUME NEW other \in Person \ {Agent}, NEW p \in Managed,
               NEW t \in RecentTriggers(other, p)'
        PROVE  t \in hops'[<<other, p>>]
    <2>1. /\ t \in accepted'[p] /\ t.sender = other
          /\ t.at >= high - Window
      BY <1>1 DEF RecentTriggers
    <2>2. <<other, p>> \in Pair
      BY DEF Pair
    <2>3. CASE t \in accepted[p]
      <3>1. t \in hops[<<other, p>>]
        BY <2>1, <2>3 DEF HopsOK, RecentTriggers
      <3>2. t.at \in Nat
        BY <2>3 DEF TypeOK, TriggerRecord
      <3>3. t \in Recent(<<other, p>>, sim_time)
        BY <1>1, <2>1, <3>1, <3>2, CapAssumption DEF Recent
      <3> QED
        BY <1>1, <1>2, <2>2, <3>1, <3>3 DEF ReserveHops
    <2>4. CASE t \notin accepted[p]
      <3>1. /\ p \in candidates /\ MayHop(from, p, sim_time)
            /\ t = trigger
        BY <1>2, <2>1, <2>4
      <3>2. other = from
        BY <1>1, <2>1, <3>1
      <3> QED
        BY <1>1, <1>2, <2>2, <3>1, <3>2 DEF ReserveHops
    <2> QED
      BY <2>3, <2>4
  <1> QED
    BY <1>1, <1>3, <1>4 DEF HopsOK

\* Every step keeps the lists within the cap; a clock that advances past the
\* latest minute only leaves fewer triggers to be listed.
LEMMA HopsStep == TypeOK /\ HopsOK /\ Effects => HopsOK'
  <1> SUFFICES ASSUME TypeOK, HopsOK, Effects PROVE HopsOK'
    OBVIOUS
  <1>1. ASSUME UNCHANGED <<sim_time, high, accepted, hops>> PROVE HopsOK'
    BY <1>1 DEF HopsOK, RecentTriggers
  <1>2. ASSUME NEW t \in Nat, ClockMoves(t) PROVE HopsOK'
    <2>1. /\ sim_time' = t /\ high' \in Nat /\ high' >= high /\ high' >= t
          /\ accepted' = accepted /\ hops' = hops /\ high \in Nat
      BY <1>2 DEF ClockMoves, Max2, worldVars, TypeOK
    <2>2. ASSUME NEW from \in Person \ {Agent}, NEW p \in Managed
          PROVE  RecentTriggers(from, p)' \subseteq RecentTriggers(from, p)
      BY <2>1, CapAssumption DEF RecentTriggers, TypeOK, TriggerRecord
    <2> QED
      BY <2>1, <2>2 DEF HopsOK
  <1> QED
    BY <1>1, <1>2, HopsInserted DEF Effects, Booked, Quiet, CallReturns, worldVars

\* Lists within the cap bound the triggers they list.
LEMMA HopsBounded == TypeOK /\ HopsOK => HopBound
  <1> SUFFICES ASSUME TypeOK, HopsOK,
                      NEW from \in Person \ {Agent}, NEW p \in Managed
               PROVE  Cardinality(RecentTriggers(from, p)) <= Cap
    BY DEF HopBound, RecentTriggers
  <1>1. <<from, p>> \in Pair
    BY DEF Pair
  <1>2. /\ IsFiniteSet(hops[<<from, p>>]) /\ Cardinality(hops[<<from, p>>]) <= Cap
        /\ RecentTriggers(from, p) \in SUBSET hops[<<from, p>>]
    BY <1>1 DEF HopsOK
  <1>3. /\ IsFiniteSet(RecentTriggers(from, p))
        /\ Cardinality(RecentTriggers(from, p)) <= Cardinality(hops[<<from, p>>])
    BY <1>2, FS_Subset
  <1> QED
    BY <1>2, <1>3, FS_CardinalityType, CapAssumption

-----------------------------------------------------------------------------
(* The two subscribers.                                                    *)

\* Everything stored was inserted before the next insert.
SourcesOK ==
    /\ \A n \in notifications : n.source <= inserts
    /\ \A p \in Managed : \A t \in accepted[p] : t.source <= inserts
    /\ \A d \in dropped : d.source <= inserts

Inbox(p) == {n.source : n \in {r \in notifications :
                    r.recipient = p /\ r.kind # "calendar_event"}}
Triggered(p) == {t.source : t \in accepted[p]}
Lost(p) == {d.source : d \in {e \in dropped : e.recipient = p}}

\* One insert: what an NPC's inbox, triggers and drops gain.
LEMMA InsertGains ==
    ASSUME TypeOK, NEW kind \in {"chat_message", "email"}, NEW from \in Person,
           NEW notified \in SUBSET Person, NEW p \in Managed,
           Inserted(kind, from, notified, sim_time)
    PROVE  LET new == IF p \in notified THEN {inserts + 1} ELSE {}
               heard == MayHop(from, p, sim_time)
           IN  /\ Inbox(p)' = Inbox(p) \cup new
               /\ Triggered(p)' = Triggered(p) \cup (IF heard THEN new ELSE {})
               /\ Lost(p)' = Lost(p) \cup (IF heard THEN {} ELSE new)
  <1> DEFINE n == [kind |-> kind, source |-> inserts + 1, recipient |-> p,
                   created_at |-> sim_time]
             new == IF p \in notified THEN {inserts + 1} ELSE {}
             heard == MayHop(from, p, sim_time)
  <1>1. Inbox(p)' = Inbox(p) \cup new
    <2>1. notifications' = notifications \cup
            {[kind |-> kind, source |-> inserts + 1, recipient |-> r,
              created_at |-> sim_time] : r \in notified}
      BY DEF Inserted, Notify
    <2>2. kind # "calendar_event"
      OBVIOUS
    <2>3. ASSUME NEW s \in Inbox(p)' PROVE s \in Inbox(p) \cup new
      <3>1. PICK r \in notifications' : /\ r.recipient = p
                                       /\ r.kind # "calendar_event"
                                       /\ s = r.source
        BY <2>3 DEF Inbox
      <3> QED
        BY <2>1, <3>1 DEF Inbox
    <2>4. Inbox(p) \subseteq Inbox(p)'
      BY <2>1 DEF Inbox
    <2>5. ASSUME p \in notified PROVE inserts + 1 \in Inbox(p)'
      <3>1. n \in notifications' /\ n.recipient = p /\ n.kind # "calendar_event"
            /\ n.source = inserts + 1
        BY <2>1, <2>2, <2>5
      <3> HIDE DEF n
      <3> QED
        BY <3>1 DEF Inbox
    <2> QED
      BY <2>3, <2>4, <2>5
  <1>2. Triggered(p)' = Triggered(p) \cup (IF heard THEN new ELSE {})
    <2> DEFINE t == [source |-> inserts + 1, sender |-> from, at |-> sim_time]
    <2>1. /\ t.source = inserts + 1
          /\ accepted'[p] = IF p \in notified /\ heard
                            THEN accepted[p] \cup {t} ELSE accepted[p]
      BY DEF Inserted, Trigger
    <2> HIDE DEF t, heard
    <2> QED
      BY <2>1 DEF Triggered
  <1>3. Lost(p)' = Lost(p) \cup (IF heard THEN {} ELSE new)
    <2>1. dropped' = dropped \cup
            {[source |-> inserts + 1, recipient |-> r] :
                r \in {q \in notified \cap Managed : ~MayHop(from, q, sim_time)}}
      BY DEF Inserted, Trigger
    <2>2. ASSUME NEW s \in Lost(p)'
          PROVE  s \in Lost(p) \cup (IF heard THEN {} ELSE new)
      <3>1. PICK d \in dropped' : d.recipient = p /\ s = d.source
        BY <2>2 DEF Lost
      <3>2. CASE d \in dropped
        BY <3>1, <3>2 DEF Lost
      <3>3. CASE d \notin dropped
        <4>1. PICK r \in notified \cap Managed :
                /\ ~MayHop(from, r, sim_time)
                /\ d = [source |-> inserts + 1, recipient |-> r]
          BY <2>1, <3>3
        <4>2. r = p /\ s = inserts + 1
          BY <3>1, <4>1
        <4> QED
          BY <4>1, <4>2
      <3> QED
        BY <3>2, <3>3
    <2>3. Lost(p) \subseteq Lost(p)'
      BY <2>1 DEF Lost
    <2>4. ASSUME p \in notified, ~heard PROVE inserts + 1 \in Lost(p)'
      <3> DEFINE d == [source |-> inserts + 1, recipient |-> p]
      <3>1. d \in dropped' /\ d.recipient = p /\ d.source = inserts + 1
        BY <2>1, <2>4
      <3> HIDE DEF d
      <3> QED
        BY <3>1 DEF Lost
    <2> QED
      BY <2>2, <2>3, <2>4
  <1> QED
    BY <1>1, <1>2, <1>3

\* Sources never run ahead of the inserts.
LEMMA SourcesStep == TypeOK /\ SourcesOK /\ Effects => SourcesOK'
  <1> SUFFICES ASSUME TypeOK, SourcesOK, Effects PROVE SourcesOK'
    OBVIOUS
  <1>0. inserts \in Nat /\ \A n \in notifications : n.source \in Nat
    BY DEF TypeOK, Row
  <1>1. ASSUME NEW kind, NEW from \in Person, NEW notified \in SUBSET Person,
               Inserted(kind, from, notified, sim_time)
        PROVE  SourcesOK'
    <2>1. inserts' = inserts + 1
      BY <1>1 DEF Inserted
    <2>2. \A n \in notifications' : n \in notifications \/ n.source = inserts + 1
      BY <1>1 DEF Inserted, Notify
    <2>3. \A p \in Managed : \A t \in accepted'[p] :
                t \in accepted[p] \/ t.source = inserts + 1
      BY <1>1 DEF Inserted, Trigger
    <2>4. \A d \in dropped' : d \in dropped \/ d.source = inserts + 1
      BY <1>1 DEF Inserted, Trigger
    <2>5. \A p \in Managed : \A t \in accepted[p] : t.source \in Nat
      BY DEF TypeOK, TriggerRecord
    <2>6. \A d \in dropped : d.source \in Nat
      BY DEF TypeOK
    <2> QED
      BY <1>0, <2>1, <2>2, <2>3, <2>4, <2>5, <2>6 DEF SourcesOK
  <1>2. ASSUME NEW p \in Person, NEW c \in Bookings, Booked(c, p)
        PROVE  SourcesOK'
    <2>1. inserts' = inserts + 1 /\ accepted' = accepted /\ dropped' = dropped
      BY <1>2 DEF Booked
    <2>2. \A n \in notifications' : n \in notifications \/ n.source = inserts + 1
      BY <1>2 DEF Booked, Notify
    <2>3. \A q \in Managed : \A t \in accepted[q] : t.source \in Nat
      BY DEF TypeOK, TriggerRecord
    <2>4. \A d \in dropped : d.source \in Nat
      BY DEF TypeOK
    <2> QED
      BY <1>0, <2>1, <2>2, <2>3, <2>4 DEF SourcesOK
  <1>3. ASSUME UNCHANGED <<inserts, notifications, accepted, dropped>>
        PROVE  SourcesOK'
    BY <1>3 DEF SourcesOK
  <1> QED
    BY <1>1, <1>2, <1>3 DEF Effects, CallReturns, ClockMoves, worldVars

\* The subscribers go on agreeing: what an insert adds to an inbox it adds
\* to the triggers or to the drops.
LEMMA SubscribersStep ==
    TypeOK /\ SourcesOK /\ SubscribersAgree /\ Effects => SubscribersAgree'
  <1> SUFFICES ASSUME TypeOK, SourcesOK, SubscribersAgree, Effects,
                      NEW p \in Managed
               PROVE  /\ Inbox(p)' = Triggered(p)' \cup Lost(p)'
                      /\ Triggered(p)' \cap Lost(p)' = {}
    BY DEF SubscribersAgree, Inbox, Triggered, Lost
  <1>1. Inbox(p) = Triggered(p) \cup Lost(p) /\ Triggered(p) \cap Lost(p) = {}
    BY DEF SubscribersAgree, Inbox, Triggered, Lost
  <1>2. inserts + 1 \notin Inbox(p)
    BY DEF SourcesOK, Inbox, TypeOK, Row
  <1>3. ASSUME NEW kind \in {"chat_message", "email"}, NEW from \in Person,
               NEW notified \in SUBSET Person,
               Inserted(kind, from, notified, sim_time)
        PROVE  /\ Inbox(p)' = Triggered(p)' \cup Lost(p)'
               /\ Triggered(p)' \cap Lost(p)' = {}
    <2> DEFINE new == IF p \in notified THEN {inserts + 1} ELSE {}
               heard == MayHop(from, p, sim_time)
    <2>1. /\ Inbox(p)' = Inbox(p) \cup new
          /\ Triggered(p)' = Triggered(p) \cup (IF heard THEN new ELSE {})
          /\ Lost(p)' = Lost(p) \cup (IF heard THEN {} ELSE new)
      BY <1>3, InsertGains
    <2>2. new \cap Inbox(p) = {}
      BY <1>2
    <2> HIDE DEF new, heard
    <2> QED
      BY <1>1, <2>1, <2>2
  <1>4. ASSUME NEW q \in Person, NEW c \in Bookings, Booked(c, q)
        PROVE  /\ Inbox(p)' = Triggered(p)' \cup Lost(p)'
               /\ Triggered(p)' \cap Lost(p)' = {}
    <2>1. /\ accepted' = accepted /\ dropped' = dropped
          /\ notifications \subseteq notifications'
          /\ \A n \in notifications' : n \in notifications \/ n.kind = "calendar_event"
      BY <1>4 DEF Booked, Notify
    <2> QED
      BY <1>1, <2>1 DEF Inbox, Triggered, Lost
  <1>5. ASSUME UNCHANGED <<notifications, accepted, dropped>>
        PROVE  /\ Inbox(p)' = Triggered(p)' \cup Lost(p)'
               /\ Triggered(p)' \cap Lost(p)' = {}
    BY <1>1, <1>5 DEF Inbox, Triggered, Lost
  <1> QED
    BY <1>3, <1>4, <1>5 DEF Effects, CallReturns, ClockMoves, worldVars

-----------------------------------------------------------------------------
(* Bundles.  The registries' sets of delivered ids are exactly what their  *)
(* owners were handed, which is why no row goes out twice.                 *)

BundlesOK ==
    /\ \A i \in DOMAIN bundles :
          /\ bundles[i].after <= inserts
          /\ \A n \in bundles[i].items : n.recipient = bundles[i].to
    /\ \A p \in Person, n \in Row :
          n \in delivered[p] <=>
              n.recipient = p /\ \E j \in DOMAIN bundles : n \in bundles[j].items

RowsOK == BundlesOK /\ EachRowOnce /\ NoRowMissed

\* Rows that are inserted count for the bundles to come only.
LEMMA RowsGrow ==
    ASSUME TypeOK, RowsOK, UNCHANGED <<delivered, bundles>>,
           inserts' = inserts + 1,
           \A n \in notifications' : n \in notifications \/ n.source = inserts + 1
    PROVE  RowsOK'
  <1>1. inserts \in Nat /\ \A i \in DOMAIN bundles : bundles[i].after \in Nat
    <2>1. inserts \in Nat
      BY DEF TypeOK
    <2>2. ASSUME NEW i \in DOMAIN bundles
          PROVE  bundles[i].after \in Nat
      <3> DEFINE Bundle == [to : Managed \cup {Agent}, at : Nat, after : Nat,
                            items : SUBSET Row]
      <3>1. bundles \in Seq(Bundle)
        BY DEF TypeOK
      <3> HIDE DEF Bundle
      <3>2. bundles[i] \in Bundle
        BY <3>1, <2>2, ElementOfSeq, LenProperties
      <3> QED
        BY <3>2 DEF Bundle
    <2> QED
      BY <2>1, <2>2
  <1>2. BundlesOK'
    BY <1>1 DEF BundlesOK, RowsOK
  <1>3. EachRowOnce'
    BY DEF EachRowOnce, RowsOK
  <1>4. NoRowMissed'
    BY <1>1 DEF NoRowMissed, BundlesOK, RowsOK
  <1> QED
    BY <1>2, <1>3, <1>4 DEF RowsOK

\* A call returns with the caller's due rows.
LEMMA RowsHandedOut ==
    ASSUME TypeOK, RowsOK, CallReturns, ~Head(active).fails
    PROVE  RowsOK'
  <1> DEFINE p == Head(active).caller
             b == [to |-> p, at |-> sim_time, after |-> inserts,
                   items |-> DueRows(p)]
             Bundle == [to : Managed \cup {Agent}, at : Nat, after : Nat,
                        items : SUBSET Row]
             last == Len(bundles) + 1
  <1>1. p \in Managed \cup {Agent} /\ p \in Person
    BY ActiveHead, PeopleAssumption DEF CallReturns
  <1>2. /\ bundles' = Append(bundles, b)
        /\ delivered' = [delivered EXCEPT ![p] = @ \cup DueRows(p)]
        /\ UNCHANGED <<sim_time, inserts, notifications>>
    BY DEF CallReturns, worldVars
  <1>3. /\ DueRows(p) \in SUBSET Row
        /\ \A n \in Row : n \in DueRows(p) <=>
                /\ n \in notifications /\ n.recipient = p
                /\ n \notin delivered[p] /\ n.created_at <= sim_time
    BY DEF DueRows, TypeOK
  <1>4. b \in Bundle /\ bundles \in Seq(Bundle)
    BY <1>1, <1>3 DEF TypeOK
  <1>5. b.to = p /\ b.at = sim_time /\ b.after = inserts /\ b.items = DueRows(p)
    OBVIOUS
  <1>6. delivered \in [Person -> SUBSET Row] /\ inserts \in Nat
        /\ notifications \subseteq Row
    BY DEF TypeOK
  <1> HIDE DEF b, Bundle, p
  <1>7. /\ Len(bundles) \in Nat
        /\ DOMAIN bundles = 1 .. Len(bundles)
        /\ DOMAIN bundles' = 1 .. last
        /\ \A i \in 1 .. Len(bundles) : bundles'[i] = bundles[i]
        /\ bundles'[last] = b
    BY <1>2, <1>4, Appended
  <1>8. /\ \A i \in 1 .. last : i \in 1 .. Len(bundles) \/ i = last
        /\ \A i \in 1 .. Len(bundles) : i # last /\ i \in 1 .. last
        /\ last \in 1 .. last
    BY <1>7
  <1>9. \A i \in 1 .. Len(bundles) : bundles[i].items \in SUBSET Row
    <2>1. \A i \in 1 .. Len(bundles) : bundles[i] \in Bundle
      BY <1>4, ElementOfSeq
    <2> QED
      BY <2>1 DEF Bundle
  <1>10. ASSUME NEW n \in DueRows(p), NEW i \in 1 .. Len(bundles)
         PROVE  n \notin bundles[i].items
    BY <1>1, <1>3, <1>7, <1>10 DEF RowsOK, BundlesOK
  <1>11. EachRowOnce'
    BY <1>5, <1>7, <1>8, <1>10 DEF EachRowOnce, RowsOK
  <1>12. BundlesOK'
    <2>1. ASSUME NEW i \in DOMAIN bundles'
          PROVE  /\ bundles'[i].after <= inserts
                 /\ \A n \in bundles'[i].items : n.recipient = bundles'[i].to
      BY <1>3, <1>5, <1>6, <1>7, <1>8 DEF RowsOK, BundlesOK
    <2>2. ASSUME NEW q \in Person, NEW n \in Row
          PROVE  n \in delivered'[q] <=>
                    /\ n.recipient = q
                    /\ \E j \in DOMAIN bundles' : n \in bundles'[j].items
      <3>1. n \in delivered[q] <=>
                n.recipient = q /\ \E j \in 1 .. Len(bundles) : n \in bundles[j].items
        BY <1>7 DEF RowsOK, BundlesOK
      <3>2. (\E j \in DOMAIN bundles' : n \in bundles'[j].items)
                <=> \/ \E j \in 1 .. Len(bundles) : n \in bundles[j].items
                    \/ n \in DueRows(p)
        BY <1>5, <1>7, <1>8
      <3>3. n \in delivered'[q] <=> n \in delivered[q] \/ (q = p /\ n \in DueRows(p))
        BY <1>1, <1>2, <1>6
      <3> QED
        BY <1>3, <3>1, <3>2, <3>3
    <2> QED
      BY <1>2, <2>1, <2>2 DEF BundlesOK
  <1>13. NoRowMissed'
    <2> SUFFICES ASSUME NEW i \in 1 .. last, NEW n \in notifications,
                        n.recipient = bundles'[i].to,
                        n.source <= bundles'[i].after,
                        n.created_at <= bundles'[i].at
                 PROVE  \E j \in 1 .. i : n \in bundles'[j].items
      BY <1>2, <1>7 DEF NoRowMissed
    <2>1. CASE i \in 1 .. Len(bundles)
      <3>1. PICK j \in 1 .. i : n \in bundles[j].items
        BY <1>7, <2>1 DEF NoRowMissed, RowsOK
      <3>2. j \in 1 .. Len(bundles)
        BY <1>7, <2>1
      <3> QED
        BY <1>7, <3>1, <3>2
    <2>2. CASE i = last
      <3>1. n \in Row /\ n.recipient = p /\ n.created_at <= sim_time
        BY <1>5, <1>6, <1>7, <2>2
      <3>2. CASE n \in delivered[p]
        <4>1. PICK j \in 1 .. Len(bundles) : n \in bundles[j].items
          BY <1>1, <1>7, <3>1, <3>2 DEF RowsOK, BundlesOK
        <4> QED
          BY <1>7, <1>8, <2>2, <4>1
      <3>3. CASE n \notin delivered[p]
        <4>1. n \in bundles'[last].items
          BY <1>3, <1>5, <1>7, <3>1, <3>3
        <4> QED
          BY <1>8, <2>2, <4>1
      <3> QED
        BY <3>2, <3>3
    <2> QED
      BY <1>8, <2>1, <2>2
  <1> QED
    BY <1>11, <1>12, <1>13 DEF RowsOK

\* Every step hands out each row once and misses none.
LEMMA RowsStep == TypeOK /\ RowsOK /\ Effects => RowsOK'
  <1> SUFFICES ASSUME TypeOK, RowsOK, Effects PROVE RowsOK'
    OBVIOUS
  <1>1. ASSUME NEW kind, NEW from, NEW notified,
               Inserted(kind, from, notified, sim_time), Quiet
        PROVE  RowsOK'
    BY <1>1, RowsGrow DEF Inserted, Notify, Quiet
  <1>2. ASSUME NEW c, NEW p, Booked(c, p), Quiet PROVE RowsOK'
    BY <1>2, RowsGrow DEF Booked, Notify, Quiet
  <1>3. ASSUME UNCHANGED <<inserts, notifications, delivered, bundles>>
        PROVE  RowsOK'
    BY <1>3 DEF RowsOK, BundlesOK, EachRowOnce, NoRowMissed
  <1>4. CASE CallReturns
    <2>1. CASE Head(active).fails
      BY <1>3, <1>4, <2>1 DEF CallReturns, worldVars
    <2>2. CASE ~Head(active).fails
      BY <1>4, <2>2, RowsHandedOut
    <2> QED
      BY <2>1, <2>2
  <1>5. ASSUME NEW t \in Nat, ClockMoves(t) PROVE RowsOK'
    BY <1>3, <1>5 DEF ClockMoves, worldVars
  <1> QED
    BY <1>1, <1>2, <1>3, <1>4, <1>5 DEF Effects, Quiet

-----------------------------------------------------------------------------
(* The theorems.                                                           *)

MessagingInv ==
    TypeOK /\ ThreadsOK /\ HopsOK /\ SourcesOK /\ SubscribersAgree /\ RowsOK

\* The initial state satisfies the invariant.
LEMMA InvInit == Init => MessagingInv
  <1> SUFFICES ASSUME Init PROVE MessagingInv
    OBVIOUS
  <1> USE DEF Init
  <1>1. TypeOK
    BY ChannelsAssumption, ThreadsAssumption DEF TypeOK
  <1>2. ThreadsOK
    BY DEF ThreadsOK
  <1>3. HopsOK
    BY FS_EmptySet, CapAssumption DEF HopsOK, RecentTriggers
  <1>4. SourcesOK /\ SubscribersAgree
    BY DEF SourcesOK, SubscribersAgree
  <1>5. RowsOK
    BY DEF RowsOK, BundlesOK, EachRowOnce, NoRowMissed
  <1> QED
    BY <1>1, <1>2, <1>3, <1>4, <1>5 DEF MessagingInv

\* Every step keeps the invariant.
LEMMA InvStep == MessagingInv /\ [Next]_vars => MessagingInv'
  <1> SUFFICES ASSUME MessagingInv, [Next]_vars PROVE MessagingInv'
    OBVIOUS
  <1>1. Effects
    BY StepEffects DEF MessagingInv
  <1>2. TypeOK' /\ ThreadsOK'
    BY <1>1, EffectsType, MailStep DEF MessagingInv, TypeOK, Mailbox
  <1>3. HopsOK'
    BY <1>1, HopsStep DEF MessagingInv
  <1>4. SourcesOK' /\ SubscribersAgree'
    BY <1>1, SourcesStep, SubscribersStep DEF MessagingInv
  <1>5. RowsOK'
    BY <1>1, RowsStep DEF MessagingInv
  <1> QED
    BY <1>2, <1>3, <1>4, <1>5 DEF MessagingInv

\* Every reachable state satisfies the invariant.
THEOREM Invariance == Spec => []MessagingInv
  BY InvInit, InvStep, PTL DEF Spec

\* Every value stays of its type.
THEOREM TypeCorrect == Spec => []TypeOK
  <1>1. MessagingInv => TypeOK
    BY DEF MessagingInv
  <1> QED
    BY Invariance, <1>1, PTL

\* The hop cap holds against the latest minute the clock ever showed, even if
\* the clock went back in between.
THEOREM HopsAreCapped == Spec => []HopBound
  <1>1. MessagingInv => HopBound
    BY HopsBounded DEF MessagingInv
  <1> QED
    BY Invariance, <1>1, PTL

\* An NPC has a trigger or a recorded drop for exactly its inbox.
THEOREM SubscribersNeverDisagree == Spec => []SubscribersAgree
  <1>1. MessagingInv => SubscribersAgree
    BY DEF MessagingInv
  <1> QED
    BY Invariance, <1>1, PTL

\* No row reaches its recipient twice.
THEOREM RowsAreDeliveredOnce == Spec => []EachRowOnce
  <1>1. MessagingInv => EachRowOnce
    BY DEF MessagingInv, RowsOK
  <1> QED
    BY Invariance, <1>1, PTL

\* No row that was there and due when a call of its recipient returned was
\* passed over.
THEOREM NoRowIsPassedOver == Spec => []NoRowMissed
  <1>1. MessagingInv => NoRowMissed
    BY DEF MessagingInv, RowsOK
  <1> QED
    BY Invariance, <1>1, PTL

\* The people of a tool-sent email may read its thread.
THEOREM EmailIsReadable == Spec => []RecipientsCanRead
  <1>1. MessagingInv => RecipientsCanRead
    BY DEF MessagingInv, ThreadsOK, RecipientsCanRead
  <1> QED
    BY Invariance, <1>1, PTL
=============================================================================
