-------------------------- MODULE TaskBoard_proofs --------------------------
(***************************************************************************)
(* Proofs about the task board, for any people, seed, estimates and calls, *)
(* and whatever calls overlap.                                             *)
(***************************************************************************)
EXTENDS TaskBoard, SequenceTheorems, TLAPS

Frame == [caller : Caller, until : Nat]
Comment == [author : Caller, sim_time : Nat]

\* Persons who call are persons.
LEMMA CallersArePersons ==
    Caller \subseteq Person /\ Agent \in Caller /\ \A p \in Managed : p # Agent
  BY PeopleAssumption DEF Caller

\* What a sequence looks like with one element more at its end.
LEMMA AppendedElements ==
    ASSUME NEW S, NEW q \in Seq(S), NEW e \in S
    PROVE  /\ Append(q, e) \in Seq(S)
           /\ Len(q) \in Nat
           /\ DOMAIN q = 1 .. Len(q)
           /\ DOMAIN Append(q, e) = 1 .. Len(q) + 1
           /\ \A i \in 1 .. Len(q) : Append(q, e)[i] = q[i]
           /\ Append(q, e)[Len(q) + 1] = e
  BY AppendProperties, LenProperties

\* What a stack looks like with one call more on top of it.
LEMMA PushedElements ==
    ASSUME NEW S, NEW q \in Seq(S), NEW e \in S
    PROVE  /\ <<e>> \o q \in Seq(S)
           /\ Len(q) \in Nat
           /\ DOMAIN q = 1 .. Len(q)
           /\ Len(<<e>> \o q) = Len(q) + 1
           /\ DOMAIN (<<e>> \o q) = 1 .. Len(q) + 1
           /\ (<<e>> \o q)[1] = e
           /\ \A i \in 1 .. Len(q) : (<<e>> \o q)[i + 1] = q[i]
  <1>1. <<e>> \in Seq(S) /\ Len(<<e>>) = 1 /\ <<e>>[1] = e
    OBVIOUS
  <1> DEFINE r == <<e>> \o q
  <1>2. /\ r \in Seq(S)
        /\ Len(r) = Len(<<e>>) + Len(q)
        /\ \A i \in 1 .. Len(<<e>>) + Len(q) :
              r[i] = IF i <= Len(<<e>>) THEN <<e>>[i] ELSE q[i - Len(<<e>>)]
    BY <1>1, ConcatProperties
  <1> HIDE DEF r
  <1>3. Len(q) \in Nat /\ DOMAIN q = 1 .. Len(q) /\ DOMAIN r = 1 .. Len(r)
    BY <1>2, LenProperties
  <1>4. r[1] = e
    BY <1>1, <1>2, <1>3
  <1>5. \A i \in 1 .. Len(q) : r[i + 1] = q[i]
    BY <1>1, <1>2, <1>3
  <1> QED
    BY <1>1, <1>2, <1>3, <1>4, <1>5 DEF r

\* The innermost call, and the stack once it has returned.
LEMMA PoppedElements ==
    ASSUME NEW S, NEW q \in Seq(S), q # <<>>
    PROVE  /\ Head(q) = q[1] /\ Head(q) \in S
           /\ Tail(q) \in Seq(S)
           /\ Len(q) \in Nat \ {0}
           /\ DOMAIN q = 1 .. Len(q)
           /\ Len(Tail(q)) = Len(q) - 1
           /\ DOMAIN Tail(q) = 1 .. Len(q) - 1
           /\ \A i \in 1 .. Len(q) - 1 : Tail(q)[i] = q[i + 1]
  BY HeadTailProperties, LenProperties, EmptySeq

-----------------------------------------------------------------------------
(* The stack of calls: one per caller, the agent's at the bottom.          *)

StackOK ==
    /\ \A i, j \in DOMAIN active : i # j => active[i].caller # active[j].caller
    /\ active # <<>> => active[Len(active)].caller = Agent

\* A quantity m of p's, in seconds, lies before the moment p is free again:
\* the end of p's call or, if p has none in progress, the clock or p's poll.
NotAfter(p, m, stack, now, polls) ==
    /\ \A i \in DOMAIN stack : stack[i].caller = p => m <= 60 * stack[i].until
    /\ (\A i \in DOMAIN stack : stack[i].caller # p)
            => m <= 60 * (IF p = Agent THEN now ELSE polls[p])

\* A call that begins is the only one of its caller, and an NPC's rests on
\* the agent's.
LEMMA BeginStack ==
    ASSUME TypeOK, StackOK, NEW p \in Caller, NEW at \in Nat, NEW cost \in Nat,
           Begin(p, at, cost)
    PROVE  /\ StackOK'
           /\ active' \in Seq(Frame)
           /\ \A q \in Caller, m \in Nat :
                /\ NotAfter(q, m, active, sim_time, next_poll)
                => NotAfter(q, m, active', sim_time', next_poll')
           /\ \A m \in Nat :
                m <= 60 * (at + cost)
                => NotAfter(p, m, active', sim_time', next_poll')
           /\ \A m \in Nat :
                /\ NotAfter(p, m, active, sim_time, next_poll)
                => m <= 60 * at
  <1> DEFINE f == [caller |-> p, until |-> at + cost]
  <1>1. f \in Frame /\ f.caller = p /\ f.until = at + cost
    BY DEF Frame
  <1>2. /\ active \in Seq(Frame) /\ active' = <<f>> \o active
        /\ sim_time' = at /\ next_poll' = next_poll /\ sim_time \in Nat
        /\ next_poll \in [Managed -> Nat]
    BY DEF TypeOK, Begin, Frame
  <1> HIDE DEF f
  <1>3. /\ active' \in Seq(Frame)
        /\ Len(active) \in Nat
        /\ DOMAIN active = 1 .. Len(active)
        /\ Len(active') = Len(active) + 1
        /\ DOMAIN active' = 1 .. Len(active) + 1
        /\ active'[1] = f
        /\ \A i \in 1 .. Len(active) : active'[i + 1] = active[i]
    BY <1>1, <1>2, PushedElements
  <1>4. \A i \in DOMAIN active' :
            i = 1 \/ (i - 1 \in DOMAIN active /\ active'[i] = active[i - 1])
    BY <1>3
  <1>5. \A i \in 1 .. Len(active) : active[i] \in Frame
    BY <1>2, ElementOfSeq
  <1>6. \A i \in 1 .. Len(active) : active[i].until \in Nat
    BY <1>5 DEF Frame
  <1>7. \A i \in DOMAIN active : active[i].caller # p
    <2>1. CASE p = Agent
      BY <1>3, <2>1 DEF Begin
    <2>2. CASE p # Agent
      BY <2>2 DEF Begin
    <2> QED
      BY <2>1, <2>2
  <1>8. active = <<>> <=> Len(active) = 0
    BY <1>2, EmptySeq
  <1>9. StackOK'
    <2>1. ASSUME NEW i \in DOMAIN active', NEW j \in DOMAIN active', i # j
          PROVE  active'[i].caller # active'[j].caller
      <3>1. CASE i = 1
        BY <1>1, <1>3, <1>4, <1>7, <2>1, <3>1
      <3>2. CASE j = 1
        BY <1>1, <1>3, <1>4, <1>7, <2>1, <3>2
      <3>3. CASE i # 1 /\ j # 1
        <4>1. /\ i - 1 \in DOMAIN active /\ active'[i] = active[i - 1]
              /\ j - 1 \in DOMAIN active /\ active'[j] = active[j - 1]
          BY <1>4, <3>3
        <4>2. i - 1 # j - 1
          BY <1>3, <2>1
        <4> QED
          BY <4>1, <4>2 DEF StackOK
      <3> QED
        BY <3>1, <3>2, <3>3
    <2>2. active'[Len(active')].caller = Agent
      <3>1. CASE p = Agent
        BY <1>1, <1>3, <1>8, <3>1 DEF Begin
      <3>2. CASE p # Agent
        BY <1>3, <1>8, <3>2 DEF Begin, StackOK
      <3> QED
        BY <3>1, <3>2
    <2> QED
      BY <2>1, <2>2 DEF StackOK
  <1>10. ASSUME NEW q \in Caller, NEW m \in Nat, q # p,
                NotAfter(q, m, active, sim_time, next_poll)
         PROVE  NotAfter(q, m, active', sim_time', next_poll')
    <2>1. \A i \in DOMAIN active' :
                active'[i].caller = q => m <= 60 * active'[i].until
      BY <1>1, <1>3, <1>4, <1>10 DEF NotAfter
    <2>2. ASSUME \A i \in DOMAIN active' : active'[i].caller # q
          PROVE  m <= 60 * (IF q = Agent THEN sim_time' ELSE next_poll'[q])
      <3>1. \A i \in DOMAIN active : active[i].caller # q
        BY <1>3, <2>2
      <3>2. q # Agent
        BY <1>3, <1>8, <1>9, <2>2 DEF StackOK
      <3> QED
        BY <1>2, <1>10, <3>1, <3>2 DEF NotAfter
    <2> QED
      BY <2>1, <2>2 DEF NotAfter
  <1>11. ASSUME NEW m \in Nat, NotAfter(p, m, active, sim_time, next_poll)
         PROVE  m <= 60 * at
    <2>1. m <= 60 * (IF p = Agent THEN sim_time ELSE next_poll[p])
      BY <1>7, <1>11 DEF NotAfter
    <2>2. CASE p = Agent
      BY <2>1, <2>2 DEF Begin
    <2>3. CASE p # Agent
      <3>1. p \in Managed /\ next_poll[p] \in Nat /\ next_poll[p] <= at
        BY <1>2, <2>3 DEF Begin, Caller
      <3> QED
        BY <2>1, <2>3, <3>1
    <2> QED
      BY <2>2, <2>3
  <1>12. ASSUME NEW m \in Nat, m <= 60 * (at + cost)
         PROVE  NotAfter(p, m, active', sim_time', next_poll')
    <2>1. \A i \in DOMAIN active' : active'[i].caller = p => i = 1
      BY <1>4, <1>7
    <2>2. 1 \in DOMAIN active' /\ active'[1].caller = p
      BY <1>1, <1>3
    <2> QED
      BY <1>1, <1>3, <1>12, <2>1, <2>2 DEF NotAfter
  <1>13. ASSUME NEW q \in Caller, NEW m \in Nat,
                NotAfter(q, m, active, sim_time, next_poll)
         PROVE  NotAfter(q, m, active', sim_time', next_poll')
    <2>1. CASE q # p
      BY <1>10, <1>13, <2>1
    <2>2. CASE q = p
      <3>1. m <= 60 * at /\ 60 * at <= 60 * (at + cost)
        BY <1>11, <1>13, <2>2
      <3>2. m <= 60 * (at + cost)
        BY <3>1
      <3> QED
        BY <1>12, <2>2, <3>2
    <2> QED
      BY <2>1, <2>2
  <1> QED
    BY <1>3, <1>9, <1>11, <1>12, <1>13

\* A call that returns frees its caller at the minute its advance ends.
LEMMA ReturnStack ==
    ASSUME TypeOK, StackOK, CallReturns
    PROVE  /\ StackOK'
           /\ active' \in Seq(Frame)
           /\ sim_time' \in Nat
           /\ Head(active).caller \in Caller
           /\ \A q \in Caller, m \in Nat :
                /\ NotAfter(q, m, active, sim_time, next_poll)
                => NotAfter(q, m, active', sim_time', next_poll')
           /\ \A m \in Nat :
                /\ NotAfter(Head(active).caller, m, active, sim_time, next_poll)
                => m <= 60 * sim_time'
  <1>1. /\ active \in Seq(Frame) /\ active # <<>> /\ active' = Tail(active)
        /\ sim_time' = Head(active).until
        /\ next_poll \in [Managed -> Nat]
        /\ next_poll' = [p \in Managed |-> IF p = Head(active).caller
                                           THEN sim_time' + 1 ELSE next_poll[p]]
    BY DEF TypeOK, CallReturns, Frame
  <1>2. /\ Head(active) = active[1] /\ Head(active) \in Frame
        /\ active' \in Seq(Frame)
        /\ Len(active) \in Nat \ {0}
        /\ DOMAIN active = 1 .. Len(active)
        /\ Len(active') = Len(active) - 1
        /\ DOMAIN active' = 1 .. Len(active) - 1
        /\ \A i \in 1 .. Len(active) - 1 : active'[i] = active[i + 1]
    BY <1>1, PoppedElements
  <1>3. Head(active).caller \in Caller /\ Head(active).until \in Nat
    BY <1>2 DEF Frame
  <1>4. \A i \in DOMAIN active :
            i = 1 \/ (i - 1 \in DOMAIN active' /\ active'[i - 1] = active[i])
    BY <1>2
  <1>5. \A i \in DOMAIN active' : i + 1 \in DOMAIN active /\ i + 1 # 1 /\ 1 \in DOMAIN active
    BY <1>2
  <1>6. active' = <<>> <=> Len(active) = 1
    BY <1>2, EmptySeq
  <1>7. StackOK'
    <2>1. ASSUME NEW i \in DOMAIN active', NEW j \in DOMAIN active', i # j
          PROVE  active'[i].caller # active'[j].caller
      <3>1. i + 1 # j + 1
        BY <1>2, <2>1
      <3> QED
        BY <1>2, <1>5, <3>1 DEF StackOK
    <2>2. ASSUME active' # <<>>
          PROVE  active'[Len(active')].caller = Agent
      BY <1>1, <1>2, <1>6, <2>2 DEF StackOK
    <2> QED
      BY <2>1, <2>2 DEF StackOK
  <1>8. ASSUME NEW q \in Caller, NEW m \in Nat,
               NotAfter(q, m, active, sim_time, next_poll)
        PROVE  NotAfter(q, m, active', sim_time', next_poll')
    <2>1. \A i \in DOMAIN active' :
                active'[i].caller = q => m <= 60 * active'[i].until
      BY <1>2, <1>5, <1>8 DEF NotAfter
    <2>2. ASSUME \A i \in DOMAIN active' : active'[i].caller # q
          PROVE  m <= 60 * (IF q = Agent THEN sim_time' ELSE next_poll'[q])
      <3>1. CASE q = Head(active).caller
        <4>1. m <= 60 * sim_time'
          BY <1>1, <1>2, <1>8, <3>1 DEF NotAfter
        <4>2. CASE q = Agent
          BY <4>1, <4>2
        <4>3. CASE q # Agent
          <5>1. next_poll'[q] = sim_time' + 1
            BY <1>1, <3>1, <4>3 DEF Caller
          <5> QED
            BY <1>1, <1>3, <4>1, <4>3, <5>1
        <4> QED
          BY <4>2, <4>3
      <3>2. CASE q # Head(active).caller
        <4>1. \A i \in DOMAIN active : active[i].caller # q
          BY <1>2, <1>4, <2>2, <3>2
        <4>2. q # Agent
          BY <1>1, <1>2, <4>1 DEF StackOK
        <4>3. next_poll'[q] = next_poll[q]
          BY <1>1, <3>2, <4>2 DEF Caller
        <4> QED
          BY <1>8, <4>1, <4>2, <4>3 DEF NotAfter
      <3> QED
        BY <3>1, <3>2
    <2> QED
      BY <2>1, <2>2 DEF NotAfter
  <1>9. ASSUME NEW m \in Nat,
               NotAfter(Head(active).caller, m, active, sim_time, next_poll)
        PROVE  m <= 60 * sim_time'
    BY <1>1, <1>2, <1>9 DEF NotAfter
  <1> QED
    BY <1>1, <1>2, <1>3, <1>7, <1>8, <1>9

-----------------------------------------------------------------------------
(* What an operation does to the board.                                    *)

\* The price of logged work covers it.
LEMMA LogWorkIsPaid ==
    ASSUME NEW seconds \in Nat \ {0}
    PROVE  CostLogWork(seconds) \in Nat /\ seconds <= 60 * CostLogWork(seconds)
  BY DEF CostLogWork

\* Comments are only ever appended, by the caller and dated by the call.
Commented(p, at, cost) ==
    \A t \in DOMAIN tasks' :
        \/ t \in DOMAIN tasks /\ tasks'[t].comments = tasks[t].comments
        \/ tasks'[t].comments = <<>>
        \/ /\ cost = 1 /\ t \in DOMAIN tasks
           /\ tasks'[t].comments =
                Append(tasks[t].comments, [author |-> p, sim_time |-> at])

\* Every operation is a call that pays for the seconds it logs.
LEMMA OperationEffects ==
    ASSUME TypeOK, NEW p \in Caller, NEW at \in Nat, Operation(p, at)
    PROVE  \E cost \in Nat, seconds \in Nat :
              /\ Begin(p, at, cost)
              /\ seconds <= 60 * cost
              /\ worked' = [worked EXCEPT ![p] = @ + seconds]
              /\ Commented(p, at, cost)
  <1>1. p \in Person /\ worked \in [Person -> Nat]
    BY CallersArePersons DEF TypeOK
  <1>2. worked = [worked EXCEPT ![p] = @ + 0]
    BY <1>1
  <1>3. tasks \in [DOMAIN tasks -> Task]
    BY DEF TypeOK
  <1>5. ASSUME NEW cost \in Costs, OtherCall(p, at, cost)
        PROVE  /\ cost \in Nat /\ Begin(p, at, cost) /\ UNCHANGED worked
               /\ Commented(p, at, cost)
    BY <1>5, ArgumentsAssumption DEF OtherCall, board, Commented
  <1>6. ASSUME NEW t \in TaskId, NEW assignee \in Assignees,
               NEW estimate \in Estimates, NEW deps \in SUBSET TaskId,
               TasksCreate(p, at, t, assignee, estimate, deps)
        PROVE  /\ Begin(p, at, 2) /\ UNCHANGED worked
               /\ Commented(p, at, 2)
    BY <1>3, <1>6 DEF TasksCreate, AddTask, Commented
  <1>7. ASSUME NEW t \in DOMAIN tasks, NEW status \in Moves,
               TasksUpdateStatus(p, at, t, status)
        PROVE  /\ Begin(p, at, 1) /\ UNCHANGED worked
               /\ Commented(p, at, 1)
    BY <1>3, <1>7 DEF TasksUpdateStatus, Change, Commented, Task
  <1>8. ASSUME NEW t \in DOMAIN tasks, NEW assignee \in Assignees,
               TasksAssign(p, at, t, assignee)
        PROVE  /\ Begin(p, at, 1) /\ UNCHANGED worked
               /\ Commented(p, at, 1)
    BY <1>3, <1>8 DEF TasksAssign, Change, Commented, Task
  <1>9. ASSUME NEW t \in DOMAIN tasks, NEW seconds \in Slices,
               TasksLogWork(p, at, t, seconds)
        PROVE  /\ CostLogWork(seconds) \in Nat
               /\ seconds \in Nat /\ seconds <= 60 * CostLogWork(seconds)
               /\ Begin(p, at, CostLogWork(seconds))
               /\ worked' = [worked EXCEPT ![p] = @ + seconds]
               /\ Commented(p, at, CostLogWork(seconds))
    <2>1. seconds \in Nat \ {0}
      BY ArgumentsAssumption
    <2>2. Commented(p, at, CostLogWork(seconds))
      BY <1>3, <1>9 DEF TasksLogWork, Change, Commented, Task
    <2> QED
      BY <1>9, <2>1, <2>2, LogWorkIsPaid DEF TasksLogWork
  <1>10. ASSUME NEW t \in DOMAIN tasks, NEW dep \in TaskId,
                TasksAddDependency(p, at, t, dep)
         PROVE  /\ Begin(p, at, 1) /\ UNCHANGED worked
                /\ Commented(p, at, 1)
    BY <1>3, <1>10 DEF TasksAddDependency, Change, Commented, Task
  <1>11. ASSUME NEW t \in DOMAIN tasks, TasksComment(p, at, t)
         PROVE  /\ Begin(p, at, 1) /\ UNCHANGED worked
                /\ Commented(p, at, 1)
    BY <1>3, <1>11 DEF TasksComment, Change, Commented, Task
  <1> HIDE DEF Commented
  <1>12. ASSUME NEW cost \in Nat, Begin(p, at, cost), UNCHANGED worked,
                Commented(p, at, cost)
         PROVE  \E c \in Nat, seconds \in Nat :
                   /\ Begin(p, at, c)
                   /\ seconds <= 60 * c
                   /\ worked' = [worked EXCEPT ![p] = @ + seconds]
                   /\ Commented(p, at, c)
    <2>1. 0 \in Nat /\ 0 <= 60 * cost
      OBVIOUS
    <2> QED
      BY <1>2, <1>12, <2>1
  <1>13. 1 \in Nat /\ 2 \in Nat
    OBVIOUS
  <1> QED
    BY <1>5, <1>6, <1>7, <1>8, <1>9, <1>10, <1>11, <1>12, <1>13 DEF Operation

\* What the invariants say of one task: its type, that nothing is left of it
\* once it is Done, and that its effort is accounted for.
TaskOK(t, taskmap, came, done) ==
    /\ taskmap[t] \in Task
    /\ came[t] \in Effort
    /\ taskmap[t].status = "Done" =>
            taskmap[t].remaining \in {None} \cup {e \in Int : e <= 0}
    /\ taskmap[t].remaining =
            IF came[t] = None \/ done[t] = 0 THEN came[t]
            ELSE IF came[t] <= done[t] THEN 0 ELSE came[t] - done[t]

\* The board as a whole: its tasks, and dependencies that resolve.
BoardOK ==
    /\ DOMAIN tasks \subseteq TaskId
    /\ tasks = [t \in DOMAIN tasks |-> tasks[t]]
    /\ effort = [t \in DOMAIN tasks |-> effort[t]]
    /\ logged \in [TaskId -> Nat]
    /\ \A t \in TaskId \ DOMAIN tasks : logged[t] = 0
    /\ \A t \in DOMAIN tasks : TaskOK(t, tasks, effort, logged)
    /\ DependenciesResolve

\* The parts of the board that an operation on task t leaves as they are.
OnlyTask(t) ==
    /\ DOMAIN tasks' = DOMAIN tasks
    /\ tasks' = [u \in DOMAIN tasks' |-> tasks'[u]]
    /\ UNCHANGED effort
    /\ logged' \in [TaskId -> Nat]
    /\ \A u \in DOMAIN tasks \ {t} : tasks'[u] = tasks[u]
    /\ \A u \in TaskId \ {t} : logged'[u] = logged[u]

\* It suffices to look at the task an operation is about.
LEMMA OneTaskChanges ==
    ASSUME BoardOK, NEW t \in DOMAIN tasks, OnlyTask(t),
           TaskOK(t, tasks', effort', logged'),
           tasks'[t].depends_on \subseteq DOMAIN tasks \ {t}
    PROVE  BoardOK'
  <1>1. \A u \in DOMAIN tasks' : TaskOK(u, tasks', effort', logged')
    <2>1. \A u \in DOMAIN tasks \ {t} :
              TaskOK(u, tasks, effort, logged) => TaskOK(u, tasks', effort', logged')
      BY DEF OnlyTask, TaskOK, BoardOK
    <2> QED
      BY <2>1 DEF OnlyTask, BoardOK
  <1>2. DependenciesResolve'
    BY DEF OnlyTask, BoardOK, DependenciesResolve
  <1>3. /\ DOMAIN tasks' \subseteq TaskId
        /\ tasks' = [u \in DOMAIN tasks' |-> tasks'[u]]
        /\ effort' = [u \in DOMAIN tasks' |-> effort'[u]]
        /\ logged' \in [TaskId -> Nat]
        /\ \A u \in TaskId \ DOMAIN tasks' : logged'[u] = 0
    BY DEF OnlyTask, BoardOK
  <1> QED
    BY <1>1, <1>2, <1>3 DEF BoardOK

\* A change of one field of one task.
LEMMA ChangeOneTask ==
    ASSUME BoardOK, NEW t \in DOMAIN tasks, NEW task, Change(t, task),
           UNCHANGED <<effort, logged>>
    PROVE  OnlyTask(t) /\ tasks'[t] = task
  BY DEF BoardOK, OnlyTask, Change

\* Every operation keeps the board in order.
LEMMA OperationBoard ==
    ASSUME BoardOK, NEW p \in Caller, NEW at \in Nat, Operation(p, at)
    PROVE  BoardOK'
  <1>1. ASSUME NEW cost \in Costs, OtherCall(p, at, cost)
        PROVE  BoardOK'
    BY <1>1 DEF OtherCall, board, BoardOK, DependenciesResolve, TaskOK
  <1>2. ASSUME NEW t \in TaskId, NEW assignee \in Assignees,
               NEW estimate \in Estimates, NEW deps \in SUBSET TaskId,
               TasksCreate(p, at, t, assignee, estimate, deps)
        PROVE  BoardOK'
    <2> DEFINE task == [status |-> "Backlog", assignee |-> assignee,
                        remaining |-> estimate, depends_on |-> deps,
                        comments |-> <<>>]
    <2>1. task \in Task /\ estimate \in Effort
      <3>1. <<>> \in Seq([author : Caller, sim_time : Nat])
        BY EmptySeq
      <3>2. assignee \in Assignee
        BY <1>2 DEF TasksCreate, MayBeAssigned, Assignee
      <3> QED
        BY <3>1, <3>2, ArgumentsAssumption DEF Task, Status
    <2>2. /\ DOMAIN tasks' = DOMAIN tasks \cup {t} /\ t \notin DOMAIN tasks
          /\ tasks' = [u \in DOMAIN tasks' |-> tasks'[u]]
          /\ effort' = [u \in DOMAIN tasks' |-> effort'[u]]
          /\ logged' = logged
          /\ tasks'[t] = task /\ effort'[t] = estimate
          /\ \A u \in DOMAIN tasks : tasks'[u] = tasks[u] /\ effort'[u] = effort[u]
          /\ deps \subseteq DOMAIN tasks
      BY <1>2 DEF TasksCreate, AddTask
    <2>3. task.status = "Backlog" /\ task.remaining = estimate /\ task.depends_on = deps
      OBVIOUS
    <2> HIDE DEF task
    <2>4. logged[t] = 0
      BY <2>2 DEF BoardOK
    <2>5. TaskOK(t, tasks', effort', logged')
      BY <2>1, <2>2, <2>3, <2>4 DEF TaskOK
    <2>6. \A u \in DOMAIN tasks : TaskOK(u, tasks', effort', logged')
      BY <2>2 DEF TaskOK, BoardOK
    <2>7. DependenciesResolve'
      BY <2>2, <2>3 DEF BoardOK, DependenciesResolve
    <2> QED
      BY <2>2, <2>5, <2>6, <2>7 DEF BoardOK
  <1>3. \A t \in DOMAIN tasks :
            /\ tasks[t] \in Task /\ tasks[t].depends_on \subseteq DOMAIN tasks \ {t}
            /\ TaskOK(t, tasks, effort, logged) /\ t \in TaskId
    BY DEF BoardOK, TaskOK, DependenciesResolve
  <1>4. ASSUME NEW t \in DOMAIN tasks, NEW status \in Moves,
               TasksUpdateStatus(p, at, t, status)
        PROVE  BoardOK'
    <2> DEFINE task == [tasks[t] EXCEPT !.status = status]
    <2>1. OnlyTask(t) /\ tasks'[t] = task /\ UNCHANGED <<effort, logged>>
      BY <1>4, ChangeOneTask DEF TasksUpdateStatus
    <2>2. /\ task \in Task /\ task.status = status
          /\ task.remaining = tasks[t].remaining
          /\ task.depends_on = tasks[t].depends_on
      <3>1. tasks[t] \in Task /\ status \in Status
        BY <1>3, ArgumentsAssumption
      <3> QED
        BY <3>1 DEF Task
    <2> HIDE DEF task
    <2>3. TaskOK(t, tasks', effort', logged')
      BY <1>3, <1>4, <2>1, <2>2 DEF TaskOK, TasksUpdateStatus
    <2> QED
      BY <1>3, <2>1, <2>2, <2>3, OneTaskChanges
  <1>5. ASSUME NEW t \in DOMAIN tasks, NEW assignee \in Assignees,
               TasksAssign(p, at, t, assignee)
        PROVE  BoardOK'
    <2> DEFINE task == [tasks[t] EXCEPT !.assignee = assignee]
    <2>1. OnlyTask(t) /\ tasks'[t] = task /\ UNCHANGED <<effort, logged>>
      BY <1>5, ChangeOneTask DEF TasksAssign
    <2>2. /\ task \in Task /\ task.status = tasks[t].status
          /\ task.remaining = tasks[t].remaining
          /\ task.depends_on = tasks[t].depends_on
      <3>1. tasks[t] \in Task /\ assignee \in Assignee
        BY <1>3, <1>5 DEF TasksAssign, MayBeAssigned, Assignee
      <3> QED
        BY <3>1 DEF Task
    <2> HIDE DEF task
    <2>3. TaskOK(t, tasks', effort', logged')
      BY <1>3, <2>1, <2>2 DEF TaskOK
    <2> QED
      BY <1>3, <2>1, <2>2, <2>3, OneTaskChanges
  <1>6. ASSUME NEW t \in DOMAIN tasks, NEW seconds \in Slices,
               TasksLogWork(p, at, t, seconds)
        PROVE  BoardOK'
    <2> DEFINE task == [tasks[t] EXCEPT !.remaining = Decremented(@, seconds)]
    <2>1. /\ seconds \in Nat \ {0} /\ tasks[t].remaining \in Int
          /\ tasks'[t] = task /\ effort' = effort
          /\ logged' = [logged EXCEPT ![t] = @ + seconds]
          /\ logged \in [TaskId -> Nat] /\ logged[t] \in Nat
      BY <1>3, <1>6, ArgumentsAssumption
      DEF TasksLogWork, Change, BoardOK, Task, Effort
    <2>2. OnlyTask(t) /\ logged'[t] = logged[t] + seconds
      <3>1. /\ t \in TaskId /\ logged' \in [TaskId -> Nat]
            /\ logged'[t] = logged[t] + seconds
            /\ \A u \in TaskId \ {t} : logged'[u] = logged[u]
        BY <1>3, <2>1
      <3>2. /\ DOMAIN tasks' = DOMAIN tasks
            /\ tasks' = [u \in DOMAIN tasks' |-> tasks'[u]]
            /\ \A u \in DOMAIN tasks \ {t} : tasks'[u] = tasks[u]
        BY <1>6 DEF TasksLogWork, Change, BoardOK
      <3> QED
        BY <2>1, <3>1, <3>2 DEF OnlyTask
    <2>3. /\ task \in Task /\ task.status = tasks[t].status
          /\ task.remaining = Decremented(tasks[t].remaining, seconds)
          /\ task.depends_on = tasks[t].depends_on
      <3>1. tasks[t] \in Task /\ Decremented(tasks[t].remaining, seconds) \in Effort
        BY <1>3, <2>1 DEF Decremented, Effort
      <3> QED
        BY <3>1 DEF Task
    <2> HIDE DEF task
    <2>4. TaskOK(t, tasks, effort, logged) /\ effort[t] \in Effort
      BY <1>3 DEF TaskOK
    <2>5. effort[t] \in Int
      BY <2>1, <2>4, NoneAssumption DEF TaskOK, Effort
    <2>6. task.status = "Done" => task.remaining \in {e \in Int : e <= 0}
      BY <2>1, <2>3, <2>4, NoneAssumption DEF TaskOK, Decremented
    <2>7. task.remaining = IF effort[t] <= logged'[t] THEN 0
                           ELSE effort[t] - logged'[t]
      BY <2>1, <2>2, <2>3, <2>4, <2>5, NoneAssumption DEF TaskOK, Decremented
    <2>8. TaskOK(t, tasks', effort', logged')
      BY <2>1, <2>2, <2>3, <2>4, <2>5, <2>6, <2>7, NoneAssumption DEF TaskOK
    <2> QED
      BY <1>3, <2>1, <2>2, <2>3, <2>8, OneTaskChanges
  <1>7. ASSUME NEW t \in DOMAIN tasks, NEW dep \in TaskId,
               TasksAddDependency(p, at, t, dep)
        PROVE  BoardOK'
    <2> DEFINE task == [tasks[t] EXCEPT !.depends_on = @ \cup {dep}]
    <2>1. /\ OnlyTask(t) /\ tasks'[t] = task /\ UNCHANGED <<effort, logged>>
          /\ dep \in DOMAIN tasks \ {t}
      BY <1>7, ChangeOneTask DEF TasksAddDependency
    <2>2. /\ task \in Task /\ task.status = tasks[t].status
          /\ task.remaining = tasks[t].remaining
          /\ task.depends_on = tasks[t].depends_on \cup {dep}
      <3>1. tasks[t] \in Task
        BY <1>3
      <3>2. tasks[t].depends_on \cup {dep} \in SUBSET TaskId
        BY <3>1 DEF Task
      <3> QED
        BY <3>1, <3>2 DEF Task
    <2> HIDE DEF task
    <2>3. TaskOK(t, tasks', effort', logged')
      BY <1>3, <2>1, <2>2 DEF TaskOK
    <2> QED
      BY <1>3, <2>1, <2>2, <2>3, OneTaskChanges
  <1>8. ASSUME NEW t \in DOMAIN tasks, TasksComment(p, at, t)
        PROVE  BoardOK'
    <2> DEFINE c == [author |-> p, sim_time |-> at]
               task == [tasks[t] EXCEPT !.comments = Append(@, c)]
    <2>1. OnlyTask(t) /\ tasks'[t] = task /\ UNCHANGED <<effort, logged>>
      BY <1>8, ChangeOneTask DEF TasksComment
    <2>2. tasks[t].comments \in Seq(Comment) /\ c \in Comment
      BY <1>3 DEF Task, Comment
    <2>3. Append(tasks[t].comments, c) \in Seq(Comment)
      BY <2>2, AppendProperties
    <2>4. /\ task \in Task /\ task.status = tasks[t].status
          /\ task.remaining = tasks[t].remaining
          /\ task.depends_on = tasks[t].depends_on
      <3>1. tasks[t] \in Task
        BY <1>3
      <3>2. Append(tasks[t].comments, c) \in Seq([author : Caller, sim_time : Nat])
        BY <2>3 DEF Comment
      <3> QED
        BY <3>1, <3>2 DEF Task
    <2> HIDE DEF task
    <2>5. TaskOK(t, tasks', effort', logged')
      BY <1>3, <2>1, <2>4 DEF TaskOK
    <2> QED
      BY <1>3, <2>1, <2>4, <2>5, OneTaskChanges
  <1> QED
    BY <1>1, <1>2, <1>4, <1>5, <1>6, <1>7, <1>8 DEF Operation

-----------------------------------------------------------------------------
(* The invariant.                                                          *)

\* Nobody has logged more than the minutes until they are free again.
Paid == \A p \in Caller : NotAfter(p, worked[p], active, sim_time, next_poll)

\* Nobody has commented at or after the minute they are free again.
CommentsPast ==
    \A t \in DOMAIN tasks : \A i \in DOMAIN tasks[t].comments :
        NotAfter(tasks[t].comments[i].author,
                 60 * tasks[t].comments[i].sim_time + 60,
                 active, sim_time, next_poll)

Inv == /\ TypeOK /\ StackOK /\ BoardOK
       /\ Paid /\ CommentsPast /\ CommentsInOrder

\* The comments of a task are comments.
LEMMA CommentTypes ==
    ASSUME TypeOK, NEW t \in DOMAIN tasks
    PROVE  /\ tasks[t].comments \in Seq(Comment)
           /\ DOMAIN tasks[t].comments = 1 .. Len(tasks[t].comments)
           /\ Len(tasks[t].comments) \in Nat
           /\ \A i \in DOMAIN tasks[t].comments :
                /\ tasks[t].comments[i].author \in Caller
                /\ tasks[t].comments[i].sim_time \in Nat
  <1>1. tasks[t].comments \in Seq(Comment)
    BY DEF TypeOK, Task, Comment
  <1>2. \A i \in 1 .. Len(tasks[t].comments) : tasks[t].comments[i] \in Comment
    BY <1>1, ElementOfSeq
  <1> QED
    BY <1>1, <1>2, LenProperties DEF Comment

\* A board in order is of the right type.
LEMMA BoardType ==
    ASSUME BoardOK
    PROVE  /\ DOMAIN tasks \subseteq TaskId /\ tasks \in [DOMAIN tasks -> Task]
           /\ effort \in [DOMAIN tasks -> Effort] /\ logged \in [TaskId -> Nat]
  BY DEF BoardOK, TaskOK

\* The seed makes the invariant hold.
LEMMA InvInit == Init => Inv
  <1> SUFFICES ASSUME Init
               PROVE  Inv
    OBVIOUS
  <1>1. /\ DOMAIN tasks = DOMAIN Seed /\ DOMAIN Seed \subseteq TaskId
        /\ DOMAIN active = {} /\ active = <<>>
    BY SeedAssumption DEF Init
  <1>2. ASSUME NEW t \in DOMAIN tasks
        PROVE  /\ tasks[t].comments = <<>> /\ DOMAIN tasks[t].comments = {}
               /\ TaskOK(t, tasks, effort, logged)
               /\ tasks[t].depends_on \subseteq DOMAIN tasks \ {t}
    <2>1. /\ Seed[t] \in SeedTask
          /\ Seed[t].depends_on \subseteq DOMAIN Seed \ {t}
          /\ Seed[t].status = "Done" =>
                LoadedRemaining(Seed[t]) \in {None} \cup {e \in Int : e <= 0}
      BY <1>1, SeedAssumption
    <2>2. <<>> \in Seq([author : Caller, sim_time : Nat])
      BY EmptySeq
    <2>3. LoadedRemaining(Seed[t]) \in Effort
      BY <2>1 DEF LoadedRemaining, SeedTask
    <2>4. /\ Seed[t].status \in Status /\ Seed[t].assignee \in Assignee
          /\ Seed[t].depends_on \in SUBSET TaskId
      BY <2>1 DEF SeedTask
    <2>5. /\ tasks[t] = [status |-> Seed[t].status, assignee |-> Seed[t].assignee,
                         remaining |-> LoadedRemaining(Seed[t]),
                         depends_on |-> Seed[t].depends_on, comments |-> <<>>]
          /\ effort[t] = LoadedRemaining(Seed[t]) /\ logged[t] = 0
      BY <1>1 DEF Init
    <2>6. tasks[t] \in Task
      BY <2>2, <2>3, <2>4, <2>5 DEF Task
    <2>7. TaskOK(t, tasks, effort, logged)
      BY <2>1, <2>3, <2>5, <2>6 DEF TaskOK
    <2> QED
      BY <1>1, <2>1, <2>5, <2>7
  <1>3. BoardOK
    BY <1>1, <1>2 DEF Init, BoardOK, DependenciesResolve
  <1>4. TypeOK
    <2>1. active \in Seq([caller : Caller, until : Nat])
      BY <1>1, EmptySeq
    <2> QED
      BY <1>3, <2>1, BoardType DEF Init, TypeOK
  <1>5. StackOK
    BY <1>1 DEF StackOK
  <1>6. Paid
    BY <1>1, CallersArePersons DEF Init, Paid, NotAfter, Caller
  <1>7. CommentsPast /\ CommentsInOrder
    BY <1>2 DEF CommentsPast, CommentsInOrder
  <1> QED
    BY <1>3, <1>4, <1>5, <1>6, <1>7 DEF Inv

\* Comments stay in order, and before the moment their author is free again.
LEMMA CommentsStep ==
    ASSUME Inv, NEW p \in Caller, NEW at \in Nat, NEW cost \in Nat,
           Begin(p, at, cost), Commented(p, at, cost)
    PROVE  CommentsPast' /\ CommentsInOrder'
  <1>1. TypeOK /\ StackOK /\ CommentsPast /\ CommentsInOrder
    BY DEF Inv
  <1>2. /\ \A q \in Caller, m \in Nat :
                /\ NotAfter(q, m, active, sim_time, next_poll)
                => NotAfter(q, m, active', sim_time', next_poll')
        /\ \A m \in Nat :
                m <= 60 * (at + cost)
                => NotAfter(p, m, active', sim_time', next_poll')
        /\ \A m \in Nat :
                /\ NotAfter(p, m, active, sim_time, next_poll)
                => m <= 60 * at
    BY <1>1, BeginStack
  <1> DEFINE Kept(t) == \A i \in DOMAIN tasks[t].comments :
                    /\ NotAfter(tasks[t].comments[i].author,
                                60 * tasks[t].comments[i].sim_time + 60,
                                active', sim_time', next_poll')
                    /\ tasks[t].comments[i].author = p
                            => tasks[t].comments[i].sim_time < at
  <1>3. ASSUME NEW t \in DOMAIN tasks
        PROVE  Kept(t)
    <2>1. ASSUME NEW i \in DOMAIN tasks[t].comments
          PROVE  /\ NotAfter(tasks[t].comments[i].author,
                             60 * tasks[t].comments[i].sim_time + 60,
                             active', sim_time', next_poll')
                 /\ tasks[t].comments[i].author = p
                        => tasks[t].comments[i].sim_time < at
      <3>1. /\ tasks[t].comments[i].author \in Caller
            /\ tasks[t].comments[i].sim_time \in Nat
            /\ 60 * tasks[t].comments[i].sim_time + 60 \in Nat
        BY <1>1, CommentTypes
      <3>2. NotAfter(tasks[t].comments[i].author,
                     60 * tasks[t].comments[i].sim_time + 60,
                     active, sim_time, next_poll)
        BY <1>1 DEF CommentsPast
      <3>3. tasks[t].comments[i].author = p =>
                60 * tasks[t].comments[i].sim_time + 60 <= 60 * at
        BY <1>2, <3>1, <3>2
      <3> QED
        BY <1>2, <3>1, <3>2, <3>3
    <2> QED
      BY <2>1
  <1>4. cost = 1 => NotAfter(p, 60 * at + 60, active', sim_time', next_poll')
    BY <1>2
  <1>5. ASSUME NEW t \in DOMAIN tasks'
        PROVE  /\ \A i \in DOMAIN tasks'[t].comments :
                    NotAfter(tasks'[t].comments[i].author,
                             60 * tasks'[t].comments[i].sim_time + 60,
                             active', sim_time', next_poll')
               /\ \A i, j \in DOMAIN tasks'[t].comments :
                    i < j /\ tasks'[t].comments[i].author = tasks'[t].comments[j].author
                    => tasks'[t].comments[i].sim_time < tasks'[t].comments[j].sim_time
    <2> DEFINE old == tasks[t].comments
               new == tasks'[t].comments
               c == [author |-> p, sim_time |-> at]
    <2>1. CASE t \in DOMAIN tasks /\ new = old
      BY <1>1, <1>3, <2>1 DEF CommentsInOrder
    <2>2. CASE new = <<>>
      BY <2>2
    <2>3. CASE cost = 1 /\ t \in DOMAIN tasks /\ new = Append(old, c)
      <3>1. old \in Seq(Comment) /\ c \in Comment
        BY <1>1, <2>3, CommentTypes DEF Comment
      <3>2. c.author = p /\ c.sim_time = at
        OBVIOUS
      <3>3. /\ \A i \in DOMAIN old :
                  /\ NotAfter(old[i].author, 60 * old[i].sim_time + 60,
                              active', sim_time', next_poll')
                  /\ old[i].author = p => old[i].sim_time < at
            /\ \A i, j \in DOMAIN old :
                  i < j /\ old[i].author = old[j].author
                  => old[i].sim_time < old[j].sim_time
        BY <1>1, <1>3, <2>3 DEF CommentsInOrder
      <3> HIDE DEF c, old
      <3>4. /\ Len(old) \in Nat
            /\ DOMAIN old = 1 .. Len(old)
            /\ DOMAIN new = 1 .. Len(old) + 1
            /\ \A i \in 1 .. Len(old) : new[i] = old[i]
            /\ new[Len(old) + 1] = c
        BY <2>3, <3>1, AppendedElements
      <3> HIDE DEF new
      <3>5. \A i \in DOMAIN new : i \in DOMAIN old \/ i = Len(old) + 1
        BY <3>4
      <3>6. \A i \in DOMAIN new :
                NotAfter(new[i].author, 60 * new[i].sim_time + 60,
                         active', sim_time', next_poll')
        BY <1>4, <2>3, <3>2, <3>3, <3>4, <3>5
      <3>7. ASSUME NEW i \in DOMAIN new, NEW j \in DOMAIN new,
                   i < j, new[i].author = new[j].author
            PROVE  new[i].sim_time < new[j].sim_time
        <4>1. i \in DOMAIN old
          BY <3>4, <3>7
        <4>2. CASE j \in DOMAIN old
          BY <3>3, <3>4, <3>7, <4>1, <4>2
        <4>3. CASE j = Len(old) + 1
          BY <3>2, <3>3, <3>4, <3>7, <4>1, <4>3
        <4> QED
          BY <3>5, <4>2, <4>3
      <3> QED
        BY <3>6, <3>7 DEF new
    <2> QED
      BY <2>1, <2>2, <2>3 DEF Commented
  <1> QED
    BY <1>5 DEF CommentsPast, CommentsInOrder

\* Every step keeps the invariant.
LEMMA InvStep == Inv /\ [Next]_vars => Inv'
  <1> SUFFICES ASSUME Inv, [Next]_vars
               PROVE  Inv'
    OBVIOUS
  <1>1. TypeOK /\ StackOK /\ BoardOK /\ Paid /\ CommentsPast /\ CommentsInOrder
    BY DEF Inv
  <1>2. ASSUME NEW p \in Caller, NEW at \in 0 .. MaxTime, Operation(p, at)
        PROVE  Inv'
    <2>1. at \in Nat
      BY ArgumentsAssumption
    <2>2. PICK cost \in Nat, seconds \in Nat :
              /\ Begin(p, at, cost)
              /\ seconds <= 60 * cost
              /\ worked' = [worked EXCEPT ![p] = @ + seconds]
              /\ Commented(p, at, cost)
      BY <1>1, <1>2, <2>1, OperationEffects
    <2>3. BoardOK'
      BY <1>1, <1>2, <2>1, OperationBoard
    <2>4. CommentsPast' /\ CommentsInOrder'
      BY <2>1, <2>2, CommentsStep
    <2>5. /\ StackOK' /\ active' \in Seq(Frame)
          /\ \A q \in Caller, m \in Nat :
                /\ NotAfter(q, m, active, sim_time, next_poll)
                => NotAfter(q, m, active', sim_time', next_poll')
          /\ \A m \in Nat :
                m <= 60 * (at + cost)
                => NotAfter(p, m, active', sim_time', next_poll')
          /\ \A m \in Nat :
                /\ NotAfter(p, m, active, sim_time, next_poll)
                => m <= 60 * at
      BY <1>1, <2>1, <2>2, BeginStack
    <2>6. worked \in [Person -> Nat] /\ worked' \in [Person -> Nat]
      BY <1>1, <2>2, CallersArePersons DEF TypeOK
    <2>7. Paid'
      <3>1. ASSUME NEW q \in Caller
            PROVE  NotAfter(q, worked'[q], active', sim_time', next_poll')
        <4>1. NotAfter(q, worked[q], active, sim_time, next_poll) /\ worked[q] \in Nat
          BY <1>1, <2>6, CallersArePersons DEF Paid
        <4>2. CASE q # p
          <5>1. worked'[q] = worked[q]
            BY <2>2, <2>6, <4>2, CallersArePersons
          <5> QED
            BY <2>5, <4>1, <5>1
        <4>3. CASE q = p
          <5>1. worked'[p] = worked[p] + seconds /\ worked'[p] \in Nat
            BY <2>2, <2>6, CallersArePersons
          <5>2. worked[p] <= 60 * at
            BY <2>5, <4>1, <4>3
          <5>3. worked'[p] <= 60 * (at + cost)
            BY <2>1, <2>2, <4>1, <4>3, <5>1, <5>2
          <5> QED
            BY <2>5, <4>3, <5>1, <5>3
        <4> QED
          BY <4>2, <4>3
      <3> QED
        BY <3>1 DEF Paid
    <2>8. TypeOK'
      <3>1. sim_time' \in Nat /\ next_poll' \in [Managed -> Nat]
        BY <1>1, <2>1, <2>2 DEF TypeOK, Begin
      <3>2. active' \in Seq([caller : Caller, until : Nat])
        BY <2>5 DEF Frame
      <3>3. /\ DOMAIN tasks' \subseteq TaskId /\ tasks' \in [DOMAIN tasks' -> Task]
            /\ effort' \in [DOMAIN tasks' -> Effort] /\ logged' \in [TaskId -> Nat]
        BY <2>3 DEF BoardOK, TaskOK
      <3> QED
        BY <2>6, <3>1, <3>2, <3>3 DEF TypeOK
    <2> QED
      BY <2>3, <2>4, <2>5, <2>7, <2>8 DEF Inv
  <1>3. ASSUME CallReturns
        PROVE  Inv'
    <2>1. /\ StackOK' /\ active' \in Seq(Frame) /\ sim_time' \in Nat
          /\ \A q \in Caller, m \in Nat :
                /\ NotAfter(q, m, active, sim_time, next_poll)
                => NotAfter(q, m, active', sim_time', next_poll')
      BY <1>1, <1>3, ReturnStack
    <2>2. UNCHANGED <<tasks, effort, logged, worked>>
      BY <1>3 DEF CallReturns, board
    <2>3. BoardOK' /\ CommentsInOrder'
      BY <1>1, <2>2 DEF BoardOK, DependenciesResolve, TaskOK, CommentsInOrder
    <2>4. Paid'
      <3>1. \A q \in Caller : worked[q] \in Nat
        BY <1>1, CallersArePersons DEF TypeOK
      <3> QED
        BY <1>1, <2>1, <2>2, <3>1 DEF Paid
    <2>5. CommentsPast'
      <3>1. ASSUME NEW t \in DOMAIN tasks, NEW i \in DOMAIN tasks[t].comments
            PROVE  NotAfter(tasks[t].comments[i].author,
                            60 * tasks[t].comments[i].sim_time + 60,
                            active', sim_time', next_poll')
        <4>1. /\ tasks[t].comments[i].author \in Caller
              /\ 60 * tasks[t].comments[i].sim_time + 60 \in Nat
          BY <1>1, CommentTypes
        <4> QED
          BY <1>1, <2>1, <4>1 DEF CommentsPast
      <3> QED
        BY <2>2, <3>1 DEF CommentsPast
    <2>6. TypeOK'
      <3>1. active' \in Seq([caller : Caller, until : Nat])
        BY <2>1 DEF Frame
      <3>2. next_poll' \in [Managed -> Nat]
        BY <1>1, <1>3, <2>1 DEF TypeOK, CallReturns
      <3> QED
        BY <1>1, <2>1, <2>2, <3>1, <3>2 DEF TypeOK
    <2> QED
      BY <2>1, <2>3, <2>4, <2>5, <2>6 DEF Inv
  <1>4. CASE UNCHANGED vars
    BY <1>1, <1>4 DEF vars, Inv, TypeOK, StackOK, BoardOK, DependenciesResolve,
                      TaskOK, Paid, CommentsPast, CommentsInOrder
  <1> QED
    BY <1>2, <1>3, <1>4 DEF Next

-----------------------------------------------------------------------------
(* The theorems.                                                           *)

\* The invariant holds in every state of every run.
THEOREM Invariance == Spec => []Inv
  BY InvInit, InvStep, PTL DEF Spec

\* The board and its history keep their types.
THEOREM TypeCorrect == Spec => []TypeOK
  <1>1. Inv => TypeOK
    BY DEF Inv
  <1> QED
    BY <1>1, Invariance, PTL

\* Nothing is Done before everybody together logged the effort it came with.
THEOREM DoneTasksAreEarned == Spec => []DoneIsEarned
  <1>1. Inv => DoneIsEarned
    BY NoneAssumption DEF Inv, BoardOK, TaskOK, DoneIsEarned, Effort
  <1> QED
    BY <1>1, Invariance, PTL

\* What remains of a task is what it came with less what was logged on it.
THEOREM EffortIsAccountedFor == Spec => []EffortBooks
  <1>1. Inv => EffortBooks
    BY DEF Inv, BoardOK, TaskOK, EffortBooks
  <1> QED
    BY <1>1, Invariance, PTL

\* Dependencies lead to other tasks of the board, whatever is created.
THEOREM DependenciesAreKnown == Spec => []DependenciesResolve
  <1>1. Inv => DependenciesResolve
    BY DEF Inv, BoardOK
  <1> QED
    BY <1>1, Invariance, PTL

\* The comments of one author stand in the order of their minutes.
THEOREM AuthorsCommentInOrder == Spec => []CommentsInOrder
  <1>1. Inv => CommentsInOrder
    BY DEF Inv
  <1> QED
    BY <1>1, Invariance, PTL

\* Work takes the time it claims: when a call returns, its caller has logged
\* no more seconds than the clock has counted.
THEOREM NobodyWillsWorkDone == Spec => WorkTakesTime
  <1>1. ASSUME Inv, Next, active # <<>>, active' = Tail(active)
        PROVE  worked[Head(active).caller] <= 60 * sim_time'
    <2>1. TypeOK /\ StackOK /\ Paid
      BY <1>1 DEF Inv
    <2>2. CallReturns
      <3>1. ASSUME NEW p \in Caller, NEW at \in 0 .. MaxTime, Operation(p, at)
            PROVE  FALSE
        <4>1. at \in Nat
          BY ArgumentsAssumption
        <4>2. PICK cost \in Nat : Begin(p, at, cost)
          BY <2>1, <3>1, <4>1, OperationEffects
        <4>3. /\ active \in Seq(Frame) /\ [caller |-> p, until |-> at + cost] \in Frame
              /\ active' = <<[caller |-> p, until |-> at + cost]>> \o active
          BY <2>1, <4>1, <4>2 DEF TypeOK, Begin, Frame
        <4>4. Len(active') = Len(active) + 1 /\ Len(active) \in Nat
          BY <4>3, PushedElements
        <4>5. Len(Tail(active)) = Len(active) - 1
          BY <1>1, <4>3, PoppedElements
        <4> QED
          BY <1>1, <4>4, <4>5
      <3> QED
        BY <1>1, <3>1 DEF Next
    <2>3. /\ Head(active).caller \in Caller
          /\ \A m \in Nat :
                /\ NotAfter(Head(active).caller, m, active, sim_time, next_poll)
                => m <= 60 * sim_time'
      BY <2>1, <2>2, ReturnStack
    <2>4. worked[Head(active).caller] \in Nat
      BY <2>1, <2>3, CallersArePersons DEF TypeOK
    <2> QED
      BY <2>1, <2>3, <2>4 DEF Paid
  <1>2. Inv /\ [Next]_vars =>
            [active # <<>> /\ active' = Tail(active) =>
                worked[Head(active).caller] <= 60 * sim_time']_vars
    BY <1>1
  <1> QED
    BY <1>2, Invariance, PTL DEF Spec, WorkTakesTime
=============================================================================
