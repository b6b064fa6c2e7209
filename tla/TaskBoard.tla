----------------------------- MODULE TaskBoard -----------------------------
(***************************************************************************)
(* The task board (tools/tasks.py over World.tasks): every operation that  *)
(* changes it, called by the agent and, from poll handlers that run inside *)
(* the agent's and each other's calls, by the NPCs.  A call acts at once   *)
(* and pays afterwards, with the minutes its registry advances the clock.  *)
(***************************************************************************)
EXTENDS Integers, Sequences

CONSTANTS Agent,      \* world.agent_id
          Managed,    \* the NPCs with a policy
          Person,     \* world.people
          TaskId,     \* ids of the seed and ids tasks.create may choose
          None,       \* Python's None
          Empty,      \* the empty string
          Seed,       \* tasks.yaml: a function from ids to SeedTask records
          Moves,      \* tasks.update_status arguments: statuses
          Assignees,  \* tasks.create and tasks.assign arguments: any string, None
          Estimates,  \* tasks.create arguments: estimated_effort_seconds
          Slices,     \* tasks.log_work arguments: seconds
          Costs,      \* minutes of the calls that leave the board alone
          MaxTime     \* bound: no call is paid beyond this minute

Status == {"Backlog", "Todo", "In Progress", "Blocked", "In Review", "Done"}

Effort == Int \cup {None}

\* Nobody is written as None or, since the handlers ask whether the id is
\* truthy, as an empty string, which is stored as it is given.
Nobody == {None, Empty}
Assignee == Person \cup Nobody

SeedTask == [status : Status, estimate : Effort, remaining : Effort,
             depends_on : SUBSET TaskId, assignee : Assignee]

\* _load_seed_tasks: `remaining or estimate`, so a remaining 0 counts as unset.
LoadedRemaining(seed) ==
    IF seed.remaining \in {None, 0} THEN seed.estimate ELSE seed.remaining

ASSUME PeopleAssumption ==
    Agent \in Person /\ Managed \subseteq Person \ {Agent} /\ None \notin Person
ASSUME NoneAssumption == None \notin Int
ASSUME ArgumentsAssumption ==
    /\ Moves \subseteq Status
    /\ Estimates \subseteq Effort /\ Slices \subseteq Nat \ {0}
    /\ Costs \subseteq Nat /\ MaxTime \in Nat

\* What lint.py and the shipped scenarios grant: dependencies resolve, and a
\* task that starts out Done has no effort left once it is loaded.
ASSUME SeedAssumption ==
    /\ DOMAIN Seed \subseteq TaskId
    /\ \A t \in DOMAIN Seed :
          /\ Seed[t] \in SeedTask
          /\ Seed[t].depends_on \subseteq DOMAIN Seed \ {t}
          /\ Seed[t].status = "Done" =>
                LoadedRemaining(Seed[t]) \in {None} \cup {e \in Int : e <= 0}

VARIABLES sim_time,   \* Scheduler.sim_time
          active,     \* calls in progress, innermost first: who, paid until when
          next_poll,  \* the earliest minute of an NPC's next poll
          tasks,      \* World.tasks
          effort,     \* history: the remaining effort a task came with
          logged,     \* history: seconds logged on a task in this run
          worked      \* history: seconds a person logged in this run

vars == <<sim_time, active, next_poll, tasks, effort, logged, worked>>
board == <<tasks, effort, logged, worked>>

Init ==
    /\ sim_time = 0
    /\ active = <<>>
    /\ next_poll = [p \in Managed |-> 0]
    /\ tasks = [t \in DOMAIN Seed |->
            [status |-> Seed[t].status, assignee |-> Seed[t].assignee,
             remaining |-> LoadedRemaining(Seed[t]),
             depends_on |-> Seed[t].depends_on, comments |-> <<>>]]
    /\ effort = [t \in DOMAIN Seed |-> LoadedRemaining(Seed[t])]
    /\ logged = [t \in TaskId |-> 0]
    /\ worked = [p \in Person |-> 0]

-----------------------------------------------------------------------------
\* Slip: an NPC may be polled again while its last action is under way.
BeginWhileBusy(p, at, cost) ==
    /\ at + cost <= MaxTime
    /\ IF p = Agent
       THEN active = <<>> /\ at = sim_time
       ELSE active # <<>> /\ at \in sim_time .. Head(active).until
    /\ sim_time' = at
    /\ active' = <<[caller |-> p, until |-> at + cost]>> \o active
    /\ UNCHANGED next_poll

\* dispatch: the agent calls when nothing else runs, an NPC when its one poll
\* fires inside the advance in progress.  The advance by `cost` begins.
Begin(p, at, cost) ==
    /\ at + cost <= MaxTime
    /\ IF p = Agent
       THEN active = <<>> /\ at = sim_time
       ELSE /\ active # <<>> /\ at \in sim_time .. Head(active).until
            /\ at >= next_poll[p]
            /\ \A i \in DOMAIN active : active[i].caller # p
    /\ sim_time' = at
    /\ active' = <<[caller |-> p, until |-> at + cost]>> \o active
    /\ UNCHANGED next_poll

\* The advance ends: the clock takes its target, and an NPC is given its next
\* poll a tick or more from now.
CallReturns ==
    /\ active # <<>>
    /\ sim_time' = Head(active).until
    /\ active' = Tail(active)
    /\ next_poll' = [p \in Managed |-> IF p = Head(active).caller
                                       THEN sim_time' + 1 ELSE next_poll[p]]
    /\ UNCHANGED board

\* Reads, waits, calls of other tools and calls that are refused: time passes.
OtherCall(p, at, cost) == Begin(p, at, cost) /\ UNCHANGED board

-----------------------------------------------------------------------------
\* World.update_task_status, assign_task and the handlers' own appends.
Change(t, task) == tasks' = [tasks EXCEPT ![t] = task]

\* World.add_task, for a Task as tasks_create builds it.
AddTask(t, assignee, estimate, deps) ==
    LET task == [status |-> "Backlog", assignee |-> assignee,
                 remaining |-> estimate, depends_on |-> deps, comments |-> <<>>]
    IN  /\ tasks' = [u \in DOMAIN tasks \cup {t} |->
                        IF u = t THEN task ELSE tasks[u]]
        /\ effort' = [u \in DOMAIN tasks \cup {t} |->
                        IF u = t THEN estimate ELSE effort[u]]

\* An assignee that is named is somebody the world knows.
MayBeAssigned(assignee) == assignee \notin Nobody => assignee \in Person

\* Slip: the task is in the world before its dependencies are looked up.
CreateThenCheck(p, at, t, assignee, estimate, deps) ==
    /\ t \notin DOMAIN tasks
    /\ deps \subseteq DOMAIN tasks \cup {t}
    /\ MayBeAssigned(assignee)
    /\ Begin(p, at, 2)
    /\ AddTask(t, assignee, estimate, deps)
    /\ UNCHANGED <<logged, worked>>

\* tasks_create: a new id, a known assignee if any, and known dependencies.
TasksCreate(p, at, t, assignee, estimate, deps) ==
    /\ t \notin DOMAIN tasks
    /\ MayBeAssigned(assignee)
    /\ deps \subseteq DOMAIN tasks
    /\ Begin(p, at, 2)
    /\ AddTask(t, assignee, estimate, deps)
    /\ UNCHANGED <<logged, worked>>

\* Slip: less than a minute counts as nothing left.
TasksUpdateStatusInMinutes(p, at, t, status) ==
    /\ status = "Done" => tasks[t].remaining \in {None} \cup {e \in Int : e < 60}
    /\ Begin(p, at, 1)
    /\ Change(t, [tasks[t] EXCEPT !.status = status])
    /\ UNCHANGED <<effort, logged, worked>>

\* tasks_update_status: nothing but positive remaining effort bars Done, and
\* nothing bars any other move.
TasksUpdateStatus(p, at, t, status) ==
    /\ status = "Done" => tasks[t].remaining \in {None} \cup {e \in Int : e <= 0}
    /\ Begin(p, at, 1)
    /\ Change(t, [tasks[t] EXCEPT !.status = status])
    /\ UNCHANGED <<effort, logged, worked>>

\* Slip: task and assignee swapped.
TasksAssignSwapped(p, at, t, assignee) ==
    /\ MayBeAssigned(assignee)
    /\ Begin(p, at, 1)
    /\ Change(t, [tasks[t] EXCEPT !.assignee = t])
    /\ UNCHANGED <<effort, logged, worked>>

\* tasks_assign, to somebody or to nobody.
TasksAssign(p, at, t, assignee) ==
    /\ MayBeAssigned(assignee)
    /\ Begin(p, at, 1)
    /\ Change(t, [tasks[t] EXCEPT !.assignee = assignee])
    /\ UNCHANGED <<effort, logged, worked>>

\* Slip: whole minutes only.
CostLogWorkFloor(seconds) == IF seconds <= 60 THEN 1 ELSE seconds \div 60

\* cost_log_work: the minutes the seconds fill, at least one.
CostLogWork(seconds) == IF seconds <= 60 THEN 1 ELSE (seconds + 59) \div 60

\* Slip: the remainder may go below zero.
DecrementedBelowZero(remaining, seconds) == remaining - seconds

\* World.log_work.
Decremented(remaining, seconds) ==
    IF remaining <= seconds THEN 0 ELSE remaining - seconds

\* tasks_log_work: the effort is gone from the board at once, the minutes it
\* takes pass afterwards.
TasksLogWork(p, at, t, seconds) ==
    /\ tasks[t].remaining # None
    /\ Begin(p, at, CostLogWork(seconds))
    /\ Change(t, [tasks[t] EXCEPT !.remaining = Decremented(@, seconds)])
    /\ logged' = [logged EXCEPT ![t] = @ + seconds]
    /\ worked' = [worked EXCEPT ![p] = @ + seconds]
    /\ UNCHANGED effort

TasksAddDependency(p, at, t, dep) ==
    /\ dep \in DOMAIN tasks
    /\ dep # t
    /\ dep \notin tasks[t].depends_on
    /\ Begin(p, at, 1)
    /\ Change(t, [tasks[t] EXCEPT !.depends_on = @ \cup {dep}])
    /\ UNCHANGED <<effort, logged, worked>>

TasksComment(p, at, t) ==
    /\ Begin(p, at, 1)
    /\ Change(t, [tasks[t] EXCEPT
                    !.comments = Append(@, [author |-> p, sim_time |-> at])])
    /\ UNCHANGED <<effort, logged, worked>>

-----------------------------------------------------------------------------
Caller == Managed \cup {Agent}

Operation(p, at) ==
    \/ \E cost \in Costs : OtherCall(p, at, cost)
    \/ \E t \in TaskId, assignee \in Assignees, estimate \in Estimates,
          deps \in SUBSET TaskId : TasksCreate(p, at, t, assignee, estimate, deps)
    \/ \E t \in DOMAIN tasks, status \in Moves : TasksUpdateStatus(p, at, t, status)
    \/ \E t \in DOMAIN tasks, assignee \in Assignees : TasksAssign(p, at, t, assignee)
    \/ \E t \in DOMAIN tasks, seconds \in Slices : TasksLogWork(p, at, t, seconds)
    \/ \E t \in DOMAIN tasks, dep \in TaskId : TasksAddDependency(p, at, t, dep)
    \/ \E t \in DOMAIN tasks : TasksComment(p, at, t)

Next ==
    \/ \E p \in Caller, at \in 0 .. MaxTime : Operation(p, at)
    \/ CallReturns

Spec == Init /\ [][Next]_vars

-----------------------------------------------------------------------------
\* Types.
Task == [status : Status, assignee : Assignee, remaining : Effort,
         depends_on : SUBSET TaskId,
         comments : Seq([author : Caller, sim_time : Nat])]

TypeOK ==
    /\ sim_time \in Nat
    /\ active \in Seq([caller : Caller, until : Nat])
    /\ next_poll \in [Managed -> Nat]
    /\ DOMAIN tasks \subseteq TaskId
    /\ tasks \in [DOMAIN tasks -> Task]
    /\ effort \in [DOMAIN tasks -> Effort]
    /\ logged \in [TaskId -> Nat]
    /\ worked \in [Person -> Nat]

\* A task that is Done has been worked off: everybody together logged at least
\* the effort it came with, however the calls interleave and however often it
\* was reopened (tasks.py:3-5, "agents can't will work done").
DoneIsEarned ==
    \A t \in DOMAIN tasks :
        tasks[t].status = "Done" =>
            effort[t] \in {None} \cup {e \in Int : e <= logged[t]}

\* What remains of a task is what it came with less all that was logged on it,
\* and never less than nothing once somebody logged (world.py:238-251).
EffortBooks ==
    \A t \in DOMAIN tasks :
        tasks[t].remaining =
            IF effort[t] = None \/ logged[t] = 0 THEN effort[t]
            ELSE IF effort[t] <= logged[t] THEN 0 ELSE effort[t] - logged[t]

\* The board never names a task it lacks, and no task waits for itself
\* (tasks.py:93-111 and 187-202).
DependenciesResolve ==
    \A t \in DOMAIN tasks : tasks[t].depends_on \subseteq DOMAIN tasks \ {t}

\* Whoever's call returns has logged no more work than minutes have passed,
\* although calls overlap and the clock goes back (tasks.py:3-5, "costs the
\* agent that much sim-time"; costs.py:107-110).
WorkTakesTime ==
    [][active # <<>> /\ active' = Tail(active) =>
            worked[Head(active).caller] <= 60 * sim_time']_vars

\* The comments of one author stand in the order of their minutes, though
\* those of different authors need not (tasks.py:215-227).
CommentsInOrder ==
    \A t \in DOMAIN tasks : \A i, j \in DOMAIN tasks[t].comments :
        i < j /\ tasks[t].comments[i].author = tasks[t].comments[j].author
        => tasks[t].comments[i].sim_time < tasks[t].comments[j].sim_time
=============================================================================
