# A verification project for the SaaS-TPM simulator

The repository runs an LLM agent as a technical programme manager in a
simulated company: an in-memory *World* of people, messages, tasks, documents
and meetings, a discrete-event *Scheduler* that is the only clock, a tick loop
that polls the agent, a runtime that polls LLM-driven colleagues (NPCs), a
registry through which all of them call tools, and an evaluator that scores
the run afterwards.  Everything under `src/sim` runs in one thread.  What
makes it hard is not parallelism but *re-entrancy*: a tool call costs
simulated minutes, the registry pays for them by advancing the scheduler, the
scheduler drains events on the way, and an event's handler (an NPC's poll) may
call a tool again.  Calls of several people thus overlap like frames of a
stack, and the clock is set back when an outer frame resumes.

Source lines below are those of `src/`.

## Inventory

| Part | State | Operations | Interacts with |
|---|---|---|---|
| Scheduler (`sim/scheduler`) | clock, heap, id counter, handlers | `schedule`, `advance`, `advance_to`, `schedule_actor_poll` | calls handlers, which call it back |
| Agent driver (`sim/agent/driver.py`) | turns, last processed poll, last turn time, the agent's `next_poll_at` | `run`, `_run_tick`, `_wait_for_next_agent_poll` | advances the scheduler, dispatches tools, swaps the fallback handler of `actor_poll` |
| Time tools (`tools/wait, idle, abandon`) | the agent's `next_poll_at`, `busy_until` | `wait.until`, `idle.until`, `abandon.current` | advance and schedule from inside a dispatch |
| NPC runtime (`npc/runtime.py`) | trigger queues, hop lists, drops, `busy_until` | two subscriptions, poll handler, calendar-start handler | subscribed to World; schedules polls; dispatches NPC tools |
| Registry, costs (`tools/registry.py, costs.py`) | delivered notification ids per caller | `dispatch` | runs a handler, then advances by the cost, then collects notifications |
| Chat, email, ACL | channels, messages, threads, emails | `send`, `dm`, `read`, ... | insert into World, which emits events |
| Notifications (`store/notifications.py`) | notification rows | three subscribers | on World events, collected by the registry |
| Tasks (`tools/tasks.py`) | tasks, remaining effort, dependencies, comments | `create`, `update_status`, `assign`, `log_work`, `add_dependency`, `comment` | World |
| Calendar, meetings | events, attendees, transcripts | `create`, `rsvp`, `attend`, `run_meeting` | start events make NPCs busy; attending advances the clock |
| Docs | versions, comments, access lists | `create`, `edit`, `comment`, `read` | World |
| Loader, linter, schema | the initial World and heap | `load_scenario`, `lint_scenario` | once, before the run |
| Briefing (`agent/briefing.py`) | windows since the last turn | `build` | reads World |
| Brain, cache, LLM adapter | outputs by (scenario, seed, event) | `get_or_compute` | called by polls and meetings |
| Run logger | append-only files, counters | `log_turn`, `finalize` | observer of turns and World events |
| Working time (`store/worktime.py`) | none | `is_in_hours`, `next_business_minute` | read by the linter |
| Evaluator | none | metrics, rubric, final score | reads a finished run from disk |

Behaviour that is hard to test: the order of nested drains, a clock that goes
back, values read before an advance and used after it, polls lost or
duplicated, rows handed over by some calls and not by others, effort booked
inside somebody else's call, and runs that must end.  Each such place is listed
with its line under `hazards` in `PROJECT.json`, with the properties that
would catch it going wrong.

What makes each part correct, in short: the scheduler fires every event once,
in order, never late; the driver polls the agent at its cadence and ends; an
NPC has one poll, one decision per tick and none during a meeting; the hop cap
holds; a message reaches exactly those it concerns, and its notification
exactly once; Done means worked off; a transcript and a document version are
written once and in order; what is recorded adds up to what happened; what the
agent is graded on it has been told; and what can be graded leaves nothing out,
with scores in their range.

## Modules

    EventQueue        keys and order of events                (event.py)
      Scheduler       advance_to with re-entrant handlers     (clock.py)
        Agenda        what a scheduler promises, abstractly
      SimKernel       the same scheduler with typed events and the registry's advance
        NpcRuntime    polls, busyness, queues                 (npc/runtime.py)
          AgentDriver tick loop and time tools                (agent/driver.py, idle.py, abandon.py, wait.py)
            Simulation initial heap, Next, properties         (runtime.py, loader.py)
    HopCap            the rolling window of hops              (npc/runtime.py:212-229)
      Messaging       chat, email, notifications, subscribers (chat.py, email.py, notifications.py, registry.py)
    TaskBoard         tasks, effort, overlapping calls        (tasks.py, world.py)
    Company           the World's records                     (entities.py)
      Office          every tool's access check, effect, line (tools/*.py, npc/meetings.py)
        Session       a run, its turns, the recorder's files  (driver.py, registry.py, run_logger.py, cli.py)
        Briefing      what the agent is told                  (briefing.py)
    Scores            contributions, clipping, means
      Metrics         each metric on a recorded run           (metrics.py; extends Company)
        FinalScore    locators, axes, clusters, composite     (final.py, rubrics.py)
    Grading           Session + Briefing + FinalScore: what they owe one another
    WorkTime          working hours in time zones             (worktime.py)

`MCScheduler`, `MCSimulation`, `MCMessaging`, `MCTaskBoard` and `MCSession`
give the constants values for TLC.  `Scheduler_proofs`, `Messaging_proofs`,
`TaskBoard_proofs` and `Grading_proofs` hold the theorems about the module of
that name; those about `Simulation` are in a chain, each using the invariants
of the one before: `Simulation_proofs` (heap, frames, meetings),
`NpcRuntime_proofs` (types, trigger queues), `AgentDriver_proofs` (the
driver).  `Extrema` holds lemmas about extrema, sums and quotients that know
nothing of the models.  Definitions whose comment starts with "Slip:" are
plausible mistakes in the code; no specification uses them, they serve to show
that each property can fail.

### Scheduler, Agenda

The Python call stack of `advance_to` is the sequence `calls`, innermost
first.  User code, a handler or the outermost caller, is in control when the
innermost activation has handed an event to a handler; it may then schedule, or
advance again.  `FireNext`, `HandlerReturns` and `AdvanceReturns` are the
loop's steps; `HandlerRaises` unwinds an activation without the final
assignment of clock.py:106.  `fired` is a history variable.  `Agenda` states
what a caller expects who knows nothing of heaps: events happen in order, each
at its minute, as time moves forward.  `RewindSpec` adds the one step that
nesting makes possible, the clock being set back.

### SimKernel, NpcRuntime, AgentDriver, Simulation

The kernel is the scheduler with the kinds of event the program knows (agent
poll, NPC poll, calendar start, heartbeat, scripted message) and frames that
remember which NPC's poll they run in.  An NPC's poll is one action per path of
`_fire_actor_poll`: busy, nothing queued, silent, or a dispatch, which opens an
advance; when that returns, the head trigger is consumed and the next poll
scheduled.  The driver is a control variable `pc` over the statements of `run`
and its helpers.  The agent is unconstrained: any call of `AgentCalls`, any
set of NPCs addressed, continuation or not, or StopIteration.  An NPC's brain
is the choice of any permitted call or silence.  NPC tools cost at least one
minute, as `costs.py` and the shipped policies have it.

### HopCap, Messaging

Calls are opened by `ChatSend`, `ChatDm`, `EmailSend`, `CalendarCreate` or
`CallFails` and closed by `CallReturns`, innermost first; between them the
clock moves to any minute not before the innermost call's start, forwards or
backwards, which over-approximates what the composed simulation does, so what
holds here holds for every order of events.  `AddMessage` and `AddEmail` run
both subscribers, the dispatcher (rows) and the NPC runtime (triggers, drops,
hops).  The scripted senders insert without access check and without dispatch.
Access rules of reads appear in the property `RecipientsCanRead`.

### TaskBoard

`Begin(p, at, cost)` opens a call of a person at a minute when that person is
free, inside the call in progress if there is one; `CallReturns` closes the
innermost one and sets the clock to its end.  The handler's effect is at the
beginning and the cost is paid afterwards, as in `dispatch`.  `effort`,
`logged` and `worked` are history variables for the properties.  A member of
`Assignees` is a person, somebody unknown, or the empty id, which is as good as
none when a task is created (tasks.py:96) and leaves the task to nobody when
given to `tasks.assign` (tasks.py:151).  Minutes and effort seconds are the
code's units; `cost_log_work` rounds up.

### Company, Office

`Office` is one handler table.  `Accepts` is the check each handler makes
before it acts, `Handles` its effect and the line it leaves in `events.jsonl`,
`Result` what a read shows.  Chats, emails, documents with access lists,
events, meetings and tasks are all there, as far as a search, the briefing or a
metric tells them apart: a body is the set of topics a keyword search would
find in it.  What a task's status may become and when notifications are
delivered is `TaskBoard`'s and `Messaging`'s subject and not repeated here.
Agent and NPCs call the same handlers, as in the code.  `Scripted` is what the
scripted senders of loader.py:284-330 do: no access check, and an email into a
thread that exists leaves its participants as they are.  `OfficeInit` holds what
`load_scenario` has put in by the time the recorder is wired (cli.py:61-87):
channels, chats, threads, emails, documents, events and tasks, none of which has
a line.

### Session

A run as its recorder sees it.  `Begin` is a decision of the agent: the handler
acts at once, and `flight` keeps the call while its minutes elapse; `Arrive` is
an NPC's call, inside those minutes or between turns, and *late* when it is
made inside another NPC's minutes and stamped after the minute the clock will
be set back to; `Fires` is a scripted message at such a minute.
`MeetingHappens` is the middle of `meetings.attend`, between its two advances;
what its attendees do while it waits, an rsvp for instance, comes before.
`Return` appends the turn and the logged line, with long results moved out.
`Finalize(f)` writes one file and `Crash` may come before and after each step;
a line that was appended stays, as `flush` has it.  The plots (`MCSession`) say
which calls may be made; their order, minutes and nesting are free.  When ticks
open is left to `Simulation`: here a decision may come at once, or after a
wait.

### Briefing, Metrics, FinalScore, Grading

These are operators: `Briefing` on the present state, the evaluator on a
record of world, turns, lines and final minute, which is what the files hold.
The window of a read, `since` and `limit`, is a set, empty when it is not given.
An evaluation is a function of the files, a declared truth (`eval.yaml`) and a
judge, and a judge is any function from prompts to verdicts, failures
included.  Scores are integers in parts of `Unit` = 600, rounded down where the
code divides; a result that does not contribute is the empty set, as
`contributes=False`.  `Grading` composes the three and states the properties.

### WorkTime

`ReturningRounds` are the iterations in which the loop of
`next_business_minute` would return; `LeastWorkingMinute` is what its docstring
promises, and `MCSession` assumes them equal for every week of a small set,
which TLC evaluates.

## Runs

| Run | Instance | Shows |
|---|---|---|
| `scheduler_nested` | 3 events, 3 minutes, 3 activations | types; nothing overdue; each event fires once; every returned list is sorted; a caller's clock is monotone; the scheduler implements `Agenda` with `Rewind` |
| `simulation_nested` | 1-2 NPCs, a meeting, scripted messages, calls shorter, equal and longer than the tick | one poll per NPC; one decision per tick; none in a meeting; one trigger per reply; the driver's clock; the agent decides knowing everything due |
| `simulation_cadence` | short replies, idles that end their tick; fairness | the agent always has a live poll; every run ends |
| `simulation_deferral` | idles moved up to four times within a tick, no NPC | runs use up their time or turns; until an NPC replies, ticks open when planned unless a call went past that minute |
| `messaging` | agent, NPC, persona without policy; 3 inserts, 2 minutes, 2 results | hop cap; subscribers agree; rows handed over once, none missed; emails readable |
| `task_board` | agent and NPC, a seeded and a new task, slices of 30 and 90 s, 4 minutes | Done is earned; the books of effort; dependencies; comments; work takes time |
| `session_record` | a seeded World; four plots (an urgent request, a mailbox, a decision around a meeting, work on a task) of 2-3 turns, 2-4 NPC calls and scripted messages, a late one in each; crashes anywhere; four judges | what can be opened leaves nothing out; full tier means the end; seed and lines, turns and rows agree; attended meetings on record; inbound is briefed; scores in range; locators agree; a message more never hurts |
| `clock_goes_back` | one NPC | *violated*: the clock decreases |
| `idle_poll_lost` | no NPC, an idle followed by a long call in its tick | *violated*: the agent is never polled again |
| `npc_overrun_poll_lost` | one NPC slower than the tick, an idle longer than it | *violated*: a genuine poll is dropped as a duplicate |
| `claim_state_unknown` | the plot about a task | *violated*: the evaluator does not know the status a claim is checked against |
| `crashed_unscoreable` | the plot about a task | *violated*: a run that died after a turn cannot be opened for grading |

The bounds are small because what matters is relations between times (a cost
below, equal to, above the tick; an event inside or outside an advance; a
window just open or just closed), and nesting deeper than two or three frames
repeats the same relations.  Three events in the scheduler are enough for one
in each of three activations; two tasks for a dependency, `Done` and `Backlog` to
finish one and reopen it; three inserts for a hop allowed, refused and allowed
again.  In `session_record`, `End` = 40,
`Wakeups` = {12, 40}, an overrun of one minute, a meeting from 10 to 20, calls
of 0, 1, 3, 5, 12, 15 and 40 minutes and a tick of 2 put every pair of an
answer and a deadline, a call and a meeting, the last turn and the end of time
in each order; a wanted and an unwanted topic and two colleagues tell a match
from a miss; more turns or NPC calls repeat the same pairs.  The seed has a
chat dated after the start of the run and a thread without the agent, into
which a script and an NPC write.  `HoistLimit` = 1 makes a result of two rows a
long one.  `Day` = 4 keeps the weeks of `WorkTime` small; nothing in it depends
on the length of a day.  Deadlock checking is off in all runs: a run of the
program really stops, at `pc = "done"`, when its log is closed, when the
process dies, or at a bound.

Fairness is used in `simulation_cadence` alone and is `WF_vars(Next)`: the
program is one thread that never waits for anything outside, so it takes its
next step if it has one.  No choice between steps is assumed fair.

## What the violated runs say

* `advance_to` ends with `sim_time = target` even if a handler has moved the
  clock past it.  Clock regressions are thus normal whenever an NPC answers
  inside somebody's call.  The other properties are checked and proved in
  their presence: callers still see their own clock monotone, nothing is
  overdue, hops stay capped, rows are neither lost nor repeated.
* An `idle.until(now + k, continue)` followed by a call longer than `k`: the
  idle's poll fires inside that call, where nobody listens, and the driver,
  seeing that `next_poll_at` was moved, schedules none.  The run then jumps to
  its end without another tick.
* After a regression the next poll may fall on the minute already processed;
  the duplicate check drops it, and nothing replaces it.  In the run this takes
  an `idle.until` of more than a tick, whose poll is captured inside an NPC's
  long reply while the driver waits for something earlier; with one NPC and
  short calls, a poll of the plain cadence is not far enough ahead for that.
* The status history that claims about tasks are checked against is read from
  payload keys no emitter writes; it is always empty (final.py:1095).
* run_logger.py:8, metrics.py:7 and README.md:157 say a crashed run is graded at
  the `slice_safe` tier, but `evaluate_run` opens files that only `finalize`
  writes (final.py:381-389), and nothing finalizes a run that dies.

Other differences from the documents met while modelling, without a run of
their own.  In the simulator: `idle.until` is not interrupted by urgent inbound
(README.md:111); business-hours gating (README.md:126) is not in the NPC
runtime; a meeting booked at run time never makes its attendees busy
(README.md:123); README.md:132 says meetings have transcripts whether the agent
attends or not, but only `meetings.attend` makes one (npc/meetings.py:39), and
`MeetingsOnRecord` claims one for attended meetings alone; a scripted email
into a thread the agent is not in is briefed, shortened, and `email.read`
refuses it (loader.py:315-329, email.py:125), although README.md:135 says the
full state remains accessible, so `InboundIsBriefed` claims reading only for
emails that widened their thread; a "no" after a meeting takes the person out
of the attendees the evaluator counts as consulted; `docs.edit` needs no right
to view; `chat.mark_read` marks messages that were never shown; two runs
started in the same second append to the same files.

In recording and evaluation: the briefing's commitments include direct channels
between two NPCs.  `_READ_TOOLS` of final.py names tools that do not exist.
The locator of artifact times skips comments on documents although it "mirrors"
the one that does not (`TimedArtifactsAreFound` says how far they agree).  A
hidden fact that came by email is never recognised when a sender is declared,
and none is in a result that was moved to its own file.  A reference in the
very minute of the read counts, although the comment says strictly after.  The
answers of the judge's axes are not clipped although members are said to lie in
[-1, 1], so `ScoresInRange` is about judges that keep the range they are asked
for. Work logged on another's task is judged by the assignee at the end of the
run. An anti-hack violation adds a member to its cluster and can raise a mean
that was lower still; the artifacts' mean is counted twice in its cluster; a
first message near the end turns a silent follow-up member into a -1.  A reply
acknowledges the first thread that has one.  These are the code's rules, and
modelled as such.

## Proofs

All proof modules are checked to the last leaf, for every value of the
constants that the named assumptions allow.  39 of the 40 properties that
passing runs check are also theorems; the other is `Termination`.

* **Scheduler.**  `SchedulerInv` is `TypeOK`, `HeapInv` (nothing in the heap is
  overdue or numbered ahead of the counter) and `CallsInv`: what an activation
  popped last comes before all that is still pending and lies between the
  clock it was called at and the present clock, and an inner activation began
  no earlier than what the outer ones popped.  The theorems about returned
  lists and the caller's clock are not inductive without it, because an outer
  frame resumes with a list and a target from before the inner ones ran.
  `Agenda` is implemented with `Rewind` at any depth, and without it for
  `MaxDepth = 1`, the only depth at which that is true.
* **Simulation.**  `SimulationInv` is `OnePollPerNpc` with the shapes of heap
  and frames, `NothingOverdue`, `HandlersBeganInThePast` (an NPC in the middle
  of a poll decided no later than the clock and the target of every frame
  inside its own, so no return can set the clock back before its decision),
  `PollsAreSpaced` (a pending poll lies a tick after the last decision) and
  `MeetingsAreAnnounced` (a meeting's start is pending, or its attendees are
  busy to its end).
* **NPC runtime.**  That a decision spends exactly one trigger is not inductive:
  the runtime removes the trigger it answered after the reply's minutes, by
  searching the queue for it, and other calls have written to the queue by
  then.  `TriggersOK` is the account that closes it: a queue is as long as what
  its NPC is owed, one more while the NPC replies, and the trigger being
  answered is still in it, since only the NPC's own poll takes from it and
  there is one such poll.
* **Agent driver.**  Everything is stated at the `Horizon`, the clock the driver
  will see when its outermost advance returns.  `DriverOK` says that the last
  turn ended no later, that the advance is open only where the driver waits,
  and that whatever is due has fired when the driver is in control; types,
  the driver's monotone clock, decisions that see the past and runs that use
  up their budget follow for any agent and any NPCs.

  `TicksOpenWhenPlanned` is about runs in which no NPC has replied yet
  (`Quiet`).  There `Planned` is inductive: one advance is open (`OneAdvance`);
  while the driver waits it ends no later than the next event, and the polls
  captured are of its very end (`WaitIsShort`); `next_poll_at` was moved beyond
  the last processed poll or is the baseline (`NextIsAhead`); and a poll at
  `next_poll_at` is pending, captured or being handled, unless a call went past
  that minute (`PollAwaited`).  What an idle leaves behind lies before
  `next_poll_at`, so that the driver takes it for stale.

  `AgentKeepsCadence` is false in general, as two violated runs show.
  `TheAgentKeepsItsCadence` proves it under `RepliesFit(k)`: an NPC's call costs
  at most k minutes, one reply of every NPC is shorter than a tick and than
  the longest idle, and every idle ends its tick and asks for more than those
  replies.  Without the bound on replies the run is `npc_overrun_poll_lost`;
  without "ends its tick" it is `idle_poll_lost`; `simulation_cadence` satisfies
  it with k = 1.  `Stacked` bounds what nested replies add to an
  advance, frame by frame; an NPC is in the stack once, so that the stack is
  no deeper than there are NPCs (`NestingIsBounded`); `PollsAreNear` turns this
  into a bound on how late a poll is captured; and with it `OneAgentPoll`, that
  exactly one poll is pending, captured or being handled and will open a tick,
  is inductive.
* **Messaging.**  `HopsOK` relates the pruned hop list to the latest minute the
  clock ever showed: what a nested call pruned can never count again.
  `SourcesOK`, `RowsOK` and `ThreadsOK` give the others; that no row is missed
  needs that a bundle knows of no source that is still to be inserted, so that
  what is added or stamped earlier afterwards is not its to hand over.
* **TaskBoard.**  `StackOK` says a person has at most one call open and the
  agent's is at the bottom; `BoardOK` keeps each task's books; `Paid` and
  `CommentsPast` bound a person's logged seconds and latest comment by the
  minute at which the person is next free, which is what a regressing clock
  cannot undo.
* **Grading, the recorder.**  The invariant is `Running` (the call in flight
  has a minute to end at), `OnDisk` (the lines are the turns, and once the log
  is being finalized or a file exists nothing happens any more), `Meetings` (a
  meeting marked attended has its transcript, and a meeting waited for is in
  the calendar and its minute within its hours: without this the transcript's
  stamp is not inductive) and `Books`, which generalises `LinesAddUp`, relative
  to the rows of the seed, to one statement about a sequence of lines and what
  it tells of, so that each handler is a chain of lemmas about one line more.
  `TierIsSound` needs in addition that the last turn ended no later than the
  clock, for a run that ends at minute 0.
* **Grading, the records.**  `Rowed`, `Threaded`, `InFlight` and `OwnRows` (the
  agent's own rows lie in the past, other people's may not) give types, the
  briefing (`InboundIsBriefed`, from `ChatsAreBriefed` and `EmailsAreBriefed`:
  the newest row of a conversation speaks for the older ones; an email that
  `Widens` its thread, as all do but scripted ones into an existing thread and
  seeded ones, can be read by whom it is addressed to) and the locators.
  `RecordsAgree` is generalised to `Told`, a statement about any list of turns
  and any rows, in which a call made and a call recorded can be added one at a
  time.  For `OutboundNeverHurts`, `OneSideAdds` relates a world to itself with
  a later row of the agent's: first minutes stay first (`FirstStands`), so a
  trigger and an acknowledgement that were there are not replaced.
* **Grading, the scores.**  `ScoresInRange` is proved for any finite
  declarations and any judge that keeps its range.  The library folds a sum
  over the subsets of a set; `SumsExist` and `SumIsBounded` show, by the least
  counterexample instead of induction, that this function exists and
  that a sum of n scores lies within n units; `QuotientIsBounded` does the
  rounding.  `MeanInScale`, `HitRateInScale`, `PenaltyInScale` and
  `LatencyScores` then give each metric, `ClustersInScale` each member, and
  `CompositeInScale` the whole, whichever members contribute.

What is assumed is named where the constants are declared: `DriverAssumption`,
`TickAssumption` and `NpcCostsAssumption` (positive steps, costs of at least
one minute), `OfficeAssumption`, `WellFormed` and `SessionAssumption` (what the
argument models of the tools and the loader accept; and, as in the shipped
scenarios, that neither the seed nor a script writes in the agent's name),
`GradingAssumption` (finitely many declarations, whole-minute targets) and
`JudgesAssumption` (the range the prompts ask for).  TLC evaluates each of them
on the runs' instances.

Only model-checked: `Termination`, which needs fairness.  That
`NextBusinessMinute` is the least working minute is evaluated on a set of
weeks.

## Abstractions and bounds

Names, bodies, titles and ids are model values or numbers; formatting,
suggestion texts and logging are left out.  `MaxTime`, `MaxEvents`,
`MaxDepth`, `MaxInserts`, `MaxBundles` are bounds in guards; `EndTime`,
`MaxTurns`, `MaxChain`, `IdleCap`, `Tick`, `Hour`, `Cap`, `Window` are the
program's own parameters with small values; `max_turns` of a plot, `End`,
`Wakeups`, `Overrun` and `HoistLimit` bound a session.  The wording of
briefings, prompts and LLM answers is not modelled; a model's answer is any
answer, and a judge's any verdict.  Minutes are written exactly; scores are
rounded down to a part of 600.  `OutboundNeverHurts` leaves
`email_reply_within` out: a new row of the agent's can become the first of its
thread when another's row is stamped late, so that the reply no longer counts
as one.

Not modelled, with the reason: prompts and parsing of free text (rubric, judge,
LLM adapters), the excerpts a prompt quotes, the windowed evaluator and the
delta briefing's board and busy state (not wired into a run), the project board
of the briefing (a listing), directory, presence and suggestions (reads), the
CLI's arguments, the YAML layer and the linter, and data under `scenarios/`,
`runs/`, `baselines/`.

## Plan

Done: the scheduler, the composed simulation, messaging, the task board; the
office with its documents, calendar and meetings, the recorder with crashes, the
briefing, the evaluator and working time, composed in `Grading`.

1. **Proofs**: a rank that every step of the composed simulation lowers or that
a bounded number of steps can raise, which is the safety half of `Termination`;
that `NextBusinessMinute` is the least working minute for every week; the
hypotheses of the cadence in terms of `costs.py`. 2. **Brain cache**: keys, and
that a replay with the same scenario and seed takes the same decisions. 3.
**Loader**: a task or message the shipped schema accepts and the handlers
refuse, at the lines listed under hazards without a property.
