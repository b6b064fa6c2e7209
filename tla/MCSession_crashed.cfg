\* The plot about tasks, with a process that dies after a turn.
CONSTANTS
    Person <- People
    Agent = "agent"
    Topic <- Topics
    Channels <- SeededChannels
    InitialMessages <- SeededMessages
    InitialThreads <- SeededThreads
    InitialEmails <- SeededEmails
    InitialDocs <- SeededDocs
    InitialCalendar <- SeededCalendar
    InitialTasks <- SeededTasks
    End = 40
    Wakeups = {12, 40}
    Overrun = 1
    HoistLimit = 1
    Plots <- TasksOnly
    TickSize = 2
    Judges <- SomeJudges
    Day = 4
SPECIFICATION Spec
INVARIANT CrashedRunsAreScoreable
CHECK_DEADLOCK FALSE
