\* Four plots, with a process that may die at any moment; a dead process stops.
CONSTANTS
    Person <- People
    Agent = "agent"
    Topic <- Topics
    Channels <- SeededChannels
    InitialMessages <- SeededMessages
    InitialThreads <- SeededThreads
    InitialEmails <- SeededEmails
    InitialDocs <- SeededDocs
    InitialCalendar <- SeededCalendar
    InitialTasks <- SeededTasks
    End = 40
    Wakeups = {12, 40}
    Overrun = 1
    HoistLimit = 1
    Plots <- FourPlots
    TickSize = 2
    Judges <- SomeJudges
    Day = 4
SPECIFICATION Spec
INVARIANTS TypeOK GradableRunsAreComplete LinesAddUp FullTierMeansTheEnd
    ScoresInRange TimedArtifactsAreFound MeetingsOnRecord RecordsAgree InboundIsBriefed
PROPERTIES OutboundNeverHurts
CHECK_DEADLOCK FALSE
