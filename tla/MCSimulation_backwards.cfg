\* The clock of a run is not monotone.
CONSTANTS
    agent = agent
    nobody = nobody
    ann = ann
    bob = bob
    Agent = agent
    Nobody = nobody
    Npcs <- OneNpc
    Tick = 2
    Meeting <- NoMeeting
    NpcCosts = {1}
    EndTime = 6
    MaxTurns = 2
    MaxChain = 2
    IdleCap = 4
    AgentCalls <- IdleLast
    Hour = 4
    Script <- OneScripted
SPECIFICATION Spec
PROPERTIES ClockNeverGoesBack
CHECK_DEADLOCK FALSE
