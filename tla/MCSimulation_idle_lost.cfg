\* An idle.until followed by a longer call silences the agent.
CONSTANTS
    agent = agent
    nobody = nobody
    ann = ann
    bob = bob
    Agent = agent
    Nobody = nobody
    Npcs <- NoNpc
    Tick = 2
    Meeting <- NoMeeting
    NpcCosts = {1}
    EndTime = 8
    MaxTurns = 3
    MaxChain = 2
    IdleCap = 4
    AgentCalls <- IdleThenAct
    Hour = 4
    Script <- NoScript
SPECIFICATION Spec
INVARIANTS AgentKeepsCadence
CHECK_DEADLOCK FALSE
