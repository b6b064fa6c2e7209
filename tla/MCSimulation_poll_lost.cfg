\* An idle.until of more than a tick, and an NPC reply longer than one, silence
\* the agent.
CONSTANTS
    agent = agent
    nobody = nobody
    ann = ann
    bob = bob
    Agent = agent
    Nobody = nobody
    Npcs <- OneNpc
    Tick = 2
    Meeting <- NoMeeting
    NpcCosts = {3}
    EndTime = 10
    MaxTurns = 3
    MaxChain = 2
    IdleCap = 4
    AgentCalls <- IdleLast
    Hour = 4
    Script <- OneScripted
SPECIFICATION Spec
INVARIANTS AgentKeepsCadence
CHECK_DEADLOCK FALSE
