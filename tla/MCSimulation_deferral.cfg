\* Idle targets moved within a tick, polls passed over by a long call, no NPC.
CONSTANTS
    agent = agent
    nobody = nobody
    ann = ann
    bob = bob
    Agent = agent
    Nobody = nobody
    Npcs <- NoNpc
    Tick = 3
    Meeting <- NoMeeting
    NpcCosts = {1}
    EndTime = 20
    MaxTurns = 7
    MaxChain = 4
    IdleCap = 12
    AgentCalls <- DeferringCalls
    Hour = 8
    Script <- NoScript
SPECIFICATION Spec
INVARIANTS RunsToTheEnd
PROPERTIES TicksOpenWhenPlanned
CHECK_DEADLOCK FALSE
