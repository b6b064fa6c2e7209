\* Replies that together are shorter than the tick, idles the tick outlives; every
\* run ends.
CONSTANTS
    agent = agent
    nobody = nobody
    ann = ann
    bob = bob
    Agent = agent
    Nobody = nobody
    Npcs <- TwoNpcs
    Tick = 3
    Meeting <- NoMeeting
    NpcCosts = {1}
    EndTime = 9
    MaxTurns = 3
    MaxChain = 2
    IdleCap = 6
    AgentCalls <- ShortCalls
    Hour = 4
    Script <- OneScripted
SPECIFICATION FairSpec
INVARIANTS AgentKeepsCadence
PROPERTIES Termination
CHECK_DEADLOCK FALSE
