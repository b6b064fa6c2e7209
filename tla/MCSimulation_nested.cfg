\* Two NPCs whose replies are shorter and longer than the tick, all tools.
CONSTANTS
    agent = agent
    nobody = nobody
    ann = ann
    bob = bob
    Agent = agent
    Nobody = nobody
    Npcs <- TwoNpcs
    Tick = 2
    Meeting <- OneMeeting
    NpcCosts = {1, 3}
    EndTime = 6
    MaxTurns = 2
    MaxChain = 2
    IdleCap = 3
    AgentCalls <- AllCalls
    Hour = 4
    Script <- TwoScripted
SPECIFICATION Spec
INVARIANTS TypeOK OnePollPerNpc NothingOverdue NoDecisionInMeeting
    OneTriggerPerReply DriverClockMonotone DecisionSeesThePast
PROPERTIES OneDecisionPerTick
CHECK_DEADLOCK FALSE
