CONSTANTS
    agent = agent
    ann = ann
    bob = bob
    empty = empty
    t1 = t1
    t2 = t2
    none = none
    Agent = agent
    Managed = {ann}
    Person = {agent, ann}
    TaskId = {t1, t2}
    None = none
    Empty = empty
    Seed <- OneSeed
    Moves = {"Done", "Backlog"}
    Assignees = {agent, bob, empty}
    Estimates <- SomeEstimates
    Slices = {30, 90}
    Costs = {1}
    MaxTime = 4
SPECIFICATION Spec
INVARIANTS TypeOK DoneIsEarned EffortBooks DependenciesResolve CommentsInOrder
PROPERTY WorkTakesTime
CHECK_DEADLOCK FALSE
