SPECIFICATION Spec
CONSTANTS
    Subagents = {a, b, c}
    Root = root
    MaxAgents = 2
    MaxDepth = 2
    MaxTurns = 2
    MaxFailures = 1
INVARIANT TypeOK
INVARIANT BudgetHolds
INVARIANT ResultFreesSlot
INVARIANT EventsInOrder
INVARIANT TreesAreSound
CHECK_DEADLOCK FALSE
