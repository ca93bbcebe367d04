SPECIFICATION FairSpec
CONSTANTS
    Subagents = {a, b}
    Root = root
    MaxAgents = 2
    MaxDepth = 2
    MaxTurns = 2
    MaxFailures = 1
PROPERTY EverybodyReturns
CHECK_DEADLOCK FALSE
