SPECIFICATION Spec
CONSTANTS
    Subagents = {a, b}
    Root = root
    MaxAgents = 2
    MaxDepth = 2
    MaxTurns = 1
    MaxFailures = 0
PROPERTY SaveWaitsForDescendants
CHECK_DEADLOCK FALSE
