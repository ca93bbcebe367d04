SPECIFICATION Spec
CONSTANTS
    Root = root
    Subs = {a}
    Ops = {o}
    MaxTurns = 1
    MaxSummaries = 1
PROPERTY UsesAreLive
CHECK_DEADLOCK FALSE
