SPECIFICATION FairSpec
CONSTANTS
    Callers = {c1, c2}
    NoOne = none
PROPERTY PromptEnds
CHECK_DEADLOCK FALSE
