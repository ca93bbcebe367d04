SPECIFICATION FairSpec
CONSTANTS
    Agents = {a, b, c}
    Jobs = 2
    MaxWorkers = 4
    MaxRecalls = 1
INVARIANT TypeOK
INVARIANT RequestsCapped
INVARIANT OneOwner
PROPERTY NoRequestIsLost
CHECK_DEADLOCK FALSE
