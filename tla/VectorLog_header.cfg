SPECIFICATION DurableSpec
CONSTANTS
    Metas = {m1}
    Bytes <- MCBytes
    DataStart = 1
    CompactOnOpen = FALSE
    MaxBatch = 1
    MaxId = 1
    MaxLog = 3
    MaxFaults = 0
    MaxKills = 1
    MaxPower = 1
    MaxMishaps = 2
    FirstOpenSafe = TRUE
INVARIANT HeaderSurvives
CHECK_DEADLOCK FALSE
