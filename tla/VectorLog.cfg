SPECIFICATION DurableSpec
CONSTANTS
    Metas = {m1, m2}
    Bytes <- MCBytes
    DataStart = 1
    CompactOnOpen = TRUE
    MaxBatch = 2
    MaxId = 2
    MaxLog = 3
    MaxFaults = 1
    MaxKills = 1
    MaxPower = 1
    MaxMishaps = 2
    FirstOpenSafe = TRUE
SYMMETRY MetaSymmetry
CONSTRAINT OldFileMatters
INVARIANT TypeOK
INVARIANT ReplayIsFaithful
INVARIANT SnapshotLabelsMatch
INVARIANT OpensAfterPowerLoss
PROPERTY KeepsThePromise
CHECK_DEADLOCK FALSE
