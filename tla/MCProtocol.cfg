SPECIFICATION RunSpec
CONSTANTS
    Parts = {"client", "handshake", "stdio", "http", "process"}
    Callers = {a, b}
    Nobody = nobody
    MaxRestarts = 1
    MaxRounds = 1
    MaxTransports = 4
    MaxCalls = 2
    MaxAged = 1
    MaxConnects = 2
    Requests = {"r"}
    Timeout = 1
    MaxLifetime = 2
    MaxResumes = 1
    MaxTime = 2
    MaxAsks = 1
    Spawned = {"s", "t"}
    Others = {"o"}
INVARIANT Types
INVARIANT RestartsBudgeted
INVARIANT OneMeaning
INVARIANT NothingIsLeft
PROPERTY PeopleStopTheClock
PROPERTY EverythingEnds
CHECK_DEADLOCK FALSE
