SPECIFICATION RunSpec
CONSTANTS
    Parts = {"memories", "sessions", "locks", "bash", "shell", "view", "m8trixsh", "input", "terminal", "filter", "index", "catalog", "search", "loading", "schema", "sse", "turn", "commands", "tags", "files", "html"}
    Agents = {1, 2}
    Widths = {3, 4}
    MaxDocs = 2
    MaxRecalls = 3
    Writers = {"m8", "m9"}
    SessionIds = {"one", "two"}
    MaxStores = 3
    Threads = {1, 2}
    DocIds = {"a", "b"}
    Stripe <- OneStripe
    MaxVersion = 2
    Servers = {"s", "r"}
    Tools <- ThreeTools
    AlwaysLoad = {}
    MaxDirect = 1
    MaxLoaded = 2
    MaxSelect = 2
    MaxSearches = 1
    MaxSteps = 2
    MaxToolTurns = 3
    MaxChanges = 1
    ServerOrder <- Names
    ToolLists <- Lists
    Sanitized <- Cleaned
    Words = {"get", "file", "files", "c"}
    Longer <- FilesIsLonger
    Indexed <- TwoTools
    MaxWords = 2
    Skills <- TwoSkills
    Within <- InGit
    MaxReply = 2
    MaxMessages = 6
    MaxCommands = 4
    MaxShells = 3
    Callers = {"a", "b"}
    MaxInstalls = 2
    MaxScans = 1
    Tokens = {"a", "b", "AND", "OR", "(", ")"}
    MaxTokens = 5
    Askers = {"root"}
    NoOne = "none"
    MaxToggles = 3
    MaxQuestions = 2
    MaxLines = 4
    Messages = {"m", "n"}
    Slashes = {"/c"}
    TurnSlashes = {"/t"}
    MaxHistory = 2
    MaxAsked = 2
    MaxSent = 2
    Root = "root"
    Subs = {"a", "b", "c"}
    MemoryOps = {"o"}
    MaxTurns = 1
    MaxSummaries = 1
    ScrollbackLimit = 2
    MaxRows = 2
    MaxPushed = 4
INVARIANT Types
INVARIANT StoresAgree
INVARIANT TurnsAreRight
INVARIANT ShellsAreAccountedFor
INVARIANT ToolsKeepFaith
INVARIANT ScreenIsRight
PROPERTY StepsKeepFaith
CHECK_DEADLOCK FALSE
