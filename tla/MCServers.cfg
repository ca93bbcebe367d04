SPECIFICATION RunSpec
CONSTANTS
    Parts = {"registry", "tokens", "login", "prompt", "config", "questions"}
    MaxEpoch = 2
    MaxWorkers = 1
    MaxCalls = 1
    Processes = {"a", "b"}
    MaxGrants = 2
    Logins = {1, 2}
    Ports = {1, 2}
    Scopes = {"a", "b"}
    Deployments <- SomeDeployments
    Callers = {"a", "b"}
    NoOne = "none"
    Apps = {"m"}
    Clis = {"c"}
    Names = {"x"}
    Versions = {1, 2}
    Broken = {}
    Unset = {}
    MaxEdits = 2
    Forms <- SomeForms
    Words = {"#", "yes", "y", "no", "r", "g", "Red", "red", "green", "one"}
    Texts <- SomeTexts
    Links = {"good", "bad"}
    BadLinks = {"bad"}
    Exact = 5
    MaxRequests = 3
    MaxReviews = 1
INVARIANT Types
INVARIANT RegistryIsRight
INVARIANT LoginsAreKept
INVARIANT PersonDecides
PROPERTY ChoicesStand
CHECK_DEADLOCK FALSE
