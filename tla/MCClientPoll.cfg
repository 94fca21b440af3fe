SPECIFICATION PollFairSpec

CONSTANTS
    Requests = {r1, r2}
    Conns = {c1, c2}
    None = None
    MaxAttempts = 1
    MaxHandle = 2
    MaxUpdates = 0
    MaxStatus = 1
    MaxRejects = 0
    MaxClosings = 1
    Unpackable = {}
    MayForget = FALSE
    Py3 = FALSE
    Fds = {1, 2}
    MaxCalls = 2
    MayTimeOut = TRUE
    Background = {r2}

INVARIANTS
    PollTypeOK
    WaitedForIsPolled
    AcceptedOnReturn

PROPERTIES
    WaitsEnd

CHECK_DEADLOCK FALSE
