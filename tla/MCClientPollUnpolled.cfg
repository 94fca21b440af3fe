SPECIFICATION PollSpec

CONSTANTS
    Requests = {r1, r2}
    Conns = {c1, c2}
    None = None
    MaxAttempts = 2
    MaxHandle = 2
    MaxUpdates = 0
    MaxStatus = 0
    MaxRejects = 0
    MaxClosings = 0
    Unpackable = {}
    MayForget = FALSE
    Py3 = FALSE
    Fds = {1, 2, 3}
    MaxCalls = 2
    MayTimeOut = TRUE
    Background = {}

SYMMETRY Symmetry

INVARIANTS
    WaitedForIsPolled

CHECK_DEADLOCK FALSE
