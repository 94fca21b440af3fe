SPECIFICATION PollSpec

CONSTANTS
    Requests = {r1, r2, r3}
    Conns = {c1, c2}
    None = None
    MaxAttempts = 2
    MaxHandle = 2
    MaxUpdates = 0
    MaxStatus = 1
    MaxRejects = 0
    MaxClosings = 0
    Unpackable = {r2}
    MayForget = FALSE
    Py3 = FALSE
    Fds = {1, 2}
    MaxCalls = 2
    MayTimeOut = FALSE
    Background = {r2}

SYMMETRY Symmetry

INVARIANTS
    SentOnHead
    OnlyForgottenRaise

CHECK_DEADLOCK FALSE
