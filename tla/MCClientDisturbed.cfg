SPECIFICATION FairSpec

CONSTANTS
    Requests = {r1, r2}
    Conns = {c1}
    None = None
    MaxAttempts = 1
    MaxHandle = 2
    MaxUpdates = 1
    MaxStatus = 1
    MaxRejects = 1
    MaxClosings = 1
    Unpackable = {}
    MayForget = TRUE
    Py3 = FALSE

INVARIANTS
    OnlyForgottenRaise
    AnswersUnmixed

PROPERTIES
    RequestsEnd

CHECK_DEADLOCK FALSE
