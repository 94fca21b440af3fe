SPECIFICATION Spec

CONSTANTS
    Requests = {r1, r2}
    Conns = {c1, c2}
    None = None
    MaxAttempts = 2
    MaxHandle = 2
    MaxUpdates = 1
    MaxStatus = 1
    MaxRejects = 0
    MaxClosings = 0
    Unpackable = {}
    MayForget = FALSE
    Py3 = FALSE

SYMMETRY Symmetry

INVARIANTS
    TypeOK
    HandlesMatch
    AnswersUnmixed
    PendingIsAwaited
    OneLiveSubmission
    CorrelationInv

PROPERTIES
    TerminalIsStable

CHECK_DEADLOCK FALSE
