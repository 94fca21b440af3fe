SPECIFICATION Spec

CONSTANTS
    Requests = {r1, r2}
    Conns = {c1}
    None = None
    MaxAttempts = 2
    MaxHandle = 2
    MaxUpdates = 1
    MaxStatus = 0
    MaxRejects = 1
    MaxClosings = 0
    Unpackable = {}
    MayForget = FALSE
    Py3 = FALSE

SYMMETRY Symmetry

INVARIANTS
    HandlesInOrder

CHECK_DEADLOCK FALSE
