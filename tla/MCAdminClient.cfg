SPECIFICATION FairSpec

CONSTANTS
    None = None
    MayTimeOut = TRUE
    MayRefuse = TRUE
    Py3 = FALSE
    MaxRows = 1
    MaxCalls = 4
    MaxLosses = 1

INVARIANTS
    TypeOK
    AnswerIsOwn
    CleanBetweenCalls
    ReadAsSent

PROPERTIES
    CallsEnd

CHECK_DEADLOCK FALSE
