SPECIFICATION FairSpec

CONSTANTS
    Conns = {c1, c2}
    Pollers = {"epoll", "_Select"}
    Py3 = FALSE
    MaxSaid = 2
    MaxSent = 1
    MaxSessions = 3

INVARIANTS
    LoopTypeOK
    DeadAreTold
    NeverPollsNone

PROPERTIES
    ReadyIsServed

CHECK_DEADLOCK FALSE
