SPECIFICATION FairSpec

CONSTANTS
    Conns = {c1, c2}
    Jobs = {j1, j2}
    Tasks = {t1}
    None = None
    Rounds = FALSE
    MaxSessions = 2
    MaxUpdates = 0
    MaxChanges = 0
    MaxStops = 0
    MaxShutdowns = 1
    MaxNoops = 0
    MaxExtras = 1

INVARIANTS
    TypeOK
    OneGrab
    LockIsOwed
    AssignedIsHandled
    NoLostWakeup

PROPERTIES
    QueuedIsServed

CHECK_DEADLOCK FALSE
