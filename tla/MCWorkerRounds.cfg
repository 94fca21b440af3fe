SPECIFICATION Spec

CONSTANTS
    Conns = {c1, c2}
    Jobs = {j1}
    Tasks = {t1}
    None = None
    Rounds = TRUE
    MaxSessions = 2
    MaxUpdates = 1
    MaxChanges = 1
    MaxStops = 1
    MaxShutdowns = 1
    MaxNoops = 1
    MaxExtras = 3

SYMMETRY Symmetry

INVARIANTS
    AbilitiesInSync
    StopAfterJobIsClean

CHECK_DEADLOCK FALSE
