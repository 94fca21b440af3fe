SPECIFICATION FairSpec

CONSTANTS
    request = request
    None = None
    Size <- Sizes
    Commands = {request, bad, line}
    Text = {line}
    Stopping = {line}
    Unpackable = {bad}
    HeaderSize = 2
    Cooldown = 1
    MaxSent = 2
    MaxSaid = 2
    MaxSessions = 2
    MaxTime = 2

INVARIANTS
    ConnTypeOK
    NothingLost

PROPERTIES
    ChannelSpec
    AllHeard
    AllGot

CHECK_DEADLOCK FALSE
