SPECIFICATION FairTunnelSpec
CONSTANTS
    W = 1
    MaxFrame = 2
    MaxSid = 1
    MaxConnBuffered = 100
    MaxConnFrames = 100
    MaxSendWindow = 100
    MaxIgnored = 50
    Junk <- NoJunk
    Environments <- LiveEnvironments
PROPERTIES
    VisitEnds
    SendCompletes
CHECK_DEADLOCK FALSE
