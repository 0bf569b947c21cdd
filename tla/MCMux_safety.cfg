SPECIFICATION Spec
CONSTANTS
    W = 2
    MaxFrame = 2
    MaxSid = 2
    MaxConnBuffered = 3
    MaxConnFrames = 2
    MaxSendWindow = 3
    MaxIgnored = 3
    Junk <- AnyJunk
    Environments <- SafetyEnvironments
INVARIANTS
    CountersReconcile
    BuffersBounded
    EofIsComplete
    QuietAfterEnd
PROPERTIES
    TerminalsAreFinal
    LanesImplemented
CHECK_DEADLOCK FALSE
