SPECIFICATION FairLifeSpec
CONSTANTS
    t1 = t1
    t2 = t2
    Tunnels = {t1, t2}
    Events <- Events_
    Capacity = 2
    MaxAttempts = 2
    NoEvent = NoEvent
    NoFile = NoFile
    Size <- Size_
    MaxBytes = 2
    Environments <- Environments_
    MaxCrashes = 1
INVARIANTS
    Accounted
    LogInOrder
    FilesBounded
    DrainedNotDropped
    FinalEventsQueued
CHECK_DEADLOCK FALSE
PROPERTIES
    EventsSettle
    ShutdownEnds
