SPECIFICATION FairSpec
CONSTANTS
    NumPartitions = 2
    MaxLog = 2
    Kinds <- ValidOnly
    FLUSH_EVERY = 2
    IdleTimeout = FALSE
    RejoinModes <- NoMode
    MaxFaults = 0
PROPERTIES
    EventuallyDurable
CHECK_DEADLOCK FALSE
