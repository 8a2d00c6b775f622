SPECIFICATION PipelineFairSpec
CONSTANTS
    NumPartitions = 2
    MaxLog = 1
    Kinds <- ValidOnly
    FLUSH_EVERY = 3
    IdleTimeout = TRUE
    RejoinModes <- NoMode
    MaxFaults = 1
    AmountLimit = 1
PROPERTIES
    AllReachSilver
