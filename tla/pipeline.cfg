SPECIFICATION PipelineFairSpec
CONSTANTS
    NumPartitions = 2
    MaxLog = 1
    Kinds <- ReadableKinds
    FLUSH_EVERY = 2
    IdleTimeout = TRUE
    RejoinModes <- CloudOnly
    MaxFaults = 1
    AmountLimit = 1
INVARIANTS
    PipelineTypeOK
    CommittedGetsThrough
    ServicesInv
    SightInv
PROPERTIES
    ImplementsExactlyOnce
    AllReachSilverUnlessTorn
