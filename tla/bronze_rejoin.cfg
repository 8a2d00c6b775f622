SPECIFICATION Spec
CONSTANTS
    NumPartitions = 2
    MaxLog = 2
    Kinds <- ValidOnly
    FLUSH_EVERY = 2
    IdleTimeout = TRUE
    RejoinModes <- LocalOnly
    MaxFaults = 1
INVARIANTS
    CommittedIsDurable
