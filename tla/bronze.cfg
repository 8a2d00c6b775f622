SPECIFICATION FairSpec
CONSTANTS
    NumPartitions = 2
    MaxLog = 2
    Kinds <- AllKinds
    FLUSH_EVERY = 2
    IdleTimeout = TRUE
    RejoinModes <- CloudOnly
    MaxFaults = 2
INVARIANTS
    TypeOK
    CommittedIsDurable
    SafetyInv
    RedeliveryIsBounded
    NoDuplicatesWithoutFailure
    RedeliveryInv
    OnceInv
PROPERTIES
    ImplementsDelivery
    DurableUnlessGarbled
