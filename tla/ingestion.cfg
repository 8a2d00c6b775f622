SPECIFICATION FairSpec
CONSTANTS
    MaxVersion = 2
    LengthOf <- DistinctLengths
    Rows = 2
    RowKinds <- AllRows
    MaxFaults = 2
INVARIANTS
    TypeOK
    ProducedMeansSent
    CycleInv
    SkipIsJustified
    ProducerReadsThatVersion
    SettledIsHandled
PROPERTIES
    EventuallyArrives
    ImplementsIngestion
