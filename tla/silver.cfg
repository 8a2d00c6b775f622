SPECIFICATION FairSpec
CONSTANTS
    NumPartitions = 1
    MaxLog = 2
    FLUSH_EVERY = 2
    Amounts <- UnevenSales
    AmountLimit = 50000000
    MaxChanges = 3
    MaxFaults = 2
INVARIANTS
    TypeOK
    DeduplicatedWhenKeysAreKnown
    DoneMeansComplete
    MarginsAreExact
    SilverInv
PROPERTIES
    EventuallyInSilver
    SilverIsKept
