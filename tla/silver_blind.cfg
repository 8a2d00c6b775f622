SPECIFICATION Spec
CONSTANTS
    NumPartitions = 1
    MaxLog = 2
    FLUSH_EVERY = 2
    Amounts <- NoSales
    AmountLimit = 1
    MaxChanges = 2
    MaxFaults = 1
INVARIANTS
    SilverIsDeduplicated
