SPECIFICATION Spec
CONSTANTS
    MaxVersion = 1
    LengthOf <- DistinctLengths
    Rows = 2
    RowKinds <- GoodOnly
    MaxFaults = 1
INVARIANTS
    ProducedMeansDelivered
