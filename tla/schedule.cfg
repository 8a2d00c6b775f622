SPECIFICATION Spec
CONSTANTS
    MINUTE = 3
    DAY = 3
    FireAt = 1
    MaxLate = 2
    MaxCycle = 4
    MaxDown = 2
    MaxBack = 4
    MaxTime = 24
INVARIANTS
    SkipsOneMinute
    ClockInv
PROPERTIES
    OncePerWindow
