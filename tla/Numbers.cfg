SPECIFICATION Spec
CONSTANTS
    absent = absent
    flag = flag
    NonNumber = NonNumber
    Absent = absent
    Flag = flag
    Unit = 12
    MaxFinite = 2
    Numbers <- MCNumbers
    Queries <- MCQueries
INVARIANTS
    ConstraintsMeanTheirKeywords
    NumberProofsAreSound
    IntegerIntervalsAreDecided
CHECK_DEADLOCK FALSE
