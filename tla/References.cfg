SPECIFICATION Spec
CONSTANTS
    none = none
    NoName = none
    DefSteps <- MCDefSteps
    DataSteps <- MCDataSteps
    TupleSteps <- MCTupleSteps
    FirstOfAll = "allOf/0"
    SecondOfAll = "allOf/1"
    Inputs <- MCInputs
INVARIANTS
    TypeOK
    ReferencesMeanTheirTargets
    ScanFindsCycles
    NothingKnownIsLeft
PROPERTIES
    PreparationEnds
CHECK_DEADLOCK FALSE
