SPECIFICATION Spec
CONSTANTS
    none = none
    NoName = none
    DefSteps <- MCDefSteps
    DataSteps <- MCDataSteps
    TupleSteps <- MCTupleSteps
    FirstOfAll = "allOf/0"
    SecondOfAll = "allOf/1"
    Inputs <- ExternalInputs
INVARIANTS
    ReferencesMeanTheirTargets
CHECK_DEADLOCK FALSE
