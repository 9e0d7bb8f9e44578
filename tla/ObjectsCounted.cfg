SPECIFICATION Spec
CONSTANTS
    None = None
    Null = "null"
    Names <- MCNames
    Fresh <- MCFresh
    Values <- MCValues
    Queries <- MCCounted
INVARIANTS
    InclusionsAreSound
CHECK_DEADLOCK FALSE
