SPECIFICATION Spec
CONSTANTS
    None = None
    Null = "null"
    Items <- MCItems
    OtherTypes = {"string", "number"}
    TypeOf <- MCTypeOf
    Enumerated <- MCEnumerated
    LengthBound = 4
    ArraysUpTo = 3
    Queries <- MCQueries
INVARIANTS
    ShapesBoundTheirSchemas
    MatchBoundsHold
    InclusionsAreSound
    CertificatesAreSound
    LengthsAreDecided
CHECK_DEADLOCK FALSE
