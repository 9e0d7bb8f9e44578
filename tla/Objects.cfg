SPECIFICATION Spec
CONSTANTS
    None = None
    Null = "null"
    Names <- MCNames
    Fresh <- MCFresh
    Values <- MCValues
    Queries <- MCQueries
INVARIANTS
    TypeOK
    FactsBoundTheirSchemas
    InclusionsAreSound
    CertificatesAreSound
    PresenceIsDecided
CHECK_DEADLOCK FALSE
