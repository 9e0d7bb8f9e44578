SPECIFICATION Spec
CONSTANTS
    None = None
    Names <- MCNames
    Fresh <- MCFresh
    Values <- MCValues
    Many <- MCMany
    Longest = 3
    Queries <- MCQueries
INVARIANTS
    ClaimedPlacesAreEvaluated
    InclusionsAreSound
    PlainQuestionsAreDecided
CHECK_DEADLOCK FALSE
