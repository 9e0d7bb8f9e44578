SPECIFICATION Spec
CONSTANTS
    null = null
    one = one
    two = two
    Null = null
    NoRef = NoRef
    Value <- MCValue
    Term <- MCTerm
    Accepts <- MCAccepts
    Judged <- MCJudged
    Rules <- MCRules
    Problems <- MCProblems
    MaxDepth = 2
INVARIANTS
    TypeOK
    AnswersAreSound
    VerdictsAreRight
    DoubtHasAReason
PROPERTIES
    ReasonsAreNotLost
CHECK_DEADLOCK FALSE
