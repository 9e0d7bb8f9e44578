SPECIFICATION Spec
CONSTANTS
    null = null
    one = one
    Null = null
    NoRef = NoRef
    Value <- MCValue
    Term <- MCTerm
    Accepts <- MCAccepts
    Target <- MCTarget
    RuleGoals <- MCRuleGoals
    Limits <- MCLimits
    RuleUnits = 2
    Questions <- MCQuestions
    MaxQuestions = 2
INVARIANTS
    TypeOK
    AnswersAreSound
    InProgressIsTheStack
    WorkIsPaidFor
PROPERTIES
    ImplementsOracle
    EveryQuestionEnds
CHECK_DEADLOCK FALSE
