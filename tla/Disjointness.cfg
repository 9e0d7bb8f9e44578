SPECIFICATION Spec
CONSTANTS
    Null = "null"
    NoRef = NoRef
    NoTerm <- Absent
    Value <- MCValue
    Term <- MCTerm
    Accepts <- MCAccepts
    Shape <- MCShape
    TypeOf <- MCTypeOf
    ItemsOf <- MCItemsOf
    PropertiesOf <- MCPropertiesOf
    StackLimit = 6
    Questions <- MCQuestions
INVARIANTS
    TypeOK
    AnswersAreSound
PROPERTIES
    EveryQuestionEnds
CHECK_DEADLOCK FALSE
