CONSTANTS
    Value = {v1, v2}
    Objects = {v1, v2}
    None = None
    NoBase = NoBase
    Absent = Absent
    MaxBranches = 2
    Problems <- MCProblems
SPECIFICATION Spec
INVARIANTS
    ResultsAreSound
    ExactRulesDecide
CHECK_DEADLOCK FALSE
