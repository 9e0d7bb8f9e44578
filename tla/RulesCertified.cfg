CONSTANTS
    Value = {v1, v2}
    Objects = {v1, v2}
    None = None
    NoBase = NoBase
    Absent = Absent
    MaxBranches = 2
    Problems <- CertifiedProblems
SPECIFICATION Spec
INVARIANTS
    ResultsAreSound
CHECK_DEADLOCK FALSE
