SPECIFICATION Spec
CONSTANTS
    PerPage = 2
    StartIndex = 3
    FromFlags = {0, 2, 3}
    MaxNumber = 5
    MaxChanges = 3
INVARIANTS
    TypeOK
    CompleteAfterFrom
    MissesNeedClosings
