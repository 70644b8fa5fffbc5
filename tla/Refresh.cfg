SPECIFICATION Spec
CONSTANTS
    MaxRuns = 3
    MaxEdits = 2
    None = None
INVARIANTS
    NeverAtBase
    OnlyOwnMerged
    UndisturbedDelivers
    EditsKept
CHECK_DEADLOCK FALSE
