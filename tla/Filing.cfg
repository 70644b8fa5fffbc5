SPECIFICATION Spec
CONSTANTS
    Crashers = {c1, c2}
    Bumps = {v}
    MaxRuns = 3
    MaxPush = 1
    None = None
INVARIANTS
    ZeroTells
    UndisturbedFiles
PROPERTIES
    NotClobbered
    BumpFiledByItsMaker
CHECK_DEADLOCK FALSE
