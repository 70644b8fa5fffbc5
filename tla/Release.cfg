SPECIFICATION FetchSpec
CONSTANTS
    Versions = {1, 2, 3, 4}
    Picked = {1, 2}
    MaxDrafts = 1
    MaxCommits = 4
    MaxRuns = 4
    MaxFaults = 1
    MaxHand = 1
    None = None
INVARIANTS
    ReleasedFromItsCommit
    OneReleaseAtATime
    GreenIsOut
    UndisturbedJobsDeliver
    ExecutableIsProved
CHECK_DEADLOCK FALSE
