SPECIFICATION Spec
CONSTANTS
    MaxRuns = 3
    MaxEdits = 2
INVARIANTS
    ReadmeNeverAhead
    ExitTellsDisk
    NoLitter
    EditsKept
    InterruptLeavesReport
CHECK_DEADLOCK FALSE
