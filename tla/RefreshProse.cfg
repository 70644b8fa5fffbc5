SPECIFICATION Spec
CONSTANTS
    MaxRuns = 1
    MaxEdits = 1
    None = None
PROPERTIES
    ReportIsOnlyChange
CHECK_DEADLOCK FALSE
