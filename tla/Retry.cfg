SPECIFICATION FairSpec
CONSTANTS
    MaxAttempts = 4
    Base = 1
    MaxWait = 5
    Statuses <- MCStatuses
    Second = 2
    MaxDuration = 15
    Horizon = 30
    Seconds <- MCSeconds
    Instants <- MCInstants
    Garbled = Garbled
    None = None
INVARIANTS
    WaitingBounded
    AnswerIsFinal
PROPERTIES
    ResentOnlyWhenCurable
    LimitHonoured
    Ends
    ImplementsRequest
CHECK_DEADLOCK FALSE
