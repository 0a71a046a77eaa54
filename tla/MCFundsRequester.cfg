SPECIFICATION Spec
CONSTANTS
    Params <- ShortSpams
    Second = 2
    MinSpamDurationFundsReady = 2
    FaucetSplitNumber = 2
    Width = 64
    Fillings <- AnySplits
    Workers = 2
    MaxPendingRequestsRunning = 4
    MaxQueued = 1
INVARIANTS TypeOK PlanDelivered
PROPERTIES RefillsWhenDrained ReturnsWhenDrained
CHECK_DEADLOCK FALSE
