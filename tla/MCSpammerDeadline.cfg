SPECIFICATION FairSpec
CONSTANTS
    g1 = g1
    g2 = g2
    g3 = g3
    Worker <- ThreeWorkers
    MaxGoroutines = 1
    MaxBatchesSent = 2
    BatchBound = 3
PROPERTIES StopsAfterMaxDuration
CHECK_DEADLOCK FALSE
