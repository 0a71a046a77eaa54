SPECIFICATION Spec
CONSTANTS
    c1 = c1
    c2 = c2
    c3 = c3
    c4 = c4
    c5 = c5
    u1 = u1
    u2 = u2
    u3 = u3
    k1 = k1
    k2 = k2
    k3 = k3
    Client <- FiveClients
    Url <- ThreeUrls
    url <- Urls
    Initial <- Start
    Worker <- ThreeWorkers
    MaxBatch = 4
INVARIANTS TypeOK ConflictsSpread UsesInTurn
CHECK_DEADLOCK FALSE
