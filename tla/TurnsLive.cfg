SPECIFICATION FairSpec
CONSTANTS
    Clients = {c1, c2}
    NoClient = NoClient
    NoJob = NoTurn
    NoTurn = NoTurn
    Upkeep = Upkeep
    Jobs <- MCJobs
    MaxTurns = 2
    Validates = FALSE
    Requests = {"start", "queue", "dequeue", "refresh"}
    MaxCrashes = 0
    MaxRefreshes = 1
CHECK_DEADLOCK FALSE
INVARIANTS QueueHasADrainer
PROPERTIES TurnsEnd QueueDrains
