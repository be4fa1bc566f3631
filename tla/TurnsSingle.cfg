SPECIFICATION FairSpec
CONSTANTS
    Clients = {c1}
    NoClient = NoClient
    NoJob = NoTurn
    NoTurn = NoTurn
    Upkeep = Upkeep
    Jobs <- MCJobs
    MaxTurns = 2
    Validates = TRUE
    Requests = {"start", "queue", "cancel", "dequeue", "steer", "upkeep", "sweep", "reclaim", "close"}
    MaxCrashes = 1
    MaxRefreshes = 0
INVARIANTS  NoGhostSession
PROPERTIES OrphanOutcomeHonest GhostsAreSwept
CHECK_DEADLOCK FALSE
