SPECIFICATION Spec
CONSTANTS
    Clients = {c1, c2}
    NoClient = NoClient
    NoJob = NoTurn
    NoTurn = NoTurn
    Upkeep = Upkeep
    Jobs <- MCJobs
    MaxTurns = 2
    Validates = FALSE
    Requests = {"start", "upkeep", "sweep"}
    MaxCrashes = 0
    MaxRefreshes = 0
SYMMETRY Symmetry
CHECK_DEADLOCK FALSE
INVARIANTS SweepSparesLiveTurns
