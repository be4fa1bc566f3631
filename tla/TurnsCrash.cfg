SPECIFICATION Spec
CONSTANTS
    Clients = {c1, c2}
    NoClient = NoClient
    NoJob = NoTurn
    NoTurn = NoTurn
    Upkeep = Upkeep
    Jobs <- MCJobs
    MaxTurns = 2
    Validates = FALSE
    Requests = {"start", "queue", "cancel", "sweep", "reclaim"}
    MaxCrashes = 1
    MaxRefreshes = 0
SYMMETRY Symmetry
INVARIANTS TypeOK OneTurnDrives EndedTurnsAreTerminal IInv RunningRowsHaveATask
PROPERTIES  KeepsContract
CHECK_DEADLOCK FALSE
