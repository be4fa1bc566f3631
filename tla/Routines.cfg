SPECIFICATION FairSpec
CONSTANTS
    Callers = {c1, c2}
    Events = {e1, e2}
    Strangers = {e2}
    RecentLimit = 2
    TicksPerDay = 2
    StaleTicks = 1
    MaxRuns = 2
    MaxTicks = 1
    MaxVersions = 2
    MaxTwists = 1
INVARIANTS SecondRunIsExcused ReplaysAreExplained AgentRunsAreAuthorized
PROPERTY RunsAreGivenUp
CHECK_DEADLOCK FALSE
