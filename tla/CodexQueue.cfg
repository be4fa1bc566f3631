SPECIFICATION FairSpec
CONSTANTS
    Procs = {p1, p2}
    MaxItems = 3
    MaxTroubles = 1
INVARIANTS StartsAreExplained OneStartAtATime CancelledTurnsNeverStart QueueKeepsOrder
PROPERTIES QueueLosesNothing QueueDrains
CHECK_DEADLOCK FALSE
