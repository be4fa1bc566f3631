SPECIFICATION FairSpec
CONSTANTS
    MaxTurns = 2
    MaxQueries = 5
    Settings <- MCSettings
CHECK_DEADLOCK FALSE
INVARIANTS CleanHandOver QueriesAreAnswered StampIsHonest EarlySteersKeepOrder
PROPERTY TurnsEnd
