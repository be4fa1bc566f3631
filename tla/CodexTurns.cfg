SPECIFICATION Spec
CONSTANTS
    MaxTurns = 2
    MaxSubmits = 2
    MaxTwists = 1
INVARIANTS  WaitingIsExplained PromptsArriveOnce
CHECK_DEADLOCK FALSE
