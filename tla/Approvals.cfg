SPECIFICATION Spec
CONSTANTS
    Gates = {g1, g2}
    Approvers = {a1}
    Turns = {t1, t2}
    MaxCalls = 2
    Answers = {"accept"}
SYMMETRY Symmetry
INVARIANTS StoreIsClean OutcomesAreExplained CancelledCallsAreDenied
PROPERTY EntriesAreNotLost
CHECK_DEADLOCK FALSE
