SPECIFICATION FairSpec
CONSTANTS
    Gates = {g1, g2}
    Approvers = {a1}
    Turns = {t1}
    MaxCalls = 1
    Answers = {"accept"}
PROPERTY CallsEnd
CHECK_DEADLOCK FALSE
