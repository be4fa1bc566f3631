SPECIFICATION Spec
CONSTANTS
    c1 = c1
    c2 = c2
    Clients = {c1, c2}
    Prompts = {s1, s2}
    Layouts <- MCLayouts
    MaxClosed = 1
    Nobody = Nobody
CHECK_DEADLOCK FALSE
SYMMETRY Alike
INVARIANT SteersReachTheTurn
