SPECIFICATION Spec
CONSTANTS
    c1 = c1
    c2 = c2
    t1 = t1
    t2 = t2
    Clients = {c1, c2}
    Callers = {t1, t2}
    None = None
    MaxBoots = 1
    Transport = "mink"
    ForceStop = TRUE
    Overlap <- AnyOverlap
    Faults = {}
    Mortals = {}
SYMMETRY Symmetry
INVARIANTS JoinedThreadCanFinish
CHECK_DEADLOCK FALSE
