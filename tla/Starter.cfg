SPECIFICATION Spec
CONSTANTS
    c1 = c1
    c2 = c2
    t1 = t1
    t2 = t2
    Clients = {c1, c2}
    Callers = {t1, t2}
    None = None
    MaxBoots = 2
    Transport = "none"
    ForceStop = TRUE
    Overlap <- AnyOverlap
    Faults = {"vm_exit"}
    Mortals = {}
SYMMETRY Symmetry
PROPERTIES StarterRegistered
CHECK_DEADLOCK FALSE
