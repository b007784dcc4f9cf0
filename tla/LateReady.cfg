SPECIFICATION FairSpec
CONSTANTS
    c1 = c1
    c2 = c2
    t1 = t1
    t2 = t2
    Clients = {c1}
    Callers = {t1}
    None = None
    MaxBoots = 1
    Transport = "vsock"
    ForceStop = TRUE
    Overlap <- AnyOverlap
    Faults = {"vm_exit"}
    Mortals = {}
PROPERTIES ShutdownCompletes
CHECK_DEADLOCK FALSE
