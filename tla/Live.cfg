SPECIFICATION FairSpec
CONSTANTS
    c1 = c1
    c2 = c2
    t1 = t1
    t2 = t2
    Clients = {c1, c2}
    Callers = {t1}
    None = None
    MaxBoots = 1
    Transport = "mink"
    ForceStop = TRUE
    Overlap <- AnyOverlap
    Faults = {"vm_exit", "veto", "handle_loss", "connect_fail"}
    Mortals = {}
INVARIANTS ClientsInStep
PROPERTIES CallsReturn EndIsReported ImplementsLink
