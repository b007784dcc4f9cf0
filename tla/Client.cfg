SPECIFICATION ClientSpec
CONSTANTS
    c1 = c1
    c2 = c2
    t1 = t1
    t2 = t2
    Clients = {c1, c2}
    Callers = {t1, t2}
    Own = {c1}
    Main = t1
    None = None
    MaxBoots = 1
    Transport = "mink"
    ForceStop = TRUE
    Overlap <- AnyOverlap
    Faults = {"vm_exit", "veto", "missing_image"}
    Mortals = {c2}
CONSTRAINT ClientRuns
VIEW OwnTold
INVARIANTS JoinedStopSucceeds NoWaitCycle CyclesHoldState GuestClientFree
PROPERTIES OnlyStartMisleads
CHECK_DEADLOCK FALSE
