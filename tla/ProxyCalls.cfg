SPECIFICATION FairSpec
CONSTANTS
    trustedvm = trustedvm
    oemvm = oemvm
    a = a
    Vms = {trustedvm}
    Autostart = {trustedvm}
    EarlyVms = {}
    StopValues <- AllOrOne
    MaxWrites = 2
    Others = {a}
    Faults = {"client_dies", "force_stop", "vm_exit", "refuse", "handle_loss", "no_userspace", "start_error", "boot_timeout", "manager_dies"}
INVARIANTS TypeOK RunningHasNotEnded
PROPERTIES AllEnds DeadlocksStay
CHECK_DEADLOCK FALSE
