SPECIFICATION Spec
CONSTANTS
    trustedvm = trustedvm
    oemvm = oemvm
    a = a
    Vms = {trustedvm, oemvm}
    Autostart = {trustedvm, oemvm}
    EarlyVms = {trustedvm, oemvm}
    StopValues <- AllOrOne
    MaxWrites = 0
    Others = {a}
    Faults = {"client_dies", "vm_exit", "handle_loss"}
INVARIANTS StartedIsRunning RunningHasNotEnded
CHECK_DEADLOCK FALSE
