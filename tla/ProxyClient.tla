----------------------------- MODULE ProxyClient -----------------------------
(***************************************************************************)
(* The proxy client: it starts the VMs that a property names, keeps the    *)
(* set of those that run, and asks VMs to stop when another property       *)
(* changes.  Its threads are the main thread, one starter per VM, one stop *)
(* thread per VM and change of the property, and the binder threads that   *)
(* run its callbacks.                                                      *)
(*                                                                         *)
(* Of each VM object of the manager this client needs the state, the list  *)
(* of clients, and who holds its two mutexes across steps: main_state, for *)
(* a start that waits for vm_instance and a death recipient that waits for *)
(* guest_client; vm_instance, for a boot and for a call that waits for the *)
(* end of the VM.  The calls and deaths of other clients are steps too.    *)
(***************************************************************************)
EXTENDS Naturals, FiniteSets

CONSTANTS
    Vms,         \* the VMs of the manager, all enabled
    Autostart,   \* those that ro.vendor.qtvm.auto.start names
    EarlyVms,    \* early_vm, which do not wait for sys.boot_completed
    StopValues,  \* bound: the values that vendor.qtvm.stop takes
    MaxWrites,   \* bound: how often it is written
    Others,      \* the other clients
    Faults       \* what may go wrong, see AllFaults

AllFaults == {"client_dies", "force_stop", "vm_exit", "refuse", "handle_loss",
              "no_userspace", "start_error", "boot_timeout", "manager_dies"}

(* "all", or the names between colons. *)
AllVms == [all |-> TRUE, names |-> {}]
Unset == [all |-> FALSE, names |-> {}]
Values == {AllVms} \cup [all : {FALSE}, names : SUBSET Vms \ {{}}]

ASSUME ProxyAssumption ==
    /\ StopValues \subseteq Values
    /\ Autostart \subseteq Vms
    /\ EarlyVms \subseteq Vms
    /\ MaxWrites \in Nat
    /\ Faults \subseteq AllFaults

VARIABLES
    process,        \* "up", "exit_0" or "exit_1"
    main,           \* the main thread
    todo,           \* the VMs that the set-up has not come to
    instances,      \* the names in vm_instance_map
    running,        \* RUNNING_VMS
    starter,        \* the thread that starts each VM
    stop_thread,    \* the threads spawned at each change of the property
    handled,        \* how many changes were acted on
    last_value,     \* of the property, as property_monitor remembers it
    property,       \* vendor.qtvm.stop
    changed,        \* it was written since the watcher last looked
    writes,         \* how often
    boot_completed, \* sys.boot_completed
    manager,        \* whether the manager the handles belong to is alive
    state,          \* of each VM, main_state
    connection,     \* who connects to its userspace
    registered,     \* the VMs on whose list this client is
    others,         \* the other clients on the list of each VM
    ahead,          \* those of them that come before this client
    left,           \* history: the VMs whose list this client left early
    alive,          \* the other clients that have not died
    other_start,    \* a call of start by another client
    other_stop,     \* a call of stop or request_stop by another client
    recipient       \* a death recipient that found the list empty

proxyVars == <<todo, instances, starter, stop_thread>>
callbackVars == <<process, running>>
monitorVars == <<main, handled, last_value, changed>>
deviceVars == <<property, writes, boot_completed>>
stateVars == <<manager, state, connection>>
listVars == <<registered, others, ahead, left>>
otherVars == <<alive, other_start, other_stop, recipient>>
vmVars == <<stateVars, listVars, otherVars>>
vars == <<proxyVars, callbackVars, monitorVars, deviceVars, vmVars>>

States == {"Stopped", "Started", "UserspaceReady", "ShuttingDown", "Crashed"}
Ended == {"Stopped", "Crashed"}
Processes == {"up", "exit_0", "exit_1"}
MainSteps == {"setup", "monitor", "joining"}
StarterSteps == {"none", "boot_wait", "calling", "registered", "deciding", "booting", "done"}
StopSteps == {"none", "spawned", "request", "requesting", "waiting", "returned", "done"}
Connections == {"none", "thread", "monitor"}
OtherStartSteps == {"none", "registered", "deciding", "booting"}
OtherStopSteps == {"none", "requesting", "waiting", "killing"}
RecipientSteps == {"none", "called", "deciding"}
Changes == 1..MaxWrites

-----------------------------------------------------------------------------
(* The callbacks that change something: onStarting, onStopped and onCrashed. *)

(* Mutant of Told: a VM that has crashed stays in the set. *)
ToldOfStopOnly(v, s) ==
    /\ running' = IF s = "Started" THEN running \cup {v}
                  ELSE IF s = "Stopped" THEN running \ {v} ELSE running
    /\ process' = IF s \in Ended /\ running' = {} THEN "exit_1" ELSE process

(* Mutant of Told: only a userspace that is ready makes a VM a running one. *)
ToldOfReady(v, s) ==
    /\ running' = IF s = "UserspaceReady" THEN running \cup {v}
                  ELSE IF s \in Ended THEN running \ {v} ELSE running
    /\ process' = IF s \in Ended /\ running' = {} THEN "exit_1" ELSE process

Told(v, s) ==
    /\ running' = IF s = "Started" THEN running \cup {v}
                  ELSE IF s \in Ended THEN running \ {v} ELSE running
    /\ process' = IF s \in Ended /\ running' = {} THEN "exit_1" ELSE process

(* Mutant of Notified: the stop thread clears the list before it tells it of the end. *)
NotifiedCleared(v, s) == IF /\ v \in registered /\ s \notin Ended
                            /\ ahead[v] \subseteq alive
                         THEN Told(v, s) ELSE UNCHANGED callbackVars

(* A change of a VM's state is told along the list, up to the first dead client. *)
Notified(v, s) == IF v \in registered /\ ahead[v] \subseteq alive
                  THEN Told(v, s) ELSE UNCHANGED callbackVars

(* Mutant of StateFree: a start that waits for vm_instance has let go of main_state. *)
StateFreeOfWaits(v) == /\ manager
                       /\ starter[v] # "booting"
                       /\ other_start[v] # "booting"
                       /\ recipient[v] # "deciding"

(* main_state of v is held by no start or death recipient. *)
StateFree(v) == /\ manager
                /\ starter[v] \notin {"deciding", "booting"}
                /\ other_start[v] \notin {"deciding", "booting"}
                /\ recipient[v] # "deciding"

(* vm_instance of v is held by no boot and no call that stops it. *)
InstanceFree(v) == /\ manager
                   /\ starter[v] # "booting"
                   /\ other_start[v] # "booting"
                   /\ other_stop[v] = "none"
                   /\ \A k \in Changes : stop_thread[k][v] \notin {"requesting", "waiting"}

(* guest_client is held by the request that got a shutdown until it returns. *)
GuestClientFree(v) == /\ other_stop[v] # "waiting"
                      /\ \A k \in Changes : stop_thread[k][v] # "waiting"

-----------------------------------------------------------------------------
Init ==
    /\ process = "up"
    /\ main = "setup"
    /\ todo = Autostart
    /\ instances = {}
    /\ running = {}
    /\ starter = [v \in Vms |-> "none"]
    /\ stop_thread = [k \in Changes |-> [v \in Vms |-> "none"]]
    /\ handled = 0
    /\ last_value = Unset
    /\ property = Unset
    /\ changed = FALSE
    /\ writes = 0
    /\ boot_completed = FALSE
    /\ manager = TRUE
    /\ state = [v \in Vms |-> "Stopped"]
    /\ connection = [v \in Vms |-> "none"]
    /\ registered = {}
    /\ others = [v \in Vms |-> {}]
    /\ ahead = [v \in Vms |-> {}]
    /\ left = {}
    /\ alive = Others
    /\ other_start = [v \in Vms |-> "none"]
    /\ other_stop = [v \in Vms |-> "none"]
    /\ recipient = [v \in Vms |-> "none"]

-----------------------------------------------------------------------------
(* The main thread: set-up, then property_monitor *)

(* getVm fails when the manager has died. *)
SetUp(v) ==
    /\ main = "setup"
    /\ v \in todo
    /\ todo' = todo \ {v}
    /\ IF manager
         THEN /\ instances' = instances \cup {v}
              /\ starter' = [starter EXCEPT ![v] =
                                IF v \in EarlyVms THEN "calling" ELSE "boot_wait"]
         ELSE UNCHANGED <<instances, starter>>
    /\ UNCHANGED <<stop_thread, callbackVars, monitorVars, deviceVars, vmVars>>

StartMonitor ==
    /\ main = "setup"
    /\ todo = {}
    /\ main' = "monitor"
    /\ UNCHANGED <<handled, last_value, changed, proxyVars, callbackVars, deviceVars, vmVars>>

(* The watcher returns, the property is read: writes in between are one change. *)
SeeChange ==
    /\ main = "monitor"
    /\ changed
    /\ changed' = FALSE

SeeSameValue ==
    /\ SeeChange
    /\ property = last_value \/ instances = {}
    /\ last_value' = property
    /\ UNCHANGED <<main, handled, proxyVars, callbackVars, deviceVars, vmVars>>

Names(value) == IF value.all THEN instances ELSE value.names

(* Mutant of StopVms: the value is polled, not waited for, and not remembered. *)
StopVmsAgain ==
    /\ main = "monitor"
    /\ property # last_value /\ instances # {}
    /\ handled' = handled + 1
    /\ stop_thread' = [stop_thread EXCEPT ![handled + 1] =
                          [v \in Vms |-> IF v \in Names(property) THEN "spawned" ELSE "none"]]
    /\ main' = IF property.all THEN "joining" ELSE "monitor"
    /\ UNCHANGED <<todo, instances, starter, changed, last_value, callbackVars, deviceVars,
                   vmVars>>

StopVms ==
    /\ SeeChange
    /\ property # last_value /\ instances # {}
    /\ last_value' = property
    /\ handled' = handled + 1
    /\ stop_thread' = [stop_thread EXCEPT ![handled + 1] =
                          [v \in Vms |-> IF v \in Names(property) THEN "spawned" ELSE "none"]]
    /\ main' = IF property.all THEN "joining" ELSE "monitor"
    /\ UNCHANGED <<todo, instances, starter, callbackVars, deviceVars, vmVars>>

(* Only "all" joins its threads, and then ends the process. *)
ExitAfterAll ==
    /\ main = "joining"
    /\ \A v \in Vms : stop_thread[handled][v] \in {"none", "done"}
    /\ process' = "exit_0"
    /\ UNCHANGED <<running, monitorVars, proxyVars, deviceVars, vmVars>>

-----------------------------------------------------------------------------
(* The thread that starts v *)

MoveStarter(v, from, to) == /\ starter[v] = from
                            /\ starter' = [starter EXCEPT ![v] = to]

SeeBootCompleted(v) ==
    /\ MoveStarter(v, "boot_wait", "calling")
    /\ boot_completed
    /\ UNCHANGED <<todo, instances, stop_thread, callbackVars, monitorVars, deviceVars, vmVars>>

BootWaitTimesOut(v) ==
    /\ MoveStarter(v, "boot_wait", "done")
    /\ "boot_timeout" \in Faults
    /\ UNCHANGED <<todo, instances, stop_thread, callbackVars, monitorVars, deviceVars, vmVars>>

(* start: create_client, under vm_instance, puts this client last on the list. *)
StartRegisters(v) ==
    /\ MoveStarter(v, "calling", "registered")
    /\ InstanceFree(v)
    /\ registered' = registered \cup {v}
    /\ ahead' = [ahead EXCEPT ![v] = others[v]]
    /\ UNCHANGED <<todo, instances, stop_thread, others, left, callbackVars, monitorVars,
                   deviceVars, stateVars, otherVars>>

(* Then main_state, which it holds while it waits for vm_instance. *)
StartTakesState(v) ==
    /\ MoveStarter(v, "registered", "deciding")
    /\ StateFree(v)
    /\ UNCHANGED <<todo, instances, stop_thread, callbackVars, monitorVars, deviceVars, vmVars>>

(* The VM boots; one that has crashed is reported first, and not booted for a client
   that the report ends. *)
StartBootsVm(v) ==
    /\ InstanceFree(v)
    /\ state[v] \in Ended
    /\ IF state[v] = "Crashed" THEN Told(v, "Crashed") ELSE UNCHANGED callbackVars
    /\ MoveStarter(v, "deciding", IF process' = "up" THEN "booting" ELSE "done")
    /\ UNCHANGED <<todo, instances, stop_thread, monitorVars, deviceVars, vmVars>>

(* The caller is told the state, whether it still is on the list or not. *)
StartFindsVm(v) ==
    /\ MoveStarter(v, "deciding", "done")
    /\ InstanceFree(v)
    /\ state[v] \notin Ended
    /\ Told(v, state[v])
    /\ UNCHANGED <<todo, instances, stop_thread, monitorVars, deviceVars, vmVars>>

(* The VM runs: the list is told, and a thread connects to the userspace. *)
Boots(v) ==
    /\ manager
    /\ state' = [state EXCEPT ![v] = "Started"]
    /\ connection' = [connection EXCEPT ![v] = "thread"]
    /\ Notified(v, "Started")

StartTellsStarting(v) ==
    /\ MoveStarter(v, "booting", "done")
    /\ Boots(v)
    /\ UNCHANGED <<todo, instances, stop_thread, manager, monitorVars, deviceVars, listVars,
                   otherVars>>

(* The boot failed, or the manager is gone. *)
StartFails(v) ==
    /\ \/ MoveStarter(v, "booting", "done") /\ "start_error" \in Faults
       \/ /\ ~manager
          /\ \E from \in {"calling", "registered", "deciding", "booting"} :
                MoveStarter(v, from, "done")
    /\ UNCHANGED <<todo, instances, stop_thread, callbackVars, monitorVars, deviceVars, vmVars>>

-----------------------------------------------------------------------------
(* A thread of on_prop_changed, which asks for the stop of v *)

MoveStop(k, v, from, to) == /\ stop_thread[k][v] = from
                            /\ stop_thread' = [stop_thread EXCEPT ![k][v] = to]

LookUp(k, v) ==
    /\ MoveStop(k, v, "spawned", IF v \in instances THEN "request" ELSE "done")
    /\ UNCHANGED <<todo, instances, starter, callbackVars, monitorVars, deviceVars, vmVars>>

(* request_stop takes vm_instance and keeps it; who is not registered gets onError. *)
RequestFindsClient(k, v) ==
    /\ MoveStop(k, v, "request", IF v \in registered THEN "requesting" ELSE "returned")
    /\ InstanceFree(v)
    /\ UNCHANGED <<todo, instances, starter, callbackVars, monitorVars, deviceVars, vmVars>>

(* A VM that has started and that no thread connects to any more: onError, and Ok. *)
RequestErrs(k, v) ==
    /\ MoveStop(k, v, "requesting", "returned")
    /\ StateFree(v)
    /\ state[v] = "Started" /\ connection[v] # "thread"
    /\ UNCHANGED <<todo, instances, starter, callbackVars, monitorVars, deviceVars, vmVars>>

RequestTellsState(k, v) ==
    /\ MoveStop(k, v, "requesting", "returned")
    /\ StateFree(v)
    /\ state[v] \in {"Stopped", "Crashed", "ShuttingDown"}
    /\ Told(v, state[v])
    /\ UNCHANGED <<todo, instances, starter, monitorVars, deviceVars, vmVars>>

(* This client is off the list before the VM has ended. *)
RequestLeaves(v) ==
    /\ StateFree(v)
    /\ state[v] = "UserspaceReady"
    /\ registered' = registered \ {v}
    /\ left' = left \cup {v}

(* Other clients remain, or the guest refuses. *)
RequestDeparts(k, v) ==
    /\ MoveStop(k, v, "requesting", "returned")
    /\ RequestLeaves(v)
    /\ others[v] # {} \/ "refuse" \in Faults
    /\ UNCHANGED <<todo, instances, starter, others, ahead, callbackVars, monitorVars,
                   deviceVars, stateVars, otherVars>>

RequestShutsDown(k, v) ==
    /\ MoveStop(k, v, "requesting", "waiting")
    /\ RequestLeaves(v)
    /\ others[v] = {}
    /\ state' = [state EXCEPT ![v] = "ShuttingDown"]
    /\ UNCHANGED <<todo, instances, starter, manager, connection, others, ahead,
                   callbackVars, monitorVars, deviceVars, otherVars>>

(* The stop thread is joined: it had nobody to tell, so that its result is Ok. *)
RequestTellsStopped(k, v) ==
    /\ MoveStop(k, v, "waiting", "returned")
    /\ manager
    /\ state[v] \in Ended
    /\ Told(v, "Stopped")
    /\ UNCHANGED <<todo, instances, starter, monitorVars, deviceVars, vmVars>>

(* Mutant of RequestFails: the call is made again until it succeeds. *)
RequestRetries(k, v) ==
    /\ stop_thread[k][v] \in {"request", "requesting", "waiting"}
    /\ ~manager
    /\ stop_thread' = [stop_thread EXCEPT ![k][v] = "spawned"]
    /\ UNCHANGED <<todo, instances, starter, callbackVars, monitorVars, deviceVars, vmVars>>

(* An Err, as of a manager that has died, keeps the VM in the map. *)
RequestFails(k, v) ==
    /\ stop_thread[k][v] \in {"request", "requesting", "waiting"}
    /\ ~manager
    /\ stop_thread' = [stop_thread EXCEPT ![k][v] = "done"]
    /\ UNCHANGED <<todo, instances, starter, callbackVars, monitorVars, deviceVars, vmVars>>

Forget(k, v) ==
    /\ MoveStop(k, v, "returned", "done")
    /\ instances' = instances \ {v}
    /\ UNCHANGED <<todo, starter, callbackVars, monitorVars, deviceVars, vmVars>>

-----------------------------------------------------------------------------
(* The device: who writes the properties *)

WriteStopProperty(value) ==
    /\ writes < MaxWrites
    /\ writes' = writes + 1
    /\ property' = value
    /\ changed' = TRUE
    /\ UNCHANGED <<main, handled, last_value, boot_completed, proxyVars, callbackVars, vmVars>>

CompleteBoot ==
    /\ ~boot_completed
    /\ boot_completed' = TRUE
    /\ UNCHANGED <<property, writes, proxyVars, callbackVars, monitorVars, vmVars>>

-----------------------------------------------------------------------------
(* The VMs *)

(* Every thread that changes the state takes main_state and tells the list. *)
MoveVm(v, from, to) == /\ StateFree(v)
                       /\ state[v] = from
                       /\ state' = [state EXCEPT ![v] = to]
                       /\ Notified(v, to)

(* The userspace thread of a boot, or the monitor after a loss. *)
UserspaceComes(v) ==
    /\ connection[v] # "none"
    /\ MoveVm(v, "Started", "UserspaceReady")
    /\ connection' = [connection EXCEPT ![v] = "none"]
    /\ UNCHANGED <<manager, proxyVars, monitorVars, deviceVars, listVars, otherVars>>

(* Neither of them is followed by another attempt. *)
UserspaceFails(v) ==
    /\ "no_userspace" \in Faults
    /\ connection[v] # "none"
    /\ connection' = [connection EXCEPT ![v] = "none"]
    /\ UNCHANGED <<manager, state, proxyVars, callbackVars, monitorVars, deviceVars, listVars,
                   otherVars>>

UserspaceIsLost(v) ==
    /\ "handle_loss" \in Faults
    /\ MoveVm(v, "UserspaceReady", "Started")
    /\ connection' = [connection EXCEPT ![v] = "monitor"]
    /\ UNCHANGED <<manager, proxyVars, monitorVars, deviceVars, listVars, otherVars>>

(* The stop thread clears the list, unless telling it met a dead client.  A start
   of this client that has registered and waits for main_state goes on without it. *)
ClearList(v) ==
    IF others[v] \subseteq alive
    THEN /\ registered' = registered \ {v}
         /\ others' = [others EXCEPT ![v] = {}]
         /\ ahead' = [ahead EXCEPT ![v] = {}]
         /\ left' = IF starter[v] = "registered" THEN left \cup {v} ELSE left
    ELSE UNCHANGED listVars

EndVm(v) ==
    /\ \/ MoveVm(v, "ShuttingDown", "Stopped")
       \/ /\ "vm_exit" \in Faults
          /\ \E from \in States \ Ended, to \in Ended : MoveVm(v, from, to)
    /\ ClearList(v)
    /\ connection' = [connection EXCEPT ![v] = "none"]
    /\ UNCHANGED <<manager, proxyVars, monitorVars, deviceVars, otherVars>>

-----------------------------------------------------------------------------
(* The other clients: one start, one stop and one recipient at a time for each VM *)

MoveOther(steps, v, from, to) == steps[v] = from /\ steps' = [steps EXCEPT ![v] = to]

OtherRegisters(v) ==
    /\ MoveOther(other_start, v, "none", "registered")
    /\ InstanceFree(v)
    /\ \E c \in alive : others' = [others EXCEPT ![v] = @ \cup {c}]
    /\ UNCHANGED <<registered, ahead, left, alive, other_stop, recipient, proxyVars,
                   callbackVars, monitorVars, deviceVars, stateVars>>

OtherTakesState(v) ==
    /\ MoveOther(other_start, v, "registered", "deciding")
    /\ StateFree(v)
    /\ UNCHANGED <<alive, other_stop, recipient, proxyVars, callbackVars, monitorVars,
                   deviceVars, stateVars, listVars>>

(* A caller that has died cannot be told of a crash, and its start ends there. *)
OtherDecides(v) ==
    /\ InstanceFree(v)
    /\ \/ MoveOther(other_start, v, "deciding", "booting") /\ state[v] \in Ended
       \/ /\ MoveOther(other_start, v, "deciding", "none")
          /\ state[v] \notin Ended \/ (state[v] = "Crashed" /\ alive # Others)
    /\ UNCHANGED <<alive, other_stop, recipient, proxyVars, callbackVars, monitorVars,
                   deviceVars, stateVars, listVars>>

OtherBoots(v) ==
    /\ MoveOther(other_start, v, "booting", "none")
    /\ \/ Boots(v)
       \/ "start_error" \in Faults /\ UNCHANGED <<state, connection, callbackVars>>
    /\ UNCHANGED <<manager, alive, other_stop, recipient, proxyVars, monitorVars, deviceVars,
                   listVars>>

OtherStops(v) ==
    /\ MoveOther(other_stop, v, "none", "requesting")
    /\ InstanceFree(v)
    /\ others[v] \cap alive # {}
    /\ UNCHANGED <<alive, other_start, recipient, proxyVars, callbackVars, monitorVars,
                   deviceVars, stateVars, listVars>>

Without(c, v) == /\ others' = [others EXCEPT ![v] = @ \ {c}]
                 /\ ahead' = [ahead EXCEPT ![v] = @ \ {c}]

(* request_stop: the last to leave asks the guest to shut down. *)
OtherLeaves(v) ==
    /\ StateFree(v)
    /\ state[v] = "UserspaceReady"
    /\ \E c \in Others : Without(c, v)
    /\ \/ /\ v \notin registered /\ others'[v] = {}
          /\ state' = [state EXCEPT ![v] = "ShuttingDown"]
          /\ MoveOther(other_stop, v, "requesting", "waiting")
       \/ /\ v \in registered \/ others'[v] # {} \/ "refuse" \in Faults
          /\ UNCHANGED state
          /\ MoveOther(other_stop, v, "requesting", "none")
    /\ UNCHANGED <<manager, connection, registered, left, alive, other_start, recipient,
                   proxyVars, callbackVars, monitorVars, deviceVars>>

(* stop: the list is told of ShuttingDown first, and a dead client on it ends the call. *)
OtherKills(v) ==
    /\ "force_stop" \in Faults
    /\ StateFree(v)
    /\ state[v] \in {"Started", "UserspaceReady"}
    /\ state' = [state EXCEPT ![v] = "ShuttingDown"]
    /\ Notified(v, "ShuttingDown")
    /\ MoveOther(other_stop, v, "requesting",
                 IF others[v] \subseteq alive THEN "killing" ELSE "none")
    /\ UNCHANGED <<manager, connection, alive, other_start, recipient, proxyVars,
                   monitorVars, deviceVars, listVars>>

(* Nothing to stop, no userspace to ask, or the stop thread is joined. *)
OtherReturns(v) ==
    /\ manager
    /\ \/ /\ MoveOther(other_stop, v, "requesting", "none")
          /\ StateFree(v)
          /\ \/ state[v] \in Ended \cup {"ShuttingDown"}
             \/ state[v] = "Started" /\ connection[v] # "thread"
       \/ /\ \E from \in {"waiting", "killing"} : MoveOther(other_stop, v, from, "none")
          /\ state[v] \in Ended
    /\ UNCHANGED <<alive, other_start, recipient, proxyVars, callbackVars, monitorVars,
                   deviceVars, stateVars, listVars>>

OtherDies(c) ==
    /\ "client_dies" \in Faults
    /\ c \in alive
    /\ alive' = alive \ {c}
    /\ UNCHANGED <<other_start, other_stop, recipient, proxyVars, callbackVars, monitorVars,
                   deviceVars, stateVars, listVars>>

(* Its recipient takes it off the list. *)
DeathReported(c, v) ==
    /\ manager
    /\ c \in others[v] \ alive
    /\ Without(c, v)
    /\ IF v \notin registered /\ others'[v] = {}
         THEN MoveOther(recipient, v, "none", "called")
         ELSE UNCHANGED recipient
    /\ UNCHANGED <<registered, left, alive, other_start, other_stop, proxyVars, callbackVars,
                   monitorVars, deviceVars, stateVars>>

(* Of an empty list it goes on, after the thread that connects, to main_state. *)
RecipientTakesState(v) ==
    /\ MoveOther(recipient, v, "called", "deciding")
    /\ StateFree(v)
    /\ ~(state[v] = "Started" /\ connection[v] = "thread")
    /\ UNCHANGED <<alive, other_start, other_stop, proxyVars, callbackVars, monitorVars,
                   deviceVars, stateVars, listVars>>

(* Whatever the guest answers. *)
RecipientAsksGuest(v) ==
    /\ MoveOther(recipient, v, "deciding", "none")
    /\ manager
    /\ GuestClientFree(v)
    /\ state' = IF state[v] = "UserspaceReady" THEN [state EXCEPT ![v] = "ShuttingDown"]
                                               ELSE state
    /\ UNCHANGED <<manager, connection, alive, other_start, other_stop, proxyVars,
                   callbackVars, monitorVars, deviceVars, listVars>>

(* init starts the manager again, but the binder handles of the proxy are dead. *)
ManagerDies ==
    /\ "manager_dies" \in Faults
    /\ manager
    /\ manager' = FALSE
    /\ state' = [v \in Vms |-> "Stopped"]
    /\ connection' = [v \in Vms |-> "none"]
    /\ registered' = {}
    /\ others' = [v \in Vms |-> {}]
    /\ ahead' = [v \in Vms |-> {}]
    /\ other_start' = [v \in Vms |-> "none"]
    /\ other_stop' = [v \in Vms |-> "none"]
    /\ recipient' = [v \in Vms |-> "none"]
    /\ UNCHANGED <<left, alive, proxyVars, callbackVars, monitorVars, deviceVars>>

-----------------------------------------------------------------------------
MainStep == \/ \E v \in Vms : SetUp(v)
            \/ StartMonitor \/ SeeSameValue \/ StopVms \/ ExitAfterAll
StarterStep(v) == \/ SeeBootCompleted(v) \/ BootWaitTimesOut(v) \/ StartRegisters(v)
                  \/ StartTakesState(v) \/ StartBootsVm(v) \/ StartTellsStarting(v)
                  \/ StartFindsVm(v) \/ StartFails(v)
StopThreadStep(k, v) == \/ LookUp(k, v) \/ RequestFindsClient(k, v) \/ RequestErrs(k, v)
                        \/ RequestTellsState(k, v) \/ RequestDeparts(k, v)
                        \/ RequestShutsDown(k, v) \/ RequestTellsStopped(k, v)
                        \/ RequestFails(k, v) \/ Forget(k, v)
DeviceStep == CompleteBoot \/ \E value \in StopValues : WriteStopProperty(value)
ConnectStep(v) == UserspaceComes(v) \/ UserspaceFails(v)
VmStep(v) == ConnectStep(v) \/ UserspaceIsLost(v) \/ EndVm(v)
OtherStartStep(v) == OtherTakesState(v) \/ OtherDecides(v) \/ OtherBoots(v)
OtherStopStep(v) == OtherLeaves(v) \/ OtherKills(v) \/ OtherReturns(v)
RecipientStep(v) == RecipientTakesState(v) \/ RecipientAsksGuest(v)
OtherStep(v) == \/ OtherRegisters(v) \/ OtherStartStep(v) \/ OtherStops(v) \/ OtherStopStep(v)
                \/ RecipientStep(v) \/ \E c \in Others : DeathReported(c, v)

(* The service is oneshot: nothing follows its exit. *)
Next ==
    /\ process = "up"
    /\ \/ MainStep
       \/ \E v \in Vms : StarterStep(v) \/ VmStep(v) \/ OtherStep(v)
       \/ \E k \in Changes, v \in Vms : StopThreadStep(k, v)
       \/ DeviceStep
       \/ \E c \in Others : OtherDies(c)
       \/ ManagerDies

Spec == Init /\ [][Next]_vars

-----------------------------------------------------------------------------
(* Every variable holds what its Rust type and the properties of the device allow. *)
TypeOK ==
    /\ process \in Processes
    /\ main \in MainSteps
    /\ todo \subseteq Autostart
    /\ instances \subseteq Autostart
    /\ running \subseteq Vms
    /\ starter \in [Vms -> StarterSteps]
    /\ stop_thread \in [Changes -> [Vms -> StopSteps]]
    /\ handled \in 0..writes
    /\ last_value \in Values \cup {Unset}
    /\ property \in Values \cup {Unset}
    /\ changed \in BOOLEAN
    /\ writes \in 0..MaxWrites
    /\ boot_completed \in BOOLEAN
    /\ manager \in BOOLEAN
    /\ state \in [Vms -> States]
    /\ connection \in [Vms -> Connections]
    /\ registered \subseteq Vms
    /\ others \in [Vms -> SUBSET Others]
    /\ ahead \in [Vms -> SUBSET Others]
    /\ left \subseteq Vms
    /\ alive \subseteq Others
    /\ other_start \in [Vms -> OtherStartSteps]
    /\ other_stop \in [Vms -> OtherStopSteps]
    /\ recipient \in [Vms -> RecipientSteps]

(* As long as no other client has died, every VM that has started is in RUNNING_VMS of
   a proxy on its list, however the proxy's start, the other clients and a lost userspace
   got it there.  Its own start may still have to look at the state. *)
AllAlive == alive = Others
StartedIsRunning ==
    \A v \in registered : AllAlive /\ state[v] = "Started"
        => v \in running \/ starter[v] \in {"registered", "deciding"}

(* The other way round: a VM in RUNNING_VMS has not ended, unless another client has died,
   or the proxy left its list early: by a stop request, or by an end that overtook its
   start.  (A proxy whose manager died hears nothing.) *)
RunningHasNotEnded ==
    \A v \in running : manager /\ AllAlive /\ state[v] \in Ended => v \in left

(* What makes them inductive: a VM is set up once; a change of the property spawns threads
   of its own; a dead manager has no list; who is ahead is on it; a start goes on with the
   proxy on the list, or known to be off it; so that a VM in RUNNING_VMS has the proxy on
   its list, or was left. *)
AheadOnList == \A v \in Vms : ahead[v] \subseteq others[v]
SetUpOnce == \A v \in todo : starter[v] = "none"
ChangesInOrder ==
    /\ handled <= writes /\ (changed => handled < writes)
    /\ \A k \in Changes, v \in Vms : k > handled => stop_thread[k][v] = "none"
DeadHasNoList == ~manager => registered = {}
StartKeepsList ==
    \A v \in Vms : manager /\ starter[v] \in {"registered", "deciding"}
        => v \in registered \cup left
LeftEarly == \A v \in running : manager => v \in registered \cup left
ProxyInv == /\ SetUpOnce /\ ChangesInOrder /\ DeadHasNoList /\ AheadOnList
            /\ StartKeepsList /\ LeftEarly

-----------------------------------------------------------------------------
(* A start holds main_state and waits for vm_instance, which a call holds that waits for
   main_state or for the end of the VM, whose report needs main_state.  Or a death
   recipient holds main_state and waits for guest_client, which such a call holds. *)
AwaitsEnd(v) == \/ state[v] \notin Ended /\ other_stop[v] \in {"waiting", "killing"}
                \/ state[v] \notin Ended /\ \E k \in Changes : stop_thread[k][v] = "waiting"
Deadlocked(v) ==
    \/ /\ starter[v] = "deciding" \/ other_start[v] = "deciding"
       /\ \/ AwaitsEnd(v)
          \/ other_stop[v] = "requesting"
          \/ \E k \in Changes : stop_thread[k][v] = "requesting"
    \/ recipient[v] = "deciding" /\ ~GuestClientFree(v) /\ AwaitsEnd(v)

(* Such a deadlock is no passing moment: it lasts until the manager dies. *)
DeadlockLasts == \A v \in Vms : Deadlocked(v) /\ manager' => Deadlocked(v)'
DeadlocksStay == [][DeadlockLasts]_vars

(* main_state is held by one of those that hold it across steps. *)
StateHeldOnce ==
    \A v \in Vms : /\ starter[v] \in {"deciding", "booting"} =>
                        other_start[v] \notin {"deciding", "booting"} /\ recipient[v] # "deciding"
                   /\ other_start[v] \in {"deciding", "booting"} => recipient[v] # "deciding"

(* A thread that can go on does, and a request gets vm_instance that others take again and
   again: no other mutex is contended for ever, as who holds vm_instance and waits for
   main_state keeps the starts away from it.  An attempt to connect comes to an end, and
   so does a VM that a call waits for, whose guest has accepted the shutdown or that was
   killed.  No other client needs to call or to die. *)
Fairness ==
    /\ WF_vars(process = "up" /\ MainStep)
    /\ \A v \in Vms : /\ WF_vars(process = "up" /\ StarterStep(v))
                      /\ WF_vars(process = "up" /\ ConnectStep(v))
                      /\ WF_vars(process = "up" /\ AwaitsEnd(v) /\ EndVm(v))
                      /\ WF_vars(process = "up" /\ OtherStartStep(v))
                      /\ WF_vars(process = "up" /\ OtherStopStep(v))
                      /\ WF_vars(process = "up" /\ RecipientStep(v))
    /\ \A k \in Changes, v \in Vms : SF_vars(process = "up" /\ StopThreadStep(k, v))

FairSpec == Spec /\ Fairness

(* "Exit main thread if stop is called for all VMs": once "all" was seen the process ends,
   whatever becomes of the single requests, unless the calls of a VM block each other. *)
AllEnds == main = "joining" ~> process # "up" \/ \E v \in Vms : Deadlocked(v)
=============================================================================
