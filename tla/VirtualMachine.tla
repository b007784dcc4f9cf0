---------------------------- MODULE VirtualMachine ----------------------------
(***************************************************************************)
(* One virtual machine object of the qcvm manager: the binder calls start, *)
(* stop and request_stop, the death recipient of every registered client,  *)
(* the userspace, monitor and stop threads every boot spawns, and the      *)
(* mutexes all of them share.                                              *)
(*                                                                         *)
(* A step is what a thread does between two places where it can block:     *)
(* taking one of the four mutexes of Locks, joining a thread, connecting   *)
(* to the guest or waiting for the VM to end.  The mutex of vm_clients is  *)
(* held across one such place only, where request_stop takes guest_client, *)
(* which is then free; those of the raw AVF pointers across none.  So they *)
(* need no owner here.  The guest's answer to a shutdown is part of a step.*)
(***************************************************************************)
EXTENDS Naturals, FiniteSets, SequencesExt

CONSTANTS
    Clients,    \* the callback binders that clients hand to the manager
    Callers,    \* the binder threads that can run a call of a client at a time
    None,       \* the owner of a free mutex, the argument of an idle thread
    MaxBoots,   \* bound: how many VMs are created in a behaviour
    Transport,  \* "mink", "vsock", or "none" when mink_uid and vsock_port are 0
    ForceStop,  \* the force_stop flag of the VM's configuration
    Overlap,    \* the sets of operations that may be in progress together
    Faults,     \* what may go wrong, see AllFaults
    Mortals     \* the clients whose process may die

AllFaults == {"vm_exit", "veto", "handle_loss", "start_error",
              "missing_image", "connect_fail"}

ASSUME ActorsAssumption ==
    /\ Clients \cap Callers = {}
    /\ None \notin Clients \cup Callers
ASSUME BoundAssumption == MaxBoots \in Nat \ {0}
ASSUME ConfigAssumption ==
    /\ Transport \in {"mink", "vsock", "none"}
    /\ ForceStop \in BOOLEAN
    /\ Faults \subseteq AllFaults
    /\ Mortals \subseteq Clients

VARIABLES
    process,          \* "up", or what made the service abort
    state,            \* main_state
    lock,             \* the owner of each mutex
    clients,          \* vm_clients, in the order of registration
    alive,            \* the processes of the clients
    told,             \* the last lifecycle callback this process sent each client
    boot,             \* the VM that avf_vm_handle holds, 0 before the first
    vm,               \* what AVF and the guest make of each VM
    virtmgr,          \* whether virtmgr_service holds a pointer
    userspace_thread, \* wait_for_userspace_thread: the boot joined, or 0
    stop_thread,      \* wait_for_stop_thread: the boot joined, or 0
    guest_client,     \* the connection stored for shutdown
    guest_callback,   \* the connection whose availability the monitor reads
    worker,           \* where the userspace and monitor threads are
    conn,             \* the connection such a thread has just made
    stopper,          \* where the stop thread of each boot is
    pc,               \* where the callers and the death recipients are
    arg,              \* the client a caller works for
    target            \* the boot whose thread an actor joins

abortVars == <<process>>
clientVars == <<clients, alive, told>>
vmVars == <<boot, vm, virtmgr, stopper>>
handleVars == <<userspace_thread, stop_thread>>
guestVars == <<guest_client, guest_callback, worker, conn>>
callVars == <<lock, pc, arg, target>>
vars == <<process, state, lock, clients, alive, told, boot, vm, virtmgr,
          userspace_thread, stop_thread, guest_client, guest_callback, worker,
          conn, stopper, pc, arg, target>>

-----------------------------------------------------------------------------
(* Values *)

States == {"Stopped", "Started", "UserspaceReady", "ShuttingDown", "Crashed"}
Boots == 1..MaxBoots
Handles == 0..MaxBoots
Locks == {"instance", "state", "userspace_thread", "guest_client"}

(* The death recipient of client c runs as actor c. *)
Actors == Callers \cup Clients

(* A VM is running until it ends, halting once its guest accepted a shutdown,
   and destroyed when the stop thread has freed its AVF objects. *)
VmStatus == {"none", "running", "halting", "exited", "crashed", "destroyed"}
Answering(b) == vm[b] \in {"running", "halting"}
Live(b) == vm[b] \notin {"none", "destroyed"}

Connections == [boot : Handles, up : BOOLEAN]
NoConnection == [boot |-> 0, up |-> FALSE]
(* A connection closes with its VM, or earlier when the guest's service restarts. *)
Open(g) == g.up /\ Answering(g.boot)

Workers == {"userspace", "monitor"} \X Boots
WorkerSteps == {"none", "connecting", "give_up", "store_client", "ready", "watch",
                "check", "clear_client", "report_lost", "done"}

StopperSteps == {"none", "spawned", "waiting", "report_stopped", "report_crashed",
                 "ok", "failed"}
Finished == {"ok", "failed"}

Aborts == {"guest_client_none", "no_stop_handle", "no_vm_handle", "no_virtmgr",
           "missing_image", "stale_handle"}

Ops == {"start", "stop", "request_stop"}
StartSteps == {"start_register", "start_lock_state", "start_lock_instance",
               "start_vm", "start_finish"}
StopSteps == {"stop_lock_instance", "stop_lock_state", "stop_join"}
UserspaceSteps == {"check_started", "take_userspace", "join_userspace"}
RequestSteps == UserspaceSteps \cup
    {"request_lock_instance", "request_lock_state", "request_join_stop"}
DeathSteps == UserspaceSteps \cup
    {"death_remove", "death_lock_state", "death_lock_guest"}
Steps == {"idle"} \cup StartSteps \cup StopSteps \cup RequestSteps \cup DeathSteps
StepsOf == [start |-> StartSteps, stop |-> StopSteps, request_stop |-> RequestSteps]
FirstStep == [start |-> "start_register", stop |-> "stop_lock_instance",
              request_stop |-> "request_lock_instance"]

InProgress == {op \in Ops : \E t \in Callers : pc[t] \in StepsOf[op]}

-----------------------------------------------------------------------------
(* Mutexes and calls *)

Free(l) == lock[l] = None
Acquire(t, l) == lock' = [lock EXCEPT ![l] = t]
Release(t) == lock' = [l \in Locks |-> IF lock[l] = t THEN None ELSE lock[l]]

Goto(t, step) == /\ pc' = [pc EXCEPT ![t] = step]
                 /\ UNCHANGED arg

(* The call or the recipient ends and its guards are dropped. *)
Return(t) == /\ pc' = [pc EXCEPT ![t] = "idle"]
             /\ arg' = [u \in Callers |-> IF u = t THEN None ELSE arg[u]]
             /\ target' = [target EXCEPT ![t] = 0]
             /\ Release(t)

Abort(reason) == process' = reason

(* Callbacks: notify_clients walks the list and stops at the first client that
   cannot be reached, a callback to one client ignores its failure. *)
Registered(c) == Contains(clients, c)
Position(c) == CHOOSE i \in DOMAIN clients : clients[i] = c
Without(c) == IF Registered(c) THEN RemoveAt(clients, Position(c)) ELSE clients
Reached == {clients[i] : i \in {j \in DOMAIN clients :
                                   \A k \in 1..j : alive[clients[k]]}}
AllReached == \A i \in DOMAIN clients : alive[clients[i]]
Notify(s) == told' = [c \in Clients |-> IF c \in Reached THEN s ELSE told[c]]
Tell(c, s) == told' = [told EXCEPT ![c] = IF alive[c] THEN s ELSE @]

(* Mutant of Kill: the VM ends with a reason the stop thread does not know. *)
KillUnknownReason(b) == [vm EXCEPT ![b] = IF @ \in {"running", "halting"} THEN "killed" ELSE @]

(* AVirtualMachine_stop: a handle used after AVirtualMachine_destroy is undefined
   behaviour, which may or may not bring the process down. *)
Kill(b) == [vm EXCEPT ![b] = IF @ \in {"running", "halting"} THEN "exited" ELSE @]
KillOutcomes(b) == IF vm[b] = "destroyed" THEN {"up", "stale_handle"} ELSE {"up"}

(* The guest's answer to a shutdown over the connection g. *)
CanRefuse(g) == ~Open(g) \/ "veto" \in Faults
Halt(g) == [vm EXCEPT ![g.boot] = "halting"]

-----------------------------------------------------------------------------
Init ==
    /\ process = "up"
    /\ state = "Stopped"
    /\ lock = [l \in Locks |-> None]
    /\ clients = <<>>
    /\ alive = [c \in Clients |-> TRUE]
    /\ told = [c \in Clients |-> "NotStarted"]
    /\ boot = 0
    /\ vm = [b \in Boots |-> "none"]
    /\ virtmgr = FALSE
    /\ userspace_thread = 0
    /\ stop_thread = 0
    /\ guest_client = NoConnection
    /\ guest_callback = NoConnection
    /\ worker = [w \in Workers |-> "none"]
    /\ conn = [w \in Workers |-> NoConnection]
    /\ stopper = [b \in Boots |-> "none"]
    /\ pc = [t \in Actors |-> "idle"]
    /\ arg = [t \in Callers |-> None]
    /\ target = [t \in Actors |-> 0]

(* A client calls op on a free binder thread. *)
Begin(t, c, op) ==
    /\ pc[t] = "idle"
    /\ alive[c]
    /\ InProgress \cup {op} \in Overlap
    /\ pc' = [pc EXCEPT ![t] = FirstStep[op]]
    /\ arg' = [arg EXCEPT ![t] = c]
    /\ UNCHANGED <<abortVars, state, lock, target, clientVars, vmVars, handleVars, guestVars>>

-----------------------------------------------------------------------------
(* start: create_client under vm_instance, then main_state, then vm_instance *)

(* Mutant of StartRegister: no find_client before the push. *)
StartRegisterAgain(t) ==
    /\ pc[t] = "start_register"
    /\ Free("instance")
    /\ clients' = Append(clients, arg[t])
    /\ Goto(t, "start_lock_state")
    /\ UNCHANGED <<abortVars, state, lock, target, alive, told, vmVars, handleVars, guestVars>>

StartRegister(t) ==
    /\ pc[t] = "start_register"
    /\ Free("instance")
    /\ UNCHANGED <<abortVars, state, alive, told, vmVars, handleVars, guestVars>>
    /\ IF Registered(arg[t]) \/ alive[arg[t]]
         THEN /\ clients' = IF Registered(arg[t]) THEN clients ELSE Append(clients, arg[t])
              /\ Goto(t, "start_lock_state")
              /\ UNCHANGED <<lock, target>>
         ELSE /\ Return(t)      \* link_to_death fails
              /\ UNCHANGED clients

(* Mutant of StartLockState: the guard is dropped once the state was copied. *)
StartCopiesState(t) ==
    /\ pc[t] = "start_lock_state"
    /\ Free("state")
    /\ Goto(t, "start_lock_instance")
    /\ UNCHANGED <<abortVars, state, lock, target, clientVars, vmVars, handleVars, guestVars>>

StartLockState(t) ==
    /\ pc[t] = "start_lock_state"
    /\ Free("state")
    /\ Acquire(t, "state")
    /\ Goto(t, "start_lock_instance")
    /\ UNCHANGED <<abortVars, state, target, clientVars, vmVars, handleVars, guestVars>>

(* The VM is there already, or the caller of a crashed VM cannot be told. *)
StartReturns(t) ==
    /\ pc[t] = "start_lock_instance"
    /\ Free("instance")
    /\ state # "Stopped" /\ (state = "Crashed" => ~alive[arg[t]])
    /\ Tell(arg[t], state)
    /\ Return(t)
    /\ UNCHANGED <<abortVars, state, clients, alive, vmVars, handleVars, guestVars>>

(* Mutant of StartProceeds: a VM that is shutting down is taken for stopped. *)
StartProceedsEarly(t) ==
    /\ pc[t] = "start_lock_instance"
    /\ Free("instance")
    /\ state \in {"Stopped", "Crashed", "ShuttingDown"}
    /\ Acquire(t, "instance")
    /\ Goto(t, "start_vm")
    /\ UNCHANGED <<abortVars, state, target, clientVars, vmVars, handleVars, guestVars>>

StartProceeds(t) ==
    /\ pc[t] = "start_lock_instance"
    /\ Free("instance")
    /\ \/ state = "Stopped" /\ UNCHANGED told
       \/ state = "Crashed" /\ alive[arg[t]] /\ Tell(arg[t], "Crashed")
    /\ Acquire(t, "instance")
    /\ Goto(t, "start_vm")
    /\ UNCHANGED <<abortVars, state, target, clients, alive, vmVars, handleVars, guestVars>>

(* start_vm fails before or after get_virtmgr stored a service. *)
StartVmFails(t) ==
    /\ pc[t] = "start_vm"
    /\ "start_error" \in Faults \/ boot = MaxBoots
    /\ virtmgr' \in {virtmgr, TRUE}
    /\ Return(t)
    /\ UNCHANGED <<abortVars, state, clientVars, boot, vm, stopper, handleVars, guestVars>>

(* create_avf_config expects the images and the CMA device to be there. *)
StartVmAborts(t) ==
    /\ pc[t] = "start_vm"
    /\ "missing_image" \in Faults
    /\ Abort("missing_image")
    /\ UNCHANGED <<state, callVars, clientVars, vmVars, handleVars, guestVars>>

(* Mutant of CreateVm: virtmgr_service is not created again for the next VM. *)
CreateVmOnOldVirtmgr(t) ==
    /\ pc[t] = "start_vm"
    /\ boot < MaxBoots
    /\ boot' = boot + 1
    /\ vm' = [vm EXCEPT ![boot + 1] = "running"]
    /\ virtmgr' = (virtmgr \/ boot = 0)
    /\ Goto(t, "start_finish")
    /\ UNCHANGED <<abortVars, state, lock, target, clientVars, stopper, handleVars, guestVars>>

(* start_vm up to the spawn of the userspace thread. *)
CreateVm(t) ==
    /\ pc[t] = "start_vm"
    /\ boot < MaxBoots
    /\ boot' = boot + 1
    /\ vm' = [vm EXCEPT ![boot + 1] = "running"]
    /\ virtmgr' = TRUE
    /\ worker' = IF Transport = "none" THEN worker
                 ELSE [worker EXCEPT ![<<"userspace", boot + 1>>] = "connecting"]
    /\ Goto(t, "start_finish")
    /\ UNCHANGED <<abortVars, state, lock, target, clientVars, stopper, handleVars,
                   guest_client, guest_callback, conn>>

(* The rest of start_vm and of start: the thread handles are stored, the monitor
   and the stop thread spawned, the clients told. *)
StartFinish(t) ==
    /\ pc[t] = "start_finish"
    /\ IF Transport = "none" THEN UNCHANGED <<userspace_thread, worker>>
       ELSE /\ Free("userspace_thread")
            /\ userspace_thread' = boot
            /\ worker' = [worker EXCEPT ![<<"monitor", boot>>] = "watch"]
    /\ stopper' = [stopper EXCEPT ![boot] = "spawned"]
    /\ stop_thread' = boot
    /\ state' = "Started"
    /\ Notify("Started")
    /\ Return(t)
    /\ UNCHANGED <<abortVars, clients, alive, boot, vm, virtmgr,
                   guest_client, guest_callback, conn>>

-----------------------------------------------------------------------------
(* stop: vm_instance, then main_state; vm_instance is held through the join *)

StopLockInstance(t) ==
    /\ pc[t] = "stop_lock_instance"
    /\ Free("instance")
    /\ IF ForceStop /\ Registered(arg[t])
         THEN Acquire(t, "instance") /\ Goto(t, "stop_lock_state") /\ UNCHANGED target
         ELSE Return(t)
    /\ UNCHANGED <<abortVars, state, clientVars, vmVars, handleVars, guestVars>>

StopNothingToDo(t) ==
    /\ pc[t] = "stop_lock_state"
    /\ Free("state")
    /\ state \in {"ShuttingDown", "Stopped", "Crashed"}
    /\ Tell(arg[t], state)
    /\ Return(t)
    /\ UNCHANGED <<abortVars, state, clients, alive, vmVars, handleVars, guestVars>>

(* A client that cannot be told ends the call with the state already set. *)
StopCannotNotify(t) ==
    /\ pc[t] = "stop_lock_state"
    /\ Free("state")
    /\ state \in {"Started", "UserspaceReady"}
    /\ ~AllReached
    /\ state' = "ShuttingDown"
    /\ Notify("ShuttingDown")
    /\ Return(t)
    /\ UNCHANGED <<abortVars, clients, alive, vmVars, handleVars, guestVars>>

(* Mutant of StopKillsVm: the stop thread is joined, the VM never stopped. *)
StopOnlyJoins(t) ==
    /\ pc[t] = "stop_lock_state"
    /\ Free("state")
    /\ state \in {"Started", "UserspaceReady"}
    /\ stop_thread # 0
    /\ state' = "ShuttingDown"
    /\ Notify("ShuttingDown")
    /\ target' = [target EXCEPT ![t] = stop_thread]
    /\ stop_thread' = 0
    /\ Goto(t, "stop_join")
    /\ UNCHANGED <<abortVars, lock, clients, alive, vmVars, userspace_thread, guestVars>>

StopKillsVm(t) ==
    /\ pc[t] = "stop_lock_state"
    /\ Free("state")
    /\ state \in {"Started", "UserspaceReady"}
    /\ AllReached
    /\ state' = "ShuttingDown"
    /\ Notify("ShuttingDown")
    /\ vm' = Kill(boot)
    /\ \E outcome \in KillOutcomes(boot) :
          Abort(IF outcome = "up" /\ stop_thread = 0 THEN "no_stop_handle" ELSE outcome)
    /\ target' = [target EXCEPT ![t] = stop_thread]
    /\ stop_thread' = 0
    /\ Goto(t, "stop_join")
    /\ UNCHANGED <<lock, clients, alive, boot, virtmgr, stopper, userspace_thread, guestVars>>

StopJoin(t) ==
    /\ pc[t] = "stop_join"
    /\ stopper[target[t]] \in Finished
    /\ Return(t)
    /\ UNCHANGED <<abortVars, state, clientVars, vmVars, handleVars, guestVars>>

-----------------------------------------------------------------------------
(* Waiting for the userspace thread, as request_stop and the death recipient do *)

ThenLockState(t) == IF t \in Clients THEN "death_lock_state" ELSE "request_lock_state"

(* Mutant of CheckStarted: main_state is not dropped before the join. *)
CheckStartedKeepsState(t) ==
    /\ pc[t] = "check_started"
    /\ Free("state")
    /\ IF state = "Started" THEN Goto(t, "take_userspace") /\ Acquire(t, "state")
       ELSE Goto(t, ThenLockState(t)) /\ UNCHANGED lock
    /\ UNCHANGED <<abortVars, state, target, clientVars, vmVars, handleVars, guestVars>>

CheckStarted(t) ==
    /\ pc[t] = "check_started"
    /\ Free("state")
    /\ Goto(t, IF state = "Started" THEN "take_userspace" ELSE ThenLockState(t))
    /\ UNCHANGED <<abortVars, state, lock, target, clientVars, vmVars, handleVars, guestVars>>

(* The guard of wait_for_userspace_thread is held while its thread is joined. *)
TakeUserspace(t) ==
    /\ pc[t] = "take_userspace"
    /\ Free("userspace_thread")
    /\ IF userspace_thread = 0
         THEN Goto(t, ThenLockState(t)) /\ UNCHANGED <<lock, target>>
         ELSE /\ Acquire(t, "userspace_thread")
              /\ target' = [target EXCEPT ![t] = userspace_thread]
              /\ Goto(t, "join_userspace")
    /\ userspace_thread' = 0
    /\ UNCHANGED <<abortVars, state, clientVars, vmVars, stop_thread, guestVars>>

JoinUserspace(t) ==
    /\ pc[t] = "join_userspace"
    /\ worker[<<"userspace", target[t]>>] = "done"
    /\ lock' = [lock EXCEPT !["userspace_thread"] = None]
    /\ target' = [target EXCEPT ![t] = 0]
    /\ Goto(t, ThenLockState(t))
    /\ UNCHANGED <<abortVars, state, clientVars, vmVars, handleVars, guestVars>>

-----------------------------------------------------------------------------
(* request_stop: vm_instance is held throughout, guest_client through the join *)

(* Mutant of RequestLockInstance: vm_instance is dropped after find_client. *)
RequestChecksInstance(t) ==
    /\ pc[t] = "request_lock_instance"
    /\ Free("instance")
    /\ IF Transport # "none" /\ Registered(arg[t])
         THEN Goto(t, "check_started") /\ UNCHANGED <<lock, target>>
         ELSE Return(t)
    /\ UNCHANGED <<abortVars, state, clientVars, vmVars, handleVars, guestVars>>

RequestLockInstance(t) ==
    /\ pc[t] = "request_lock_instance"
    /\ Free("instance")
    /\ IF Transport # "none" /\ Registered(arg[t])
         THEN Acquire(t, "instance") /\ Goto(t, "check_started") /\ UNCHANGED target
         ELSE Return(t)
    /\ UNCHANGED <<abortVars, state, clientVars, vmVars, handleVars, guestVars>>

(* Still Started after the join: the userspace could not connect, onError. *)
RequestNothingToDo(t) ==
    /\ pc[t] = "request_lock_state"
    /\ Free("state")
    /\ state # "UserspaceReady"
    /\ IF state = "Started" THEN UNCHANGED told ELSE Tell(arg[t], state)
    /\ Return(t)
    /\ UNCHANGED <<abortVars, state, clients, alive, vmVars, handleVars, guestVars>>

RequestDeparts(t) ==
    /\ pc[t] = "request_lock_state"
    /\ Free("state")
    /\ state = "UserspaceReady"
    /\ clients' = Without(arg[t])

RequestLeavesOthers(t) ==
    /\ RequestDeparts(t)
    /\ Without(arg[t]) # <<>>
    /\ Return(t)
    /\ UNCHANGED <<abortVars, state, alive, told, vmVars, handleVars, guestVars>>

(* The last client asks the guest to shut down. *)
RequestHasNoGuest(t) ==
    /\ RequestDeparts(t)
    /\ Without(arg[t]) = <<>>
    /\ Free("guest_client")
    /\ guest_client = NoConnection
    /\ Abort("guest_client_none")
    /\ UNCHANGED <<state, callVars, alive, told, vmVars, handleVars, guestVars>>

RequestRefused(t) ==
    /\ RequestDeparts(t)
    /\ Without(arg[t]) = <<>>
    /\ Free("guest_client")
    /\ guest_client # NoConnection
    /\ CanRefuse(guest_client)
    /\ Return(t)
    /\ UNCHANGED <<abortVars, state, alive, told, vmVars, handleVars, guestVars>>

RequestAccepted(t) ==
    /\ RequestDeparts(t)
    /\ Without(arg[t]) = <<>>
    /\ Free("guest_client")
    /\ Open(guest_client)
    /\ state' = "ShuttingDown"
    /\ Tell(arg[t], "ShuttingDown")
    /\ vm' = Halt(guest_client)
    /\ Abort(IF stop_thread = 0 THEN "no_stop_handle" ELSE "up")
    /\ Acquire(t, "guest_client")
    /\ target' = [target EXCEPT ![t] = stop_thread]
    /\ stop_thread' = 0
    /\ Goto(t, "request_join_stop")
    /\ UNCHANGED <<alive, boot, virtmgr, stopper, userspace_thread, guestVars>>

(* Had the stop thread failed, the state would go back to UserspaceReady. *)
RequestJoinStop(t) ==
    /\ pc[t] = "request_join_stop"
    /\ stopper[target[t]] \in Finished
    /\ IF stopper[target[t]] = "ok"
         THEN Tell(arg[t], "Stopped") /\ UNCHANGED state
         ELSE Free("state") /\ state' = "UserspaceReady" /\ UNCHANGED told
    /\ Return(t)
    /\ UNCHANGED <<abortVars, clients, alive, vmVars, handleVars, guestVars>>

-----------------------------------------------------------------------------
(* The death recipient of client c, see create_client *)

DeliverDeath(c) ==
    /\ ~alive[c]
    /\ Registered(c)
    /\ pc[c] = "idle"
    /\ Goto(c, "death_remove")
    /\ UNCHANGED <<abortVars, state, lock, target, clientVars, vmVars, handleVars, guestVars>>

DeathLeavesOthers(c) ==
    /\ pc[c] = "death_remove"
    /\ clients' = Without(c)
    /\ clients' # <<>>
    /\ Return(c)
    /\ UNCHANGED <<abortVars, state, alive, told, vmVars, handleVars, guestVars>>

(* Mutant of DeathOfLast: guest_client is locked before the wait for the userspace thread. *)
DeathLocksGuestFirst(c) ==
    /\ pc[c] = "death_remove"
    /\ Transport # "none"
    /\ Free("guest_client")
    /\ clients' = Without(c)
    /\ clients' = <<>>
    /\ Acquire(c, "guest_client")
    /\ Goto(c, "check_started")
    /\ UNCHANGED <<abortVars, state, target, alive, told, vmVars, handleVars, guestVars>>

DeathOfLast(c) ==
    /\ pc[c] = "death_remove"
    /\ Transport # "none"
    /\ clients' = Without(c)
    /\ clients' = <<>>
    /\ Goto(c, "check_started")
    /\ UNCHANGED <<abortVars, state, lock, target, alive, told, vmVars, handleVars, guestVars>>

(* Without a guest connection the VM is stopped at once, in any state. *)
DeathKillsVm(c) ==
    /\ pc[c] = "death_remove"
    /\ Transport = "none"
    /\ clients' = Without(c)
    /\ clients' = <<>>
    /\ IF boot = 0 THEN Abort("no_vm_handle") /\ UNCHANGED vm
       ELSE /\ \E outcome \in KillOutcomes(boot) : Abort(outcome)
            /\ vm' = Kill(boot)
    /\ Return(c)
    /\ UNCHANGED <<state, alive, told, boot, virtmgr, stopper, handleVars, guestVars>>

DeathLockState(c) ==
    /\ pc[c] = "death_lock_state"
    /\ Free("state")
    /\ Acquire(c, "state")
    /\ Goto(c, "death_lock_guest")
    /\ UNCHANGED <<abortVars, state, target, clientVars, vmVars, handleVars, guestVars>>

(* The guest's answer is not looked at, nor are clients registered meanwhile. *)
DeathShutsDown(c) ==
    /\ pc[c] = "death_lock_guest"
    /\ Free("guest_client")
    /\ IF state # "UserspaceReady" THEN UNCHANGED <<abortVars, state, vm>>
       ELSE /\ Abort(IF guest_client = NoConnection THEN "guest_client_none" ELSE "up")
            /\ \/ Open(guest_client) /\ vm' = Halt(guest_client)
               \/ CanRefuse(guest_client) /\ UNCHANGED vm
            /\ state' = "ShuttingDown"
    /\ Return(c)
    /\ UNCHANGED <<clientVars, boot, virtmgr, stopper, handleVars, guestVars>>

-----------------------------------------------------------------------------
(* The userspace thread and the monitor, each a connection attempt at its core *)

MoveWorker(w, from, to) == /\ worker[w] = from
                           /\ worker' = [worker EXCEPT ![w] = to]

(* The service is found by its uid or port: the VM that answers need not be the
   one the thread was spawned for.  The callback is stored, then the client. *)
ConnectSucceeds(w) ==
    /\ MoveWorker(w, "connecting", "store_client")
    /\ \E b \in Boots : /\ Answering(b)
                        /\ conn' = [conn EXCEPT ![w] = [boot |-> b, up |-> TRUE]]
    /\ guest_callback' = conn'[w]
    /\ UNCHANGED <<abortVars, state, callVars, clientVars, vmVars, handleVars, guest_client>>

ConnectFails(w) ==
    /\ MoveWorker(w, "connecting", IF w[1] = "userspace" THEN "give_up" ELSE "watch")
    /\ "connect_fail" \in Faults \/ ~\E b \in Boots : Answering(b)
    /\ UNCHANGED <<abortVars, state, callVars, clientVars, vmVars, handleVars,
                   guest_client, guest_callback, conn>>

UserspaceGivesUp(w) ==
    /\ MoveWorker(w, "give_up", "done")
    /\ Free("guest_client")
    /\ guest_client' = NoConnection
    /\ UNCHANGED <<abortVars, state, callVars, clientVars, vmVars, handleVars,
                   guest_callback, conn>>

StoreClient(w) ==
    /\ MoveWorker(w, "store_client", "ready")
    /\ Free("guest_client")
    /\ guest_client' = conn[w]
    /\ conn' = [conn EXCEPT ![w] = NoConnection]
    /\ UNCHANGED <<abortVars, state, callVars, clientVars, vmVars, handleVars, guest_callback>>

(* Whatever the state has become meanwhile, it is UserspaceReady now. *)
ReportReady(w) ==
    /\ MoveWorker(w, "ready", IF w[1] = "userspace" THEN "done" ELSE "watch")
    /\ Free("state")
    /\ state' = "UserspaceReady"
    /\ Notify("UserspaceReady")
    /\ UNCHANGED <<abortVars, callVars, clients, alive, vmVars, handleVars,
                   guest_client, guest_callback, conn>>

(* A poll that finds the VM Started changes nothing. *)
MonitorPolls(w) ==
    /\ \/ /\ state = "UserspaceReady"
          /\ MoveWorker(w, "watch", "check")
       \/ /\ state \in {"Stopped", "Crashed", "ShuttingDown"}
          /\ MoveWorker(w, "watch", "done")
    /\ Free("state")
    /\ UNCHANGED <<abortVars, state, callVars, clientVars, vmVars, handleVars,
                   guest_client, guest_callback, conn>>

(* Only a mink connection reports its loss, through the close notifier, some time after
   it closed. *)
HandleLost == Transport = "mink" /\ guest_callback.boot # 0 /\ ~Open(guest_callback)
MonitorChecks(w) ==
    /\ \/ MoveWorker(w, "check", "watch")
       \/ HandleLost /\ MoveWorker(w, "check", "clear_client")
    /\ UNCHANGED <<abortVars, state, callVars, clientVars, vmVars, handleVars,
                   guest_client, guest_callback, conn>>

(* Mutant of MonitorClearsClient: the client of the lost connection is kept. *)
MonitorKeepsClient(w) ==
    /\ MoveWorker(w, "clear_client", "report_lost")
    /\ Free("guest_client")
    /\ UNCHANGED <<abortVars, state, callVars, clientVars, vmVars, handleVars,
                   guest_client, guest_callback, conn>>

MonitorClearsClient(w) ==
    /\ MoveWorker(w, "clear_client", "report_lost")
    /\ Free("guest_client")
    /\ guest_client' = NoConnection
    /\ UNCHANGED <<abortVars, state, callVars, clientVars, vmVars, handleVars,
                   guest_callback, conn>>

(* Mutant of MonitorReportsLost: the clients are not notified. *)
MonitorGoesBackSilently(w) ==
    /\ MoveWorker(w, "report_lost", "connecting")
    /\ Free("state")
    /\ state' = "Started"
    /\ UNCHANGED <<abortVars, callVars, clientVars, vmVars, handleVars,
                   guest_client, guest_callback, conn>>

MonitorReportsLost(w) ==
    /\ MoveWorker(w, "report_lost", "connecting")
    /\ Free("state")
    /\ state' = "Started"
    /\ Notify("Started")
    /\ UNCHANGED <<abortVars, callVars, clients, alive, vmVars, handleVars,
                   guest_client, guest_callback, conn>>

-----------------------------------------------------------------------------
(* The stop thread of VM b *)

MoveStopper(b, from, to) == /\ stopper[b] = from
                            /\ stopper' = [stopper EXCEPT ![b] = to]

TakeVirtmgr(b) ==
    /\ MoveStopper(b, "spawned", "waiting")
    /\ Abort(IF virtmgr THEN "up" ELSE "no_virtmgr")
    /\ virtmgr' = FALSE
    /\ UNCHANGED <<state, callVars, clientVars, boot, vm, handleVars, guestVars>>

(* Mutant of DestroyVm: the handle is dropped without AVirtualMachine_destroy. *)
LeakVm(b) ==
    /\ \/ vm[b] = "exited" /\ MoveStopper(b, "waiting", "report_stopped")
       \/ vm[b] = "crashed" /\ MoveStopper(b, "waiting", "report_crashed")
    /\ UNCHANGED <<abortVars, state, callVars, clientVars, boot, vm, virtmgr, handleVars, guestVars>>

(* AVirtualMachine_waitForStop returns, the VM and its virtmgr are destroyed. *)
DestroyVm(b) ==
    /\ \/ vm[b] = "exited" /\ MoveStopper(b, "waiting", "report_stopped")
       \/ vm[b] = "crashed" /\ MoveStopper(b, "waiting", "report_crashed")
    /\ vm' = [vm EXCEPT ![b] = "destroyed"]
    /\ UNCHANGED <<abortVars, state, callVars, clientVars, boot, virtmgr, handleVars, guestVars>>

(* Mutant of ReportStop: the clients are told, main_state is not set. *)
ReportStopWithoutState(b) ==
    /\ \/ MoveStopper(b, "report_stopped", "ok") /\ Notify("Stopped")
       \/ MoveStopper(b, "report_crashed", "ok") /\ Notify("Crashed")
    /\ Free("state")
    /\ clients' = <<>>
    /\ UNCHANGED <<abortVars, state, callVars, alive, boot, vm, virtmgr, handleVars, guestVars>>

(* The list is cleared only when every client could be told. *)
ReportStop(b) ==
    LET end == IF AllReached THEN "ok" ELSE "failed" IN
    /\ \/ MoveStopper(b, "report_stopped", end) /\ state' = "Stopped"
       \/ MoveStopper(b, "report_crashed", end) /\ state' = "Crashed"
    /\ Free("state")
    /\ Notify(state')
    /\ clients' = IF AllReached THEN <<>> ELSE clients
    /\ UNCHANGED <<abortVars, callVars, alive, boot, vm, virtmgr, handleVars, guestVars>>

-----------------------------------------------------------------------------
(* The guests, AVF, the processes of the clients, and init *)

GuestPowersOff(b) ==
    /\ vm[b] = "halting"
    /\ vm' = [vm EXCEPT ![b] = "exited"]
    /\ UNCHANGED <<abortVars, state, callVars, clientVars, boot, virtmgr, stopper,
                   handleVars, guestVars>>

VmExits(b) ==
    /\ "vm_exit" \in Faults
    /\ Answering(b)
    /\ \E end \in {"exited", "crashed"} : vm' = [vm EXCEPT ![b] = end]
    /\ UNCHANGED <<abortVars, state, callVars, clientVars, boot, virtmgr, stopper,
                   handleVars, guestVars>>

Close(g, b) == IF g.boot = b THEN [g EXCEPT !.up = FALSE] ELSE g

GuestServiceRestarts(b) ==
    /\ "handle_loss" \in Faults
    /\ Answering(b)
    /\ guest_client' = Close(guest_client, b)
    /\ guest_callback' = Close(guest_callback, b)
    /\ conn' = [w \in Workers |-> Close(conn[w], b)]
    /\ UNCHANGED <<abortVars, state, callVars, clientVars, vmVars, handleVars, worker>>

ClientDies(c) ==
    /\ c \in Mortals
    /\ alive[c]
    /\ alive' = [alive EXCEPT ![c] = FALSE]
    /\ UNCHANGED <<abortVars, state, callVars, clients, told, vmVars, handleVars, guestVars>>

(* The service is not oneshot: init starts it again after an abort, and the VMs
   ended with the AVF handles of the old process. *)
ServiceRestarts ==
    /\ process # "up"
    /\ process' = "up"
    /\ state' = "Stopped"
    /\ lock' = [l \in Locks |-> None]
    /\ clients' = <<>>
    /\ boot' = 0
    /\ vm' = [b \in Boots |-> "none"]
    /\ virtmgr' = FALSE
    /\ userspace_thread' = 0
    /\ stop_thread' = 0
    /\ guest_client' = NoConnection
    /\ guest_callback' = NoConnection
    /\ worker' = [w \in Workers |-> "none"]
    /\ conn' = [w \in Workers |-> NoConnection]
    /\ stopper' = [b \in Boots |-> "none"]
    /\ pc' = [t \in Actors |-> "idle"]
    /\ arg' = [t \in Callers |-> None]
    /\ target' = [t \in Actors |-> 0]
    /\ told' = [c \in Clients |-> "NotStarted"]
    /\ UNCHANGED alive

-----------------------------------------------------------------------------
StartStep(t) == \/ StartRegister(t) \/ StartLockState(t) \/ StartReturns(t)
                \/ StartProceeds(t) \/ StartVmFails(t) \/ StartVmAborts(t)
                \/ CreateVm(t) \/ StartFinish(t)
StopStep(t) == \/ StopLockInstance(t) \/ StopNothingToDo(t) \/ StopCannotNotify(t)
               \/ StopKillsVm(t) \/ StopJoin(t)
UserspaceStep(t) == CheckStarted(t) \/ TakeUserspace(t) \/ JoinUserspace(t)
RequestStep(t) == \/ RequestLockInstance(t) \/ RequestNothingToDo(t)
                  \/ RequestLeavesOthers(t) \/ RequestHasNoGuest(t)
                  \/ RequestRefused(t) \/ RequestAccepted(t)
                  \/ RequestJoinStop(t)
CallStep(t) == StartStep(t) \/ StopStep(t) \/ UserspaceStep(t) \/ RequestStep(t)
DeathStep(c) == \/ DeathLeavesOthers(c) \/ DeathOfLast(c) \/ DeathKillsVm(c)
                \/ UserspaceStep(c) \/ DeathLockState(c) \/ DeathShutsDown(c)
WorkerStep(w) == \/ ConnectSucceeds(w) \/ ConnectFails(w) \/ UserspaceGivesUp(w)
                 \/ StoreClient(w) \/ ReportReady(w) \/ MonitorPolls(w)
                 \/ MonitorChecks(w) \/ MonitorClearsClient(w) \/ MonitorReportsLost(w)
StopperStep(b) == TakeVirtmgr(b) \/ DestroyVm(b) \/ ReportStop(b)
GuestStep(b) == GuestPowersOff(b) \/ VmExits(b) \/ GuestServiceRestarts(b)

Running ==
    \/ \E t \in Callers, c \in Clients, op \in Ops : Begin(t, c, op)
    \/ \E t \in Callers : CallStep(t)
    \/ \E c \in Clients : DeliverDeath(c) \/ DeathStep(c) \/ ClientDies(c)
    \/ \E w \in Workers : WorkerStep(w)
    \/ \E b \in Boots : StopperStep(b) \/ GuestStep(b)

Next == \/ process = "up" /\ Running
        \/ ServiceRestarts

Spec == Init /\ [][Next]_vars
=============================================================================
