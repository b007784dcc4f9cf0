----------------------- MODULE VirtualMachineProperties -----------------------
(***************************************************************************)
(* What the virtual machine object must keep, what its steps may not do,   *)
(* and what must happen eventually.                                        *)
(***************************************************************************)
EXTENDS VirtualMachine

(* Every variable of the object holds a value of the kind its Rust type and its
   use allow: handles name VMs that may exist, threads are at steps they have. *)
TypeOK ==
    /\ process \in {"up"} \cup Aborts
    /\ state \in States
    /\ lock \in [Locks -> Actors \cup {None}]
    /\ clients \in Seq(Clients)
    /\ alive \in [Clients -> BOOLEAN]
    /\ told \in [Clients -> States \cup {"NotStarted"}]
    /\ boot \in Handles
    /\ vm \in [Boots -> VmStatus]
    /\ virtmgr \in BOOLEAN
    /\ userspace_thread \in Handles
    /\ stop_thread \in Handles
    /\ guest_client \in Connections
    /\ guest_callback \in Connections
    /\ worker \in [Workers -> WorkerSteps]
    /\ conn \in [Workers -> Connections]
    /\ stopper \in [Boots -> StopperSteps]
    /\ pc \in [Actors -> Steps]
    /\ arg \in [Callers -> Clients \cup {None}]
    /\ target \in [Actors -> Handles]

-----------------------------------------------------------------------------
(* Safety *)

(* start, the stop thread and all the faults between them never leave two VMs
   that AVF has not been told to destroy. *)
OneLiveVm == \A a, b \in Boots : Live(a) /\ Live(b) => a = b

(* Whoever reads Stopped or Crashed under main_state, as start does before it
   boots the next VM, finds the last VM destroyed. *)
StoppedMeansGone ==
    state \in {"Stopped", "Crashed"} /\ Free("state") => \A b \in Boots : ~Live(b)

(* The unwraps of the stop thread, wait_for_stop lines 725 and 728, find the VM
   and a virtmgr that no other boot has taken. *)
StopThreadHasVirtmgr == process # "no_virtmgr"

(* The check of find_client and the push of create_client are one step under
   vm_instance: no client is told everything twice. *)
NoDuplicateClients == IsInjective(clients)

(* The stop thread request_stop joins never fails, as it finds no client to
   notify: the code that sets UserspaceReady again after a VM was destroyed,
   lines 1142 to 1147, is never reached. *)
JoinedStopSucceeds ==
    \A t \in Callers : pc[t] = "request_join_stop" => stopper[target[t]] # "failed"

(* As long as no client has died, a registered client has been told the state the manager
   is in, unless its own start has not got to that yet. *)
AllAlive == \A c \in Clients : alive[c]
MidStart(c) == \E t \in Callers : /\ arg[t] = c
                                  /\ pc[t] \in {"start_lock_state", "start_lock_instance"}
ClientsInStep ==
    AllAlive /\ state \in {"Started", "UserspaceReady", "ShuttingDown"} =>
        \A c \in Clients : Registered(c) => told[c] = state \/ MidStart(c)

(* A start that boots the VM leaves its living client on the list, so that it hears
   of the VM and may stop it. *)
StarterRegistered ==
    [][\A t \in Callers :
          pc[t] = "start_finish" /\ pc'[t] = "idle" /\ process = "up" /\ alive[arg[t]]
             => arg[t] \in ToSet(clients')]_vars

(* Whoever asks the guest to shut down finds a guest client to unwrap. *)
ShutdownFindsGuest == process # "guest_client_none"

-----------------------------------------------------------------------------
(* The inductive invariant behind OneLiveVm, StoppedMeansGone and
   StopThreadHasVirtmgr, in named parts. *)

(* A call works for a client, and whoever decides over the state owns main_state. *)
CallsOwnState ==
    /\ \A t \in Callers : pc[t] # "idle" => arg[t] \in Clients
    /\ \A t \in Callers :
          pc[t] \in {"start_lock_instance", "start_vm", "start_finish"} => lock["state"] = t
    /\ \A c \in Clients : pc[c] = "death_lock_guest" => lock["state"] = c

Creating == \E t \in Callers : pc[t] = "start_finish"

(* The VM being created is the newest, its stop thread not spawned yet, and a virtmgr
   is there for it. *)
CreationInOrder ==
    /\ \A t \in Callers : pc[t] = "start_vm" => state \in {"Stopped", "Crashed"}
    /\ Creating => boot \in Boots /\ stopper[boot] = "none" /\ virtmgr

(* Every older VM has a stop thread that is finished, no later one exists, and the
   stop thread of the newest is spawned before its creation ends. *)
StoppersInOrder ==
    /\ \A b \in Boots : b < boot => stopper[b] \in Finished
    /\ \A b \in Boots : b > boot => stopper[b] = "none" /\ vm[b] = "none"
    /\ \A b \in Boots : stopper[b] = "spawned" => virtmgr
    /\ \A b \in Boots :
          stopper[b] \in {"report_stopped", "report_crashed", "ok", "failed"}
             => vm[b] = "destroyed"

(* Stopped and Crashed are only left behind by the newest VM's stop thread. *)
StoppedInOrder ==
    state \in {"Stopped", "Crashed"} =>
        boot = 0 \/ stopper[boot] \in Finished \/ Creating

(* The conjunction that Init establishes and every step of Next keeps. *)
BootInv == CallsOwnState /\ CreationInOrder /\ StoppersInOrder /\ StoppedInOrder

-----------------------------------------------------------------------------
(* Waiting: each thread waits for at most one other, for the owner of the mutex it
   takes or for the thread it joins. *)

MutexTaken ==
    [start_register |-> "instance", start_lock_state |-> "state",
     start_lock_instance |-> "instance", start_finish |-> "userspace_thread",
     stop_lock_instance |-> "instance", stop_lock_state |-> "state",
     request_lock_instance |-> "instance", request_lock_state |-> "state",
     check_started |-> "state", take_userspace |-> "userspace_thread",
     death_lock_state |-> "state", death_lock_guest |-> "guest_client",
     give_up |-> "guest_client", store_client |-> "guest_client",
     clear_client |-> "guest_client", ready |-> "state", report_lost |-> "state",
     watch |-> "state", report_stopped |-> "state", report_crashed |-> "state"]

(* Whom a thread at this step waits for, None when it can go on. *)
OwnerFor(step) == IF step \in DOMAIN MutexTaken THEN lock[MutexTaken[step]] ELSE None

(* The actor that t waits for, itself or through the thread that it joins: a userspace
   or stop thread waits for mutexes only, and is joined by actors only. *)
Blocker(t) ==
    CASE pc[t] \in {"stop_join", "request_join_stop"} -> OwnerFor(stopper[target[t]])
      [] pc[t] = "join_userspace" -> OwnerFor(worker[<<"userspace", target[t]>>])
      [] OTHER -> OwnerFor(pc[t])

(* The sets of actors that wait for their own members, for ever. *)
Waiting == {t \in Actors : Blocker(t) # None}
WaitSets == {S \in SUBSET Waiting : S # {} /\ \A t \in S : Blocker(t) \in S}

(* Calls and recipients wait for each other for ever only when a start overlaps with a
   stop or a request_stop, or the recipient of a dead client is at work: never are
   stops and requests enough, in whatever number, with the threads they join. *)
NoWaitCycle ==
    process = "up" /\ ("start" \in InProgress => InProgress = {"start"})
                   /\ (\A c \in Clients : pc[c] = "idle")
        => WaitSets = {}

(* Every set of actors that waits for itself has a member that holds main_state while
   it waits for another mutex or a thread. *)
CyclesHoldState ==
    process = "up" => \A S \in WaitSets : \E u \in S : lock["state"] = u

(* The guest_client that request_stop takes with main_state and vm_clients held, line
   1129, is free then: no other call has got as far while this one holds vm_instance. *)
GuestClientFree ==
    \A t \in Callers : pc[t] = "request_lock_state" => Free("guest_client")

(* The mutexes dropped before a join, lines 873, 1037 and 1088, let the joined
   thread finish: its joiner does not wait for ever. *)
JoinedThreadCanFinish ==
    process = "up" => \A S \in WaitSets, t \in Actors :
        t \in S => pc[t] \notin {"stop_join", "request_join_stop", "join_userspace"}

-----------------------------------------------------------------------------
(* The abstract lifecycle *)

(* A VM is alive from its creation until its stop thread has destroyed it, and the
   reason it ended for waits there for main_state.  A VM whose creation is not
   finished has no stop thread yet. *)
phase ==
    IF boot = 0 \/ stopper[boot] \in Finished THEN "idle"
    ELSE IF stopper[boot] = "report_stopped" THEN "exited"
    ELSE IF stopper[boot] = "report_crashed" THEN "crashed"
    ELSE "alive"

Lifecycle == INSTANCE VmLifecycle WITH boot <- boot, phase <- phase, state <- state

(* Seen through main_state and the fate of the newest VM, the object implements
   VmLifecycle: whatever clients, deaths, late threads and aborts do, a VM is booted
   from Stopped or Crashed after the last one was reported, and only the end of
   the VM itself leads back there. *)
Implements == Lifecycle!Spec

-----------------------------------------------------------------------------
(* The connection to the userspace *)

(* What the other components can tell of a connection. *)
LinkStatus(g) == IF Open(g) THEN "open" ELSE IF g.boot # 0 THEN "closed" ELSE "none"

Made == [w \in Workers |-> LinkStatus(conn[w])]

Link == INSTANCE UserspaceLink WITH
    Userspaces <- {"userspace"} \X Boots, Monitors <- {"monitor"} \X Boots,
    state <- state, thread <- worker, made <- Made,
    callback <- LinkStatus(guest_callback), client <- LinkStatus(guest_client)

(* The threads of all boots, among the calls, the stop threads and the ends of the VMs,
   keep to the steps of UserspaceLink, as GuestConnection does: nobody else makes a
   connection, drops one or sets UserspaceReady, and no connection that closed opens
   again for a later VM. *)
ImplementsLink == Link!Spec

-----------------------------------------------------------------------------
(* Liveness *)

(* A thread that can go on does, and the stop thread gets main_state however often
   the others take it: no mutex is held from one call to the next.  A guest that
   accepted a shutdown powers off, and init restarts an aborted service. *)
Fairness ==
    /\ \A t \in Callers : WF_vars(process = "up" /\ CallStep(t))
    /\ \A w \in Workers : WF_vars(process = "up" /\ WorkerStep(w))
    /\ \A b \in Boots : /\ SF_vars(process = "up" /\ StopperStep(b))
                        /\ WF_vars(process = "up" /\ GuestPowersOff(b))
    /\ WF_vars(ServiceRestarts)

FairSpec == Spec /\ Fairness

(* Every call of a client returns, the joins under vm_instance included. *)
CallsReturn == \A t \in Callers : pc[t] # "idle" ~> pc[t] = "idle"

(* A VM that ended, asked to or not, is reported as Stopped or Crashed. *)
EndIsReported ==
    \A b \in Boots : vm[b] \in {"exited", "crashed"} ~> state \in {"Stopped", "Crashed"}

(* ShuttingDown is not for ever. *)
ShutdownCompletes == state = "ShuttingDown" ~> state \in {"Stopped", "Crashed"}
=============================================================================
