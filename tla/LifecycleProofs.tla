---------------------------- MODULE LifecycleProofs ----------------------------
(***************************************************************************)
(* The virtual machine object implements VmLifecycle: the initial states   *)
(* map to its initial states, and under the invariant of the object every  *)
(* step maps to a boot, an end, a report, a move among the running states, *)
(* a restart, or to no step at all.  Its userspace and monitor threads     *)
(* implement UserspaceLink in the same way.                                *)
(***************************************************************************)
EXTENDS CallProofs

Quiet == UNCHANGED <<boot, stopper>> /\ (state' = state \/ state' \in Lifecycle!Running)
Maps == Lifecycle!Next \/ UNCHANGED Lifecycle!vars

(* A step that boots nothing, moves no stop thread and keeps away from Stopped and
   Crashed is at most a move. *)
LEMMA QuietMaps == Quiet => Maps
BY DEF Quiet, Maps, phase, Lifecycle!Next, Lifecycle!Move, Lifecycle!vars, Lifecycle!Running

(* Before a start creates a VM, nothing is left of the last one. *)
LEMMA CreateMaps == ASSUME IndInv, NEW t \in Callers, CreateVm(t) PROVE Maps
<1>. USE DEF CreateVm, IndInv, BootInv
<1>1. ~Creating
  BY ActorValues DEF CallsOwnState, Creating
<1>2. state \in Lifecycle!Ended /\ (boot = 0 \/ stopper[boot] \in Finished)
  BY <1>1 DEF CreationInOrder, StoppedInOrder, Lifecycle!Ended
<1>3. boot' = boot + 1 /\ boot < MaxBoots /\ boot \in Nat /\ state' = state
  BY BoundAssumption DEF TypeOK, Handles
<1>4. stopper'[boot'] = "none"
  BY <1>3, BoundAssumption DEF StoppersInOrder, Boots
<1>5. phase = "idle" /\ phase' = "alive"
  BY <1>2, <1>3, <1>4 DEF phase, Finished
<1>. QED  BY <1>2, <1>3, <1>5 DEF Maps, Lifecycle!Next, Lifecycle!Boot

(* The thread handles are stored while the VM is alive. *)
LEMMA FinishMaps == ASSUME IndInv, NEW t \in Callers, StartFinish(t) PROVE Maps
<1>1. boot \in Boots /\ stopper[boot] = "none"
  BY DEF StartFinish, IndInv, BootInv, CreationInOrder, Creating
<1>2. stopper'[boot] = "spawned" /\ boot' = boot /\ state' = "Started"
  BY <1>1 DEF StartFinish, IndInv, TypeOK
<1>3. phase' = phase
  BY <1>1, <1>2 DEF phase, Finished
<1>. QED  BY <1>2, <1>3 DEF Maps, Lifecycle!Next, Lifecycle!Move, Lifecycle!Running

(* Only the newest VM's stop thread works; it destroys the VM and reports it. *)
LEMMA StopperMaps == ASSUME IndInv, NEW b \in Boots, StopperStep(b) PROVE Maps
<1>1. stopper[b] \in {"spawned", "waiting", "report_stopped", "report_crashed"} /\ boot' = boot
  BY DEF StopperStep, TakeVirtmgr, DestroyVm, ReportStop, MoveStopper
<1>2. b = boot /\ boot # 0
  BY <1>1, WorkingIsNewest, BoundAssumption DEF IndInv, BootInv, Boots
<1>3. CASE TakeVirtmgr(b)
  <2>1. stopper[boot] = "spawned" /\ stopper'[boot] = "waiting" /\ state' = state
    BY <1>2, <1>3 DEF TakeVirtmgr, MoveStopper, IndInv, TypeOK
  <2>. QED  BY <1>1, <1>2, <2>1 DEF Maps, phase, Finished, Lifecycle!vars
<1>4. CASE DestroyVm(b)
  <2>1. /\ stopper[boot] = "waiting"
        /\ stopper'[boot] \in {"report_stopped", "report_crashed"}
        /\ state' = state
    BY <1>2, <1>4 DEF DestroyVm, MoveStopper, IndInv, TypeOK
  <2>2. phase = "alive" /\ phase' \in {"exited", "crashed"}
    BY <1>1, <1>2, <2>1 DEF phase, Finished
  <2>. QED  BY <1>1, <2>1, <2>2 DEF Maps, Lifecycle!Next, Lifecycle!Destroy
<1>5. CASE ReportStop(b)
  <2>1. /\ stopper'[boot] \in Finished
        /\ \/ stopper[boot] = "report_stopped" /\ state' = "Stopped"
           \/ stopper[boot] = "report_crashed" /\ state' = "Crashed"
    BY <1>2, <1>5 DEF ReportStop, MoveStopper, IndInv, TypeOK, Finished
  <2>2. phase' = "idle" /\ phase = IF state' = "Crashed" THEN "crashed" ELSE "exited"
    BY <1>1, <1>2, <2>1 DEF phase, Finished
  <2>. QED  BY <1>1, <2>1, <2>2 DEF Maps, Lifecycle!Next, Lifecycle!Report
<1>. QED  BY <1>3, <1>4, <1>5 DEF StopperStep

(* Every step of the object maps. *)
LEMMA StepMaps == IndInv /\ [Next]_vars => Maps
<1>. SUFFICES ASSUME IndInv, [Next]_vars PROVE Maps
  OBVIOUS
<1>. USE DEF vmVars
<1>1. ASSUME NEW t \in Callers, NEW c \in Clients, NEW op \in Ops, Begin(t, c, op) PROVE Maps
  BY <1>1, QuietMaps DEF Begin, Quiet
<1>2. ASSUME NEW t \in Callers, StartStep(t) PROVE Maps
  <2>1. CASE StartRegister(t) \/ StartLockState(t) \/ StartReturns(t) \/ StartProceeds(t)
             \/ StartVmFails(t) \/ StartVmAborts(t)
    BY <2>1, QuietMaps
    DEF StartRegister, StartLockState, StartReturns, StartProceeds, StartVmFails,
        StartVmAborts, Quiet
  <2>. QED  BY <1>2, <2>1, CreateMaps, FinishMaps DEF StartStep
<1>3. ASSUME NEW t \in Callers, StopStep(t) PROVE Maps
  BY <1>3, QuietMaps
  DEF StopStep, StopLockInstance, StopNothingToDo, StopCannotNotify, StopKillsVm, StopJoin,
      Quiet, Lifecycle!Running
<1>4. ASSUME NEW u \in Actors, UserspaceStep(u) PROVE Maps
  BY <1>4, QuietMaps DEF UserspaceStep, CheckStarted, TakeUserspace, JoinUserspace, Quiet
<1>5. ASSUME NEW t \in Callers, RequestStep(t) PROVE Maps
  BY <1>5, QuietMaps
  DEF RequestStep, RequestLockInstance, RequestNothingToDo, RequestLeavesOthers,
      RequestHasNoGuest, RequestRefused, RequestAccepted, RequestJoinStop, RequestDeparts,
      Quiet, Lifecycle!Running
<1>6. ASSUME NEW c \in Clients, DeliverDeath(c) \/ DeathStep(c) \/ ClientDies(c) PROVE Maps
  BY <1>4, <1>6, QuietMaps, ActorValues
  DEF DeathStep, DeliverDeath, DeathLeavesOthers, DeathOfLast, DeathKillsVm, DeathLockState,
      DeathShutsDown, ClientDies, Quiet, Lifecycle!Running
<1>7. ASSUME NEW w \in Workers, WorkerStep(w) PROVE Maps
  BY <1>7, QuietMaps
  DEF WorkerStep, ConnectSucceeds, ConnectFails, UserspaceGivesUp, StoreClient, ReportReady,
      MonitorPolls, MonitorChecks, MonitorClearsClient, MonitorReportsLost, Quiet,
      Lifecycle!Running
<1>8. ASSUME NEW b \in Boots, GuestStep(b) PROVE Maps
  BY <1>8, QuietMaps DEF GuestStep, GuestPowersOff, VmExits, GuestServiceRestarts, Quiet
<1>9. CASE ServiceRestarts
  BY <1>9 DEF ServiceRestarts, Maps, phase, Lifecycle!Next, Lifecycle!Restart
<1>10. CASE UNCHANGED vars
  BY <1>10, QuietMaps DEF vars, Quiet
<1>11. ASSUME NEW t \in Callers, CallStep(t) PROVE Maps
  BY <1>2, <1>3, <1>4, <1>5, <1>11, ActorValues DEF CallStep
<1>. QED
  BY <1>1, <1>6, <1>7, <1>8, <1>9, <1>10, <1>11, StopperMaps DEF Next, Running

(* For any clients, callers, boots and faults, what a client can tell of the VMs is what
   VmLifecycle allows. *)
THEOREM ImplementsLifecycle == Spec => Implements
<1>1. Init => Lifecycle!Init
  BY DEF Init, phase, Lifecycle!Init
<1>2. IndInv /\ [Next]_vars => [Lifecycle!Next]_Lifecycle!vars
  BY StepMaps DEF Maps
<1>. QED  BY <1>1, <1>2, Invariance, PTL DEF Spec, Implements, Lifecycle!Spec
-----------------------------------------------------------------------------
(* The threads of the boots implement UserspaceLink *)

(* Connections lead to VMs that were created; one that is none is not up. *)
Named(g) == g.boot \in 0..boot /\ (g.up => g.boot # 0)
ConnectionsInOrder ==
    /\ Named(guest_client) /\ Named(guest_callback)
    /\ \A w \in Workers : Named(conn[w])

(* The threads of a boot that is still to come are not spawned, the monitor only at the end
   of a start. *)
WorkersInOrder ==
    /\ \A b \in Boots, kind \in {"userspace", "monitor"} : b > boot => worker[<<kind, b>>] = "none"
    /\ Creating => worker[<<"monitor", boot>>] = "none"

LinkInv == ConnectionsInOrder /\ WorkersInOrder

(* What calls, recipients, stop threads and VMs do to a connection: main_state is set to
   anything but UserspaceReady, and VMs stop answering. *)
OutsideStep ==
    /\ UNCHANGED guestVars
    /\ boot' = boot
    /\ Creating' => Creating
    /\ state' = state \/ state' \in Link!Ended \cup {"Started"}
    /\ \A b \in Boots : Answering(b)' => Answering(b)

(* A call that goes on, or returns, creates no VM. *)
LEMMA NoCreation ==
    ASSUME TypeOK, NEW t \in Actors, NEW step, step # "start_finish", Goto(t, step) \/ Return(t)
    PROVE  Creating' => Creating
BY ActorValues DEF TypeOK, Goto, Return, Creating

(* Every step but those of the threads, of a start that spawns them and of the guest's
   service is such a step. *)
LEMMA StepsOfLink ==
    ASSUME IndInv, JoinedStopSucceeds, Next
    PROVE  \/ OutsideStep
           \/ \E t \in Callers : CreateVm(t) \/ StartFinish(t)
           \/ \E w \in Workers : WorkerStep(w)
           \/ \E b \in Boots : GuestServiceRestarts(b)
           \/ ServiceRestarts
<1>. USE ActorValues DEF IndInv, OutsideStep, Link!Ended, vmVars
<1>1. ASSUME NEW t \in Callers, NEW c \in Clients, NEW op \in Ops, Begin(t, c, op) PROVE OutsideStep
  BY <1>1 DEF Begin, TypeOK, Creating, Ops, FirstStep, Answering
<1>2. ASSUME NEW t \in Callers, StartStep(t), ~CreateVm(t), ~StartFinish(t) PROVE OutsideStep
  BY <1>2, NoCreation
  DEF StartStep, StartRegister, StartLockState, StartReturns, StartProceeds, StartVmFails,
      StartVmAborts, Answering, callVars, Creating
<1>3. ASSUME NEW t \in Callers, StopStep(t) PROVE OutsideStep
  BY <1>3, NoCreation
  DEF StopStep, StopLockInstance, StopNothingToDo, StopCannotNotify, StopKillsVm, StopJoin,
      Answering, Kill, TypeOK
<1>4. ASSUME NEW u \in Actors, UserspaceStep(u) PROVE OutsideStep
  BY <1>4, NoCreation
  DEF UserspaceStep, CheckStarted, TakeUserspace, JoinUserspace, ThenLockState, Answering
<1>5. ASSUME NEW t \in Callers, RequestStep(t) PROVE OutsideStep
  <2>1. CASE RequestAccepted(t)
    BY <2>1, NoCreation DEF RequestAccepted, Answering, Halt, Open, TypeOK
  <2>2. CASE RequestJoinStop(t)
    BY <2>2, NoCreation DEF RequestJoinStop, JoinedStopSucceeds, Finished, Answering
  <2>3. CASE RequestHasNoGuest(t)
    BY <2>3 DEF RequestHasNoGuest, callVars, Creating, Answering
  <2>. QED
    BY <1>5, <2>1, <2>2, <2>3, NoCreation
    DEF RequestStep, RequestLockInstance, RequestNothingToDo, RequestLeavesOthers,
        RequestRefused, Answering
<1>6. ASSUME NEW c \in Clients, DeliverDeath(c) \/ DeathStep(c) \/ ClientDies(c) PROVE OutsideStep
  <2>1. CASE DeathShutsDown(c)
    BY <2>1, NoCreation DEF DeathShutsDown, Answering, Halt, Open, TypeOK
  <2>2. CASE DeathKillsVm(c)
    BY <2>2, NoCreation DEF DeathKillsVm, Answering, Kill, TypeOK
  <2>. QED
    BY <1>4, <1>6, <2>1, <2>2, NoCreation
    DEF DeathStep, DeliverDeath, DeathLeavesOthers, DeathOfLast, DeathLockState, ClientDies,
        Answering, callVars, Creating
<1>7. ASSUME NEW b \in Boots, StopperStep(b) \/ GuestPowersOff(b) \/ VmExits(b) PROVE OutsideStep
  BY <1>7
  DEF StopperStep, TakeVirtmgr, DestroyVm, ReportStop, MoveStopper, GuestPowersOff, VmExits,
      Answering, callVars, Creating, TypeOK
<1>8. ASSUME NEW t \in Callers, CallStep(t), ~CreateVm(t), ~StartFinish(t) PROVE OutsideStep
  BY <1>2, <1>3, <1>4, <1>5, <1>8 DEF CallStep
<1>. QED  BY <1>1, <1>6, <1>7, <1>8 DEF Next, Running, GuestStep

(* The two parts hold in every reachable state. *)
LEMMA StepKeepsConnectionsInOrder ==
    ASSUME IndInv, JoinedStopSucceeds, ConnectionsInOrder, Next PROVE ConnectionsInOrder'
<1>. USE BoundAssumption DEF IndInv, TypeOK, Handles, Boots, ConnectionsInOrder, Named
<1>1. CASE OutsideStep
  BY <1>1 DEF OutsideStep, guestVars
<1>2. ASSUME NEW t \in Callers, CreateVm(t) \/ StartFinish(t) PROVE ConnectionsInOrder'
  BY <1>2 DEF CreateVm, StartFinish
<1>3. ASSUME NEW w \in Workers, WorkerStep(w) PROVE ConnectionsInOrder'
  <2>1. CASE ConnectSucceeds(w)
    <3>1. PICK b \in Boots : Answering(b) /\ conn' = [conn EXCEPT ![w] = [boot |-> b, up |-> TRUE]]
      BY <2>1 DEF ConnectSucceeds
    <3>2. b \in 0..boot /\ b # 0
      BY <3>1 DEF BootInv, StoppersInOrder, Answering
    <3>. QED  BY <2>1, <3>1, <3>2 DEF ConnectSucceeds, vmVars
  <2>2. CASE StoreClient(w)
    BY <2>2 DEF StoreClient, NoConnection, vmVars
  <2>3. CASE UserspaceGivesUp(w) \/ MonitorClearsClient(w)
    BY <2>3 DEF UserspaceGivesUp, MonitorClearsClient, NoConnection, vmVars
  <2>4. CASE ConnectFails(w) \/ ReportReady(w) \/ MonitorPolls(w) \/ MonitorChecks(w)
             \/ MonitorReportsLost(w)
    BY <2>4 DEF ConnectFails, ReportReady, MonitorPolls, MonitorChecks, MonitorReportsLost, vmVars
  <2>. QED  BY <1>3, <2>1, <2>2, <2>3, <2>4 DEF WorkerStep
<1>4. ASSUME NEW b \in Boots, GuestServiceRestarts(b) PROVE ConnectionsInOrder'
  BY <1>4 DEF GuestServiceRestarts, Close, Connections, vmVars
<1>5. CASE ServiceRestarts
  BY <1>5 DEF ServiceRestarts, NoConnection
<1>. QED  BY <1>1, <1>2, <1>3, <1>4, <1>5, StepsOfLink

LEMMA StepKeepsWorkersInOrder ==
    ASSUME IndInv, JoinedStopSucceeds, WorkersInOrder, Next PROVE WorkersInOrder'
<1>. USE BoundAssumption, ActorValues DEF IndInv, TypeOK, Handles, Boots, Workers, WorkersInOrder
<1>1. CASE OutsideStep
  BY <1>1 DEF OutsideStep, guestVars
<1>2. ASSUME NEW t \in Callers, CreateVm(t) PROVE WorkersInOrder'
  BY <1>2 DEF CreateVm
<1>3. ASSUME NEW t \in Callers, StartFinish(t) PROVE WorkersInOrder'
  <2>1. ~Creating'
    BY <1>3 DEF StartFinish, Return, Creating, BootInv, CallsOwnState
  <2>. QED  BY <1>3, <2>1 DEF StartFinish
<1>4. ASSUME NEW w \in Workers, WorkerStep(w) PROVE WorkersInOrder'
  <2>1. /\ worker[w] # "none" /\ boot' = boot /\ (Creating' <=> Creating)
        /\ \A v \in Workers \ {w} : worker'[v] = worker[v]
    BY <1>4 DEF WorkerStep, ConnectSucceeds, ConnectFails, UserspaceGivesUp, StoreClient,
       ReportReady, MonitorPolls, MonitorChecks, MonitorClearsClient, MonitorReportsLost,
       MoveWorker, vmVars, callVars, Creating
  <2>2. \A v \in Workers : worker[v] = "none" => worker'[v] = "none"
    BY <2>1
  <2>3. Creating => boot \in Boots
    BY DEF BootInv, CreationInOrder
  <2>4. \A kind \in {"userspace", "monitor"}, b \in Boots : <<kind, b>> \in Workers
    OBVIOUS
  <2>. QED  BY <2>1, <2>2, <2>3, <2>4
<1>5. ASSUME NEW b \in Boots, GuestServiceRestarts(b) PROVE WorkersInOrder'
  BY <1>5 DEF GuestServiceRestarts, vmVars, callVars, Creating
<1>6. CASE ServiceRestarts
  BY <1>6 DEF ServiceRestarts, Creating
<1>. QED  BY <1>1, <1>2, <1>3, <1>4, <1>5, <1>6, StepsOfLink

LEMMA LinkInvHolds == Spec => []LinkInv
<1>1. Init => LinkInv
  <2>. SUFFICES ASSUME Init PROVE LinkInv
    OBVIOUS
  <2>1. ConnectionsInOrder
    BY DEF Init, ConnectionsInOrder, Named, NoConnection
  <2>2. ~Creating
    BY ActorValues DEF Init, Creating
  <2>. QED  BY <2>1, <2>2 DEF Init, LinkInv, WorkersInOrder, Workers
<1>2. IndInv /\ JoinedStopSucceeds /\ LinkInv /\ [Next]_vars => LinkInv'
  <2>1. CASE Next
    BY <2>1, StepKeepsConnectionsInOrder, StepKeepsWorkersInOrder DEF LinkInv
  <2>2. CASE UNCHANGED vars
    BY <2>2 DEF vars, LinkInv, ConnectionsInOrder, Named, WorkersInOrder, Creating
  <2>. QED  BY <2>1, <2>2
<1>. QED  BY <1>1, <1>2, Invariance, JoinedStopsSucceed, PTL DEF Spec

-----------------------------------------------------------------------------
(* The step of UserspaceLink that each step is *)

Linked == <<state, worker, Made, LinkStatus(guest_callback), LinkStatus(guest_client)>>
LinkMaps == Link!Next \/ UNCHANGED Linked

LEMMA LinkThreads == Link!Threads = Workers
BY DEF Link!Threads, Workers

(* What a connection that stays as it is looks like after a step. *)
NextStatus(g) == IF g.up /\ Answering(g.boot)' THEN "open"
                 ELSE IF g.boot # 0 THEN "closed" ELSE "none"

LEMMA NextStatuses ==
    ASSUME UNCHANGED <<guest_client, guest_callback, conn>>
    PROVE  /\ Made' = [w \in Workers |-> NextStatus(conn[w])]
           /\ LinkStatus(guest_callback)' = NextStatus(guest_callback)
           /\ LinkStatus(guest_client)' = NextStatus(guest_client)
BY DEF Made, LinkStatus, NextStatus, Open

(* A connection looks the same as long as the VMs answer as before. *)
LEMMA StatusStays ==
    ASSUME IndInv, \A b \in Boots : b <= boot => (Answering(b)' <=> Answering(b)), NEW g, Named(g)
    PROVE  NextStatus(g) = LinkStatus(g)
<1>1. boot \in Nat /\ boot <= MaxBoots
  BY BoundAssumption DEF IndInv, TypeOK, Handles
<1>2. g.up => g.boot \in Boots /\ g.boot <= boot
  BY <1>1, BoundAssumption DEF Named, Boots
<1>. QED  BY <1>2 DEF LinkStatus, NextStatus, Open

LEMMA ConnectionsStay ==
    ASSUME IndInv, LinkInv, UNCHANGED <<guest_client, guest_callback, conn>>,
           \A b \in Boots : b <= boot => (Answering(b)' <=> Answering(b))
    PROVE  /\ Made' = Made
           /\ LinkStatus(guest_callback)' = LinkStatus(guest_callback)
           /\ LinkStatus(guest_client)' = LinkStatus(guest_client)
BY StatusStays, NextStatuses DEF LinkInv, ConnectionsInOrder, Made

(* What happens outside the threads at most closes connections. *)
LEMMA OutsideLinks == ASSUME IndInv, LinkInv, OutsideStep PROVE LinkMaps
<1>. DEFINE Fades(g) == NextStatus(g) = LinkStatus(g)
                        \/ (LinkStatus(g) = "open" /\ NextStatus(g) = "closed")
<1>1. ASSUME NEW g, Named(g) PROVE Fades(g)
  <2>1. boot \in Nat /\ boot <= MaxBoots
    BY BoundAssumption DEF IndInv, TypeOK, Handles
  <2>2. g.up => g.boot \in Boots /\ g.boot # 0
    BY <1>1, <2>1, BoundAssumption DEF Named, Boots
  <2>. QED  BY <2>2 DEF OutsideStep, LinkStatus, NextStatus, Open
<1>2. Fades(guest_callback) /\ Fades(guest_client) /\ \A w \in Workers : Fades(conn[w])
  BY <1>1 DEF LinkInv, ConnectionsInOrder
<1>3. /\ UNCHANGED <<guest_client, guest_callback, conn, worker>>
      /\ state' = state \/ state' \in Link!Ended \cup {"Started"}
  BY DEF OutsideStep, guestVars
<1>4. Made' \in [Workers -> {"none", "open", "closed"}]
  BY <1>3, NextStatuses DEF NextStatus
<1>5. \A w \in Workers : Made'[w] = Made[w] \/ (Made[w] = "open" /\ Made'[w] = "closed")
  BY <1>2, <1>3, NextStatuses DEF Made
<1>. QED
  BY <1>2, <1>3, <1>4, <1>5, NextStatuses, LinkThreads DEF LinkMaps, Link!Next, Link!Elsewhere

(* A start spawns the threads of its VM, which nobody is connected to. *)
LEMMA SpawnLinks ==
    ASSUME IndInv, LinkInv, NEW t \in Callers, CreateVm(t) \/ StartFinish(t) PROVE LinkMaps
<1>. USE DEF IndInv, BootInv, LinkInv
<1>1. /\ Made' = Made /\ LinkStatus(guest_callback)' = LinkStatus(guest_callback)
      /\ LinkStatus(guest_client)' = LinkStatus(guest_client)
  <2>1. UNCHANGED <<guest_client, guest_callback, conn>>
    BY DEF CreateVm, StartFinish
  <2>2. \A b \in Boots : b <= boot => (Answering(b)' <=> Answering(b))
    BY BoundAssumption DEF CreateVm, StartFinish, Answering, TypeOK, Boots, Handles
  <2>. QED  BY <2>1, <2>2, ConnectionsStay
<1>2. ASSUME NEW w \in Workers, Link!Spawn(w) PROVE LinkMaps
  BY <1>2, LinkThreads DEF LinkMaps, Link!Next, Link!ThreadStep
<1>3. CASE UNCHANGED worker
  BY <1>1, <1>3 , LinkThreads
  DEF CreateVm, StartFinish, LinkMaps, Linked, Link!Next, Link!Elsewhere, Made, LinkStatus
<1>4. CASE CreateVm(t) /\ Transport # "none"
  <2>. DEFINE w == <<"userspace", boot + 1>>
  <2>1. boot + 1 \in Boots /\ boot + 1 > boot
    BY <1>4, BoundAssumption DEF CreateVm, TypeOK, Handles, Boots
  <2>2. w \in Workers /\ worker[w] = "none" /\ w \notin {"monitor"} \X Boots
    <3>1. w \in Workers /\ w \notin {"monitor"} \X Boots
      BY <2>1 DEF Workers
    <3>2. \A kind \in {"userspace", "monitor"} : worker[<<kind, boot + 1>>] = "none"
      BY <2>1 DEF WorkersInOrder
    <3>. QED  BY <3>1, <3>2
  <2>3. Link!Spawn(w)
    BY <1>1, <1>4, <2>2 DEF CreateVm, Link!Spawn, Link!Go, Link!First
  <2>. QED  BY <1>2, <2>2, <2>3
<1>5. CASE StartFinish(t) /\ Transport # "none"
  <2>. DEFINE w == <<"monitor", boot>>
  <2>1. w \in Workers /\ worker[w] = "none" /\ w \in {"monitor"} \X Boots
    BY <1>5 DEF StartFinish, Workers, WorkersInOrder, Creating, CreationInOrder
  <2>2. Link!Spawn(w)
    BY <1>1, <1>5, <2>1 DEF StartFinish, Link!Spawn, Link!Go, Link!First
  <2>. QED  BY <1>2, <2>1, <2>2
<1>. QED  BY <1>3, <1>4, <1>5 DEF CreateVm, StartFinish

(* The threads' steps are those of the same name. *)
LEMMA WorkerLinks == ASSUME IndInv, LinkInv, NEW w \in Workers, WorkerStep(w) PROVE LinkMaps
<1>. USE DEF IndInv, TypeOK, MoveWorker
<1>1. (\A b \in Boots : Answering(b)' <=> Answering(b)) /\ boot' = boot
  BY DEF WorkerStep, ConnectSucceeds, ConnectFails, UserspaceGivesUp, StoreClient, ReportReady,
     MonitorPolls, MonitorChecks, MonitorClearsClient, MonitorReportsLost, Answering, vmVars
<1>2. ASSUME NEW g, Named(g) PROVE NextStatus(g) = LinkStatus(g)
  BY <1>1, <1>2, StatusStays
<1>3. (w \in {"monitor"} \X Boots) <=> w[1] # "userspace"
  BY DEF Workers
<1>4. ASSUME Link!ThreadStep(w) PROVE LinkMaps
  BY <1>4, LinkThreads DEF LinkMaps, Link!Next
<1>5. LinkStatus(NoConnection) = "none" /\ LinkStatus(NoConnection)' = "none"
  BY DEF LinkStatus, NoConnection, Open
<1>. USE DEF Link!ThreadStep, Link!Go
<1>6. CASE \/ ConnectFails(w) \/ ReportReady(w) \/ MonitorPolls(w)
           \/ MonitorChecks(w) \/ MonitorReportsLost(w)
  <2>1. /\ Made' = Made /\ LinkStatus(guest_callback)' = LinkStatus(guest_callback)
        /\ LinkStatus(guest_client)' = LinkStatus(guest_client)
    BY <1>1, <1>6, ConnectionsStay
    DEF ConnectFails, ReportReady, MonitorPolls, MonitorChecks, MonitorReportsLost
  <2>2. HandleLost => LinkStatus(guest_callback) = "closed"
    BY DEF HandleLost, LinkStatus
  <2>. QED
    BY <1>3, <1>4, <1>6, <2>1, <2>2
    DEF ConnectFails, ReportReady, MonitorPolls, MonitorChecks, MonitorReportsLost,
        Link!FailToConnect, Link!ReportReady, Link!Poll, Link!Check, Link!ReportLost, Link!Ended
<1>7. CASE UserspaceGivesUp(w) \/ MonitorClearsClient(w)
  <2>1. UNCHANGED <<guest_callback, conn, state>> /\ guest_client' = NoConnection
    BY <1>7 DEF UserspaceGivesUp, MonitorClearsClient
  <2>2. Made' = Made /\ LinkStatus(guest_callback)' = LinkStatus(guest_callback)
    BY <1>2, <2>1 DEF LinkStatus, NextStatus, Open, Made, LinkInv, ConnectionsInOrder
  <2>3. LinkStatus(guest_client)' = "none"
    BY <2>1, <1>5 DEF LinkStatus, Open
  <2>. QED
    BY <1>3, <1>4, <1>7, <2>1, <2>2, <2>3
    DEF UserspaceGivesUp, MonitorClearsClient, Link!GiveUp, Link!ClearClient
<1>8. CASE StoreClient(w)
  <2>1. /\ UNCHANGED <<guest_callback, state>> /\ guest_client' = conn[w]
        /\ conn' = [conn EXCEPT ![w] = NoConnection]
    BY <1>8 DEF StoreClient
  <2>2. LinkStatus(guest_callback)' = LinkStatus(guest_callback)
    BY <1>2, <2>1 DEF LinkStatus, NextStatus, Open, LinkInv, ConnectionsInOrder
  <2>3. LinkStatus(guest_client)' = Made[w]
    BY <1>2, <2>1 DEF LinkStatus, NextStatus, Open, LinkInv, ConnectionsInOrder, Made
  <2>4. Made' = [Made EXCEPT ![w] = "none"]
    BY <1>2, <1>5, <2>1 DEF LinkStatus, NextStatus, Open, LinkInv, ConnectionsInOrder, Made
  <2>. QED  BY <1>4, <1>8, <2>1, <2>2, <2>3, <2>4 DEF StoreClient, Link!StoreClient
<1>9. CASE ConnectSucceeds(w)
  <2>1. PICK b \in Boots : Answering(b) /\ conn' = [conn EXCEPT ![w] = [boot |-> b, up |-> TRUE]]
    BY <1>9 DEF ConnectSucceeds
  <2>2. UNCHANGED <<guest_client, state>> /\ guest_callback' = [boot |-> b, up |-> TRUE]
    BY <1>9, <2>1 DEF ConnectSucceeds
  <2>3. LinkStatus(guest_callback)' = "open"
    BY <1>1, <2>1, <2>2 DEF LinkStatus, Open
  <2>4. LinkStatus(guest_client)' = LinkStatus(guest_client)
    BY <1>2, <2>2 DEF LinkStatus, NextStatus, Open, LinkInv, ConnectionsInOrder
  <2>5. Made' = [Made EXCEPT ![w] = "open"]
    BY <1>2, <1>1, <2>1 DEF LinkStatus, NextStatus, Open, LinkInv, ConnectionsInOrder, Made
  <2>. QED  BY <1>4, <1>9, <2>2, <2>3, <2>4, <2>5 DEF ConnectSucceeds, Link!Connect
<1>. QED  BY <1>6, <1>7, <1>8, <1>9 DEF WorkerStep

(* A guest's service that restarts closes the connections to its VM. *)
LEMMA CloseLinks ==
    ASSUME IndInv, LinkInv, NEW b \in Boots, GuestServiceRestarts(b) PROVE LinkMaps
<1>. DEFINE Closed(g) == LinkStatus(Close(g, b))
<1>. DEFINE Fades(g) == Closed(g) = LinkStatus(g)
                        \/ (LinkStatus(g) = "open" /\ Closed(g) = "closed")
<1>1. ASSUME NEW g \in Connections PROVE Fades(g) /\ Closed(g) \in {"none", "open", "closed"}
  BY <1>1 DEF Close, Connections, LinkStatus, Open, Boots
<1>2. guest_callback \in Connections /\ guest_client \in Connections
      /\ conn \in [Workers -> Connections]
  BY DEF IndInv, TypeOK
<1>3. UNCHANGED <<state, worker, vm>>
  BY DEF GuestServiceRestarts, vmVars
<1>4. LinkStatus(guest_callback)' = Closed(guest_callback)
      /\ LinkStatus(guest_client)' = Closed(guest_client)
  BY <1>3 DEF GuestServiceRestarts, LinkStatus, Open, Answering
<1>5. Made' = [v \in Workers |-> Closed(conn[v])]
  BY <1>3 DEF GuestServiceRestarts, Made, LinkStatus, Open, Answering
<1>6. Made = [v \in Workers |-> LinkStatus(conn[v])]
  BY DEF Made
<1>. HIDE DEF Closed
<1>7. /\ Made' \in [Workers -> {"none", "open", "closed"}]
      /\ \A v \in Workers : Made'[v] = Made[v] \/ (Made[v] = "open" /\ Made'[v] = "closed")
  BY <1>1, <1>2, <1>5, <1>6
<1>. QED
  BY <1>1, <1>2, <1>3, <1>4, <1>7, LinkThreads DEF LinkMaps, Link!Next, Link!Elsewhere

(* What UserspaceLink promises of the threads that connect to the guest holds of all boots of
   the VM object and of everything that happens beside them (ImplementsLink): a client and
   a callback are only stored by the thread that made the connection, the client is dropped
   before main_state goes back to Started, and no connection that closed opens again. *)
THEOREM ThreadsImplementLink == Spec => ImplementsLink
<1>1. Init => Link!Init
  BY LinkThreads DEF Init, Link!Init, Made, LinkStatus, NoConnection, Open
<1>2. IndInv /\ LinkInv /\ JoinedStopSucceeds /\ [Next]_vars => [Link!Next]_(Link!vars)
  <2>1. CASE UNCHANGED vars
    BY <2>1 DEF vars, Link!vars, Made, LinkStatus, Open, Answering
  <2>2. CASE ServiceRestarts
    BY <2>2, LinkThreads
    DEF ServiceRestarts, Link!Restart, Link!Next, Made, LinkStatus, NoConnection, Open
  <2>. QED
    BY <2>1, <2>2, StepsOfLink, OutsideLinks, SpawnLinks, WorkerLinks, CloseLinks
    DEF LinkMaps, Linked, Link!vars
<1>. QED
  BY <1>1, <1>2, Invariance, LinkInvHolds, JoinedStopsSucceed, PTL
  DEF Spec, ImplementsLink, Link!Spec
=============================================================================
