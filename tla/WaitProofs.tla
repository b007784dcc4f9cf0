------------------------------ MODULE WaitProofs ------------------------------
(***************************************************************************)
(* Which calls, death recipients and threads of the virtual machine object *)
(* can wait for each other for ever: none without one that holds           *)
(* main_state while it waits, and no stops and requests among themselves.  *)
(* The argument needs the owner of each mutex to be at a step that holds   *)
(* it, the converse of CallsOwnState and InstanceHeld.                     *)
(***************************************************************************)
EXTENDS CallProofs

(* The steps at which a thread has each mutex. *)
StepsWith ==
    [instance |-> InstanceSteps,
     state |-> {"start_lock_instance", "start_vm", "start_finish", "death_lock_guest"},
     userspace_thread |-> {"join_userspace"},
     guest_client |-> {"request_join_stop"}]

(* No mutex is left behind by a call that went on or returned. *)
OwnersAtSteps ==
    /\ \A l \in Locks : lock[l] # None => pc[lock[l]] \in StepsWith[l]
    /\ lock["instance"] \notin Clients

(* Recipients are at the steps of recipients, calls at those of calls. *)
StepsByKind ==
    /\ \A c \in Clients : pc[c] \in {"idle"} \cup DeathSteps
    /\ \A t \in Callers : pc[t] \notin DeathSteps \ UserspaceSteps

(* A thread that is joined exists, or its unwrap has aborted the process. *)
JoinSteps == {"stop_join", "request_join_stop", "join_userspace"}
JoinTargets ==
    process = "up" => \A t \in Actors : pc[t] \in JoinSteps => target[t] \in Boots

WaitInv == OwnersAtSteps /\ StepsByKind /\ JoinTargets

-----------------------------------------------------------------------------
(* What moves a call keeps WaitInv *)

(* The steps of the calls and recipients, in one formula for the lemmas below. *)
LEMMA OwnersGoing ==
    ASSUME CallsTyped, OwnersAtSteps, NEW t \in Actors, NEW step, Goto(t, step),
           \A l \in Locks : lock'[l] \in {lock[l], t, None},
           \A l \in Locks : lock'[l] = t => step \in StepsWith[l],
           t \in Callers \/ lock'["instance"] = lock["instance"]
    PROVE  OwnersAtSteps'
BY ActorsAssumption, ActorValues DEF CallsTyped, OwnersAtSteps, Goto, Locks

LEMMA OwnersReturning ==
    ASSUME CallsTyped, OwnersAtSteps, NEW t \in Actors, Return(t) PROVE OwnersAtSteps'
BY ActorsAssumption, ActorValues DEF CallsTyped, OwnersAtSteps, Return, Release, Locks

(* Whoever waits for the userspace thread, call or recipient, takes its mutex and
   gives it back. *)
LEMMA UserspaceKeepsOwners ==
    ASSUME TypeOK, OwnersAtSteps, NEW t \in Actors, UserspaceStep(t) PROVE OwnersAtSteps'
<1>. USE DEF TypeOK, CallsTyped
<1>1. ASSUME NEW step, Goto(t, step), step \in {"take_userspace", "join_userspace", ThenLockState(t)},
             \A l \in Locks : lock'[l] = t => lock[l] = t \/ l = "userspace_thread",
             lock'["userspace_thread"] = t => step = "join_userspace",
             \A l \in Locks : lock'[l] \in {lock[l], t, None}
      PROVE  OwnersAtSteps'
  <2>1. t # None
    BY ActorsAssumption DEF Actors
  <2>2. pc[t] \in UserspaceSteps
    BY DEF UserspaceStep, CheckStarted, TakeUserspace, JoinUserspace, UserspaceSteps
  <2>3. \A l \in Locks : lock[l] = t => l = "userspace_thread" \/ (l = "instance" /\ t \in Callers)
    <3>1. \A l \in Locks : lock[l] = t => pc[t] \in StepsWith[l]
      BY <2>1 DEF OwnersAtSteps
    <3>2. lock["instance"] = t => t \in Callers
      BY DEF OwnersAtSteps, Actors
    <3>3. lock["state"] # t /\ lock["guest_client"] # t
      BY <2>2, <3>1 DEF StepsWith, Locks, UserspaceSteps
    <3>. QED  BY <3>2, <3>3 DEF Locks
  <2>4. t \in Callers => step \in InstanceSteps
    BY <1>1, ActorsAssumption DEF ThenLockState, InstanceSteps, UserspaceSteps
  <2>5. \A l \in Locks : lock'[l] = t => step \in StepsWith[l]
    BY <1>1, <2>3, <2>4 DEF StepsWith, Locks
  <2>6. t \in Callers \/ lock'["instance"] = lock["instance"]
    BY <1>1, <2>3 DEF UserspaceStep, CheckStarted, TakeUserspace, JoinUserspace, Acquire, Locks
  <2>. QED  BY <1>1, <2>5, <2>6, OwnersGoing
<1>2. CASE CheckStarted(t)
  <2>1. lock' = lock /\ pc[t] = "check_started"
    BY <1>2 DEF CheckStarted
  <2>2. lock["userspace_thread"] # t
    BY <2>1, ActorsAssumption DEF OwnersAtSteps, StepsWith, Locks, Actors
  <2>. QED  BY <1>1, <1>2, <2>1, <2>2 DEF CheckStarted
<1>3. CASE TakeUserspace(t)
  <2>1. Free("userspace_thread") /\ t # None
    BY <1>3, ActorsAssumption DEF TakeUserspace, Actors
  <2>2. CASE Goto(t, ThenLockState(t)) /\ lock' = lock
    BY <1>1, <2>1, <2>2 DEF Free
  <2>3. CASE Acquire(t, "userspace_thread") /\ Goto(t, "join_userspace")
    BY <1>1, <2>3 DEF Acquire
  <2>. QED  BY <1>3, <2>2, <2>3 DEF TakeUserspace
<1>4. CASE JoinUserspace(t)
  <2>1. t # None /\ "userspace_thread" \in Locks
    BY ActorsAssumption DEF Actors, Locks
  <2>. QED  BY <1>1, <1>4, <2>1 DEF JoinUserspace
<1>. QED  BY <1>2, <1>3, <1>4 DEF UserspaceStep

(* Whoever goes on keeps only the mutexes of its next step. *)
LEMMA GoingKeepsOwners ==
    ASSUME TypeOK, CallsOwnState, OwnersAtSteps, NEW t \in Callers, CallStep(t)
    PROVE  OwnersAtSteps'
<1>. USE ActorValues, ActorsAssumption
     DEF TypeOK, CallsTyped, Free, Acquire, Locks, StepsWith, InstanceSteps, UserspaceSteps
<1>1. CASE StartRegister(t) \/ StartLockState(t) \/ StartProceeds(t) \/ CreateVm(t)
  <2>1. CASE StartRegister(t)
    BY <2>1, OwnersGoing, OwnersReturning DEF StartRegister, OwnersAtSteps
  <2>2. CASE StartLockState(t)
    BY <2>2, OwnersGoing DEF StartLockState, OwnersAtSteps
  <2>3. CASE StartProceeds(t)
    BY <2>3, OwnersGoing DEF StartProceeds, OwnersAtSteps
  <2>4. CASE CreateVm(t)
    BY <2>4, OwnersGoing DEF CreateVm, OwnersAtSteps
  <2>. QED  BY <1>1, <2>1, <2>2, <2>3, <2>4
<1>2. CASE StartReturns(t) \/ StartVmFails(t) \/ StartFinish(t)
  BY <1>2, OwnersReturning DEF StartReturns, StartVmFails, StartFinish
<1>3. CASE StartVmAborts(t) \/ RequestHasNoGuest(t)
  BY <1>3 DEF StartVmAborts, RequestHasNoGuest, callVars, OwnersAtSteps
<1>4. CASE StopLockInstance(t)
  <2>1. CASE Return(t)
    BY <2>1, OwnersReturning
  <2>2. CASE Acquire(t, "instance") /\ Goto(t, "stop_lock_state")
    BY <1>4, <2>2, OwnersGoing DEF StopLockInstance, OwnersAtSteps
  <2>. QED  BY <1>4, <2>1, <2>2 DEF StopLockInstance
<1>5. CASE StopKillsVm(t)
  BY <1>5, OwnersGoing DEF StopKillsVm, OwnersAtSteps
<1>6. CASE StopNothingToDo(t) \/ StopCannotNotify(t) \/ StopJoin(t)
  BY <1>6, OwnersReturning DEF StopNothingToDo, StopCannotNotify, StopJoin
<1>7. CASE RequestLockInstance(t)
  <2>1. CASE Return(t)
    BY <2>1, OwnersReturning
  <2>2. CASE Acquire(t, "instance") /\ Goto(t, "check_started")
    BY <1>7, <2>2, OwnersGoing DEF RequestLockInstance, OwnersAtSteps
  <2>. QED  BY <1>7, <2>1, <2>2 DEF RequestLockInstance
<1>8. CASE RequestAccepted(t)
  BY <1>8, OwnersGoing DEF RequestAccepted, RequestDeparts, OwnersAtSteps
<1>9. CASE \/ RequestNothingToDo(t) \/ RequestLeavesOthers(t) \/ RequestRefused(t)
           \/ RequestJoinStop(t)
  BY <1>9, OwnersReturning
  DEF RequestNothingToDo, RequestLeavesOthers, RequestRefused, RequestJoinStop
<1>10. CASE UserspaceStep(t)
  BY <1>10, UserspaceKeepsOwners
<1>. QED
  BY <1>1, <1>2, <1>3, <1>4, <1>5, <1>6, <1>7, <1>8, <1>9, <1>10
  DEF CallStep, StartStep, StopStep, RequestStep

(* A recipient takes main_state last, and returns with it. *)
LEMMA DyingKeepsOwners ==
    ASSUME TypeOK, OwnersAtSteps, NEW c \in Clients,
           DeliverDeath(c) \/ DeathStep(c) \/ ClientDies(c)
    PROVE  OwnersAtSteps'
<1>. USE ActorValues, ActorsAssumption
     DEF TypeOK, CallsTyped, Free, Acquire, Locks, StepsWith, InstanceSteps, UserspaceSteps
<1>1. CASE DeliverDeath(c)
  BY <1>1, OwnersGoing DEF DeliverDeath, OwnersAtSteps
<1>2. CASE DeathOfLast(c)
  BY <1>2, OwnersGoing DEF DeathOfLast, OwnersAtSteps
<1>3. CASE DeathLockState(c)
  BY <1>3, OwnersGoing DEF DeathLockState, OwnersAtSteps
<1>4. CASE DeathLeavesOthers(c) \/ DeathKillsVm(c) \/ DeathShutsDown(c)
  BY <1>4, OwnersReturning DEF DeathLeavesOthers, DeathKillsVm, DeathShutsDown
<1>5. CASE ClientDies(c)
  BY <1>5 DEF ClientDies, callVars, OwnersAtSteps
<1>. QED  BY <1>1, <1>2, <1>3, <1>4, <1>5, UserspaceKeepsOwners DEF DeathStep

(* The threads of a boot and the guests own none of the mutexes over a step. *)
LEMMA ThreadsOwnNothing ==
    ASSUME \/ \E w \in Workers : WorkerStep(w)
           \/ \E b \in Boots : StopperStep(b) \/ GuestStep(b)
    PROVE  UNCHANGED callVars
BY DEF WorkerStep, ConnectSucceeds, ConnectFails, UserspaceGivesUp, StoreClient, ReportReady,
   MonitorPolls, MonitorChecks, MonitorClearsClient, MonitorReportsLost,
   StopperStep, TakeVirtmgr, DestroyVm, ReportStop,
   GuestStep, GuestPowersOff, VmExits, GuestServiceRestarts

(* Every step leaves each mutex with nobody or with a thread that needs it. *)
LEMMA StepKeepsOwners == ASSUME TypeOK, CallsOwnState, OwnersAtSteps, Next PROVE OwnersAtSteps'
<1>1. ASSUME NEW t \in Callers, NEW c \in Clients, NEW op \in Ops, Begin(t, c, op)
      PROVE OwnersAtSteps'
  BY <1>1, ActorsAssumption, ActorValues
  DEF Begin, TypeOK, Ops, FirstStep, OwnersAtSteps, Locks, StepsWith, InstanceSteps, UserspaceSteps
<1>2. CASE ServiceRestarts
  BY <1>2, ActorsAssumption DEF ServiceRestarts, OwnersAtSteps, Locks
<1>3. ASSUME UNCHANGED callVars PROVE OwnersAtSteps'
  BY <1>3 DEF callVars, OwnersAtSteps
<1>4. ASSUME NEW w \in Workers, WorkerStep(w) PROVE OwnersAtSteps'
  BY <1>3, <1>4, ThreadsOwnNothing
<1>5. ASSUME NEW b \in Boots, StopperStep(b) \/ GuestStep(b) PROVE OwnersAtSteps'
  BY <1>3, <1>5, ThreadsOwnNothing
<1>. QED
  BY <1>1, <1>2, <1>4, <1>5, GoingKeepsOwners, DyingKeepsOwners DEF Next, Running

-----------------------------------------------------------------------------
(* Where calls and recipients are, and what they join *)

Placed == StepsByKind /\ JoinTargets
DeathOnly == {"death_remove", "death_lock_state", "death_lock_guest"}

(* Going on keeps both, if what is joined is a thread of a boot. *)
LEMMA PlacedGoing ==
    ASSUME CallsTyped, Placed, process = "up", NEW t \in Actors, NEW step, Goto(t, step),
           \/ t \in Callers /\ step \notin DeathOnly
           \/ t \in Clients /\ step \in DeathSteps,
           \A u \in Actors : u # t => target'[u] = target[u],
           process' = "up" /\ step \in JoinSteps => target'[t] \in Boots
    PROVE  Placed'
BY ActorsAssumption, ActorValues
DEF CallsTyped, Placed, StepsByKind, JoinTargets, Goto, DeathOnly, DeathSteps, UserspaceSteps

(* So does returning. *)
LEMMA PlacedReturning ==
    ASSUME CallsTyped, Placed, process = "up", NEW t \in Actors, Return(t) PROVE Placed'
BY ActorsAssumption, ActorValues
DEF CallsTyped, Placed, StepsByKind, JoinTargets, Return, DeathSteps, UserspaceSteps, JoinSteps

(* The steps of a call. *)
LEMMA CallsKeepPlaced ==
    ASSUME TypeOK, Placed, process = "up", NEW t \in Callers,
           StartStep(t) \/ StopStep(t) \/ RequestStep(t)
    PROVE  Placed'
<1>. USE ActorValues DEF TypeOK, CallsTyped, DeathOnly, JoinSteps
<1>1. CASE StartRegister(t) \/ StopLockInstance(t) \/ RequestLockInstance(t)
  <2>1. CASE Return(t)
    BY <2>1, PlacedReturning
  <2>2. ASSUME NEW step \in {"start_lock_state", "stop_lock_state", "check_started"},
               Goto(t, step), target' = target
        PROVE  Placed'
    BY <2>2, PlacedGoing
  <2>. QED  BY <1>1, <2>1, <2>2 DEF StartRegister, StopLockInstance, RequestLockInstance
<1>2. CASE StartLockState(t) \/ StartProceeds(t) \/ CreateVm(t)
  BY <1>2, PlacedGoing DEF StartLockState, StartProceeds, CreateVm
<1>3. CASE StartVmAborts(t) \/ RequestHasNoGuest(t)
  BY <1>3 DEF StartVmAborts, RequestHasNoGuest, Abort, callVars, Placed, StepsByKind, JoinTargets
<1>4. CASE \/ StartReturns(t) \/ StartVmFails(t) \/ StartFinish(t) \/ StopNothingToDo(t)
           \/ StopCannotNotify(t) \/ StopJoin(t) \/ RequestNothingToDo(t)
           \/ RequestLeavesOthers(t) \/ RequestRefused(t) \/ RequestJoinStop(t)
  BY <1>4, PlacedReturning
  DEF StartReturns, StartVmFails, StartFinish, StopNothingToDo, StopCannotNotify, StopJoin,
      RequestNothingToDo, RequestLeavesOthers, RequestRefused, RequestJoinStop
<1>5. CASE StopKillsVm(t) \/ RequestAccepted(t)
  <2>1. process' = "up" => stop_thread \in Boots
    BY <1>5, BoundAssumption DEF StopKillsVm, RequestAccepted, Abort, Handles, Boots
  <2>2. target' = [target EXCEPT ![t] = stop_thread]
    BY <1>5 DEF StopKillsVm, RequestAccepted
  <2>3. process' = "up" => target'[t] \in Boots
    BY <2>1, <2>2
  <2>4. \A u \in Actors : u # t => target'[u] = target[u]
    BY <2>2
  <2>5. \E step \in {"stop_join", "request_join_stop"} : Goto(t, step)
    BY <1>5 DEF StopKillsVm, RequestAccepted
  <2>. QED  BY <2>3, <2>4, <2>5, PlacedGoing
<1>. QED  BY <1>1, <1>2, <1>3, <1>4, <1>5 DEF StartStep, StopStep, RequestStep

(* Waiting for the userspace thread. *)
LEMMA UserspaceKeepsPlaced ==
    ASSUME TypeOK, Placed, process = "up", NEW t \in Actors, UserspaceStep(t) PROVE Placed'
<1>. USE ActorsAssumption DEF TypeOK, CallsTyped
<1>1. ASSUME NEW step \in {"take_userspace", ThenLockState(t)}, Goto(t, step),
             \A u \in Actors : u # t => target'[u] = target[u]
      PROVE  Placed'
  <2>1. step \notin JoinSteps
    BY DEF ThenLockState, JoinSteps
  <2>2. \/ t \in Callers /\ step \notin DeathOnly
        \/ t \in Clients /\ step \in DeathSteps
    BY DEF Actors, ThenLockState, DeathOnly, DeathSteps, UserspaceSteps
  <2>. QED  BY <1>1, <2>1, <2>2, PlacedGoing
<1>2. CASE CheckStarted(t)
  BY <1>1, <1>2 DEF CheckStarted
<1>3. CASE JoinUserspace(t)
  BY <1>1, <1>3 DEF JoinUserspace
<1>4. CASE TakeUserspace(t)
  <2>1. CASE userspace_thread = 0
    BY <1>1, <1>4, <2>1 DEF TakeUserspace
  <2>2. CASE userspace_thread # 0
    <3>1. userspace_thread \in Boots
      BY <2>2, BoundAssumption DEF Handles, Boots
    <3>2. Goto(t, "join_userspace") /\ target' = [target EXCEPT ![t] = userspace_thread]
      BY <1>4, <2>2 DEF TakeUserspace
    <3>3. \/ t \in Callers /\ "join_userspace" \notin DeathOnly
          \/ t \in Clients /\ "join_userspace" \in DeathSteps
      BY DEF Actors, DeathOnly, DeathSteps, UserspaceSteps
    <3>4. target'[t] \in Boots /\ \A u \in Actors : u # t => target'[u] = target[u]
      BY <3>1, <3>2
    <3>. QED  BY <3>2, <3>3, <3>4, PlacedGoing
  <2>. QED  BY <2>1, <2>2
<1>. QED  BY <1>2, <1>3, <1>4 DEF UserspaceStep

(* The steps of a recipient. *)
LEMMA DyingKeepsPlaced ==
    ASSUME TypeOK, Placed, process = "up", NEW c \in Clients,
           DeliverDeath(c) \/ DeathStep(c) \/ ClientDies(c)
    PROVE  Placed'
<1>. USE ActorValues DEF TypeOK, CallsTyped
<1>1. CASE DeliverDeath(c) \/ DeathOfLast(c) \/ DeathLockState(c)
  BY <1>1, PlacedGoing
  DEF DeliverDeath, DeathOfLast, DeathLockState, JoinSteps, DeathSteps, UserspaceSteps
<1>2. CASE DeathLeavesOthers(c) \/ DeathKillsVm(c) \/ DeathShutsDown(c)
  BY <1>2, PlacedReturning DEF DeathLeavesOthers, DeathKillsVm, DeathShutsDown
<1>3. CASE ClientDies(c)
  BY <1>3 DEF ClientDies, abortVars, callVars, Placed, StepsByKind, JoinTargets
<1>. QED  BY <1>1, <1>2, <1>3, UserspaceKeepsPlaced DEF DeathStep

(* Every step. *)
LEMMA StepKeepsPlaced == ASSUME TypeOK, Placed, Next PROVE Placed'
<1>1. ASSUME process = "up", NEW t \in Callers, NEW c \in Clients, NEW op \in Ops, Begin(t, c, op)
      PROVE Placed'
  BY <1>1, ActorsAssumption, ActorValues
  DEF Begin, TypeOK, Ops, FirstStep, abortVars, Placed, StepsByKind, JoinTargets, JoinSteps,
      DeathSteps, UserspaceSteps
<1>2. CASE ServiceRestarts
  BY <1>2, ActorValues
  DEF ServiceRestarts, Placed, StepsByKind, JoinTargets, JoinSteps, DeathSteps, UserspaceSteps
<1>3. ASSUME process = "up", UNCHANGED callVars PROVE Placed'
  BY <1>3 DEF callVars, Placed, StepsByKind, JoinTargets
<1>. QED
  BY <1>1, <1>2, <1>3, ThreadsOwnNothing, CallsKeepPlaced, UserspaceKeepsPlaced,
     DyingKeepsPlaced, ActorValues DEF Next, Running, CallStep

(* The three parts hold in every reachable state. *)
LEMMA WaitInvHolds == Spec => []WaitInv
<1>1. Init => WaitInv
  BY ActorValues, ActorsAssumption
  DEF Init, WaitInv, OwnersAtSteps, StepsByKind, JoinTargets, JoinSteps, DeathSteps,
      UserspaceSteps, Locks
<1>2. IndInv /\ WaitInv /\ [Next]_vars => WaitInv'
  <2>1. CASE Next
    BY <2>1, StepKeepsOwners, StepKeepsPlaced DEF IndInv, BootInv, WaitInv, Placed
  <2>2. CASE UNCHANGED vars
    BY <2>2 DEF vars, WaitInv, OwnersAtSteps, StepsByKind, JoinTargets
  <2>. QED  BY <2>1, <2>2
<1>. QED  BY <1>1, <1>2, Invariance, PTL DEF Spec

-----------------------------------------------------------------------------
(* Who waits for whom *)

(* Every step with a mutex to take, by the mutex. *)
LEMMA Takes ==
    /\ \A step \in {"start_lock_state", "stop_lock_state", "request_lock_state", "check_started",
                   "death_lock_state", "ready", "report_lost", "watch", "report_stopped",
                   "report_crashed"} : OwnerFor(step) = lock["state"]
    /\ \A step \in {"start_register", "start_lock_instance", "stop_lock_instance",
                   "request_lock_instance"} : OwnerFor(step) = lock["instance"]
    /\ \A step \in {"start_finish", "take_userspace"} : OwnerFor(step) = lock["userspace_thread"]
    /\ \A step \in {"death_lock_guest", "give_up", "store_client", "clear_client"} :
          OwnerFor(step) = lock["guest_client"]
    /\ \A step \in {"idle", "start_vm", "death_remove", "none", "connecting", "check", "done",
                   "spawned", "waiting", "ok", "failed"} : OwnerFor(step) = None
BY DEF OwnerFor, MutexTaken

(* A joiner waits for the mutex that the thread it joins takes. *)
LEMMA BlockerOfJoiner ==
    ASSUME TypeOK, JoinTargets, process = "up", NEW t \in Actors
    PROVE  /\ pc[t] \in {"stop_join", "request_join_stop"} => Blocker(t) \in {None, lock["state"]}
           /\ pc[t] = "join_userspace" => Blocker(t) \in {None, lock["state"], lock["guest_client"]}
<1>1. ASSUME pc[t] \in {"stop_join", "request_join_stop"}
      PROVE  Blocker(t) \in {None, lock["state"]}
  <2>1. stopper[target[t]] \in StopperSteps
    BY <1>1 DEF JoinTargets, JoinSteps, TypeOK
  <2>2. OwnerFor(stopper[target[t]]) \in {None, lock["state"]}
    BY <2>1, Takes DEF StopperSteps
  <2>. QED  BY <1>1, <2>2 DEF Blocker
<1>2. ASSUME pc[t] = "join_userspace"
      PROVE  Blocker(t) \in {None, lock["state"], lock["guest_client"]}
  <2>1. worker[<<"userspace", target[t]>>] \in WorkerSteps
    BY <1>2 DEF JoinTargets, JoinSteps, TypeOK, Workers
  <2>2. OwnerFor(worker[<<"userspace", target[t]>>]) \in {None, lock["state"], lock["guest_client"]}
    BY <2>1, Takes DEF WorkerSteps
  <2>. QED  BY <1>2, <2>2 DEF Blocker
<1>. QED  BY <1>1, <1>2

(* The other actors wait for the mutex of their step. *)
LEMMA BlockerOfOthers ==
    ASSUME NEW t \in Actors, pc[t] \notin JoinSteps PROVE Blocker(t) = OwnerFor(pc[t])
BY DEF Blocker, JoinSteps

(* In a set that waits for itself, somebody holds main_state: without it the chain goes
   from vm_instance to wait_for_userspace_thread, on to guest_client, and ends there at
   a stop thread that waits for main_state. *)
LEMMA WaitingNeedsState ==
    ASSUME TypeOK, WaitInv, process = "up", NEW S \in WaitSets
    PROVE  \E u \in S : lock["state"] = u
<1>. SUFFICES ASSUME lock["state"] \notin S PROVE FALSE
  OBVIOUS
<1>. USE DEF WaitInv
<1>1. /\ S \subseteq Actors /\ S # {} /\ None \notin S
      /\ \A t \in S : Blocker(t) \in S
  BY ActorsAssumption DEF WaitSets, Waiting, Actors
<1>2. \A t \in S : pc[t] \notin {"stop_join", "request_join_stop"}
  BY <1>1, BlockerOfJoiner
<1>3. lock["guest_client"] \notin S
  <2>. SUFFICES ASSUME lock["guest_client"] \in S PROVE FALSE
    OBVIOUS
  <2>1. pc[lock["guest_client"]] = "request_join_stop"
    BY <1>1 DEF OwnersAtSteps, StepsWith, Locks
  <2>. QED  BY <1>2, <2>1
<1>4. \A t \in S : pc[t] # "join_userspace"
  BY <1>1, <1>3, BlockerOfJoiner
<1>5. lock["userspace_thread"] \notin S
  <2>. SUFFICES ASSUME lock["userspace_thread"] \in S PROVE FALSE
    OBVIOUS
  <2>1. pc[lock["userspace_thread"]] = "join_userspace"
    BY <1>1 DEF OwnersAtSteps, StepsWith, Locks
  <2>. QED  BY <1>4, <2>1
<1>6. \A t \in S : Blocker(t) = OwnerFor(pc[t])
  BY <1>1, <1>2, <1>4, BlockerOfOthers DEF JoinSteps
<1>7. lock["instance"] \notin S
  <2>. SUFFICES ASSUME lock["instance"] \in S PROVE FALSE
    OBVIOUS
  <2>. DEFINE o == lock["instance"]
  <2>1. pc[o] \in InstanceSteps
    BY <1>1 DEF OwnersAtSteps, StepsWith, Locks
  <2>2. pc[o] \in {"start_vm", "start_finish", "stop_lock_state", "request_lock_state",
                   "check_started", "take_userspace"}
    BY <1>2, <1>4, <2>1 DEF InstanceSteps, UserspaceSteps
  <2>3. OwnerFor(pc[o]) \in {None, lock["state"], lock["userspace_thread"]}
    BY <2>2, Takes
  <2>. QED  BY <1>1, <1>5, <1>6, <2>3
<1>8. \A t \in S : OwnerFor(pc[t]) \in {None, lock["state"], lock["instance"],
                                       lock["userspace_thread"], lock["guest_client"]}
  <2>. SUFFICES ASSUME NEW t \in S
                PROVE  OwnerFor(pc[t]) \in {None, lock["state"], lock["instance"],
                                           lock["userspace_thread"], lock["guest_client"]}
    OBVIOUS
  <2>1. pc[t] \in Steps \ JoinSteps
    BY <1>1, <1>2, <1>4 DEF TypeOK, JoinSteps
  <2>. QED
    BY <2>1, Takes DEF Steps, StartSteps, StopSteps, RequestSteps, DeathSteps, UserspaceSteps,
       JoinSteps
<1>. QED  BY <1>1, <1>3, <1>5, <1>6, <1>7, <1>8

(* However calls, deaths and the threads of the boots overlap (the critical sections at
   873, 938, 1037 and 1088), threads only wait for each other for ever around one that
   holds main_state while it waits. *)
THEOREM CyclesAreAroundState == Spec => []CyclesHoldState
<1>1. IndInv /\ WaitInv => CyclesHoldState
  BY WaitingNeedsState DEF IndInv, CyclesHoldState
<1>. QED  BY <1>1, Invariance, WaitInvHolds, PTL

(* Any number of stops and requests finish with each other, and so do any number of
   starts: only a start among stops or requests, or the recipient of a dead client, gets
   into a cycle. *)
THEOREM StopsDoNotDeadlock == Spec => []NoWaitCycle
<1>1. IndInv /\ InstanceHeld /\ WaitInv => NoWaitCycle
  <2>. SUFFICES ASSUME IndInv, InstanceHeld, WaitInv, process = "up",
                       "start" \in InProgress => InProgress = {"start"},
                       \A c \in Clients : pc[c] = "idle",
                       NEW S \in WaitSets
                PROVE  FALSE
    BY DEF NoWaitCycle
  <2>. USE DEF IndInv, WaitInv
  <2>1. S \subseteq Actors /\ None \notin S /\ \A t \in S : Blocker(t) \in S
    BY ActorsAssumption DEF WaitSets, Waiting, Actors
  <2>2. PICK u \in S : lock["state"] = u
    BY WaitingNeedsState
  <2>3. pc[u] \in {"start_lock_instance", "start_vm", "start_finish", "death_lock_guest"}
    BY <2>1, <2>2 DEF OwnersAtSteps, StepsWith, Locks
  <2>4. u \in Callers /\ pc[u] \in {"start_lock_instance", "start_vm", "start_finish"}
    BY <2>1, <2>3 DEF Actors, StepsByKind, DeathSteps, UserspaceSteps
  <2>5. InProgress = {"start"}
    BY <2>4 DEF InProgress, Ops, StepsOf, StartSteps
  <2>6. \A t \in Actors : pc[t] \notin StopSteps \cup RequestSteps
    <3>1. \A t \in Callers : pc[t] \notin StopSteps
      BY <2>5 DEF InProgress, Ops, StepsOf
    <3>2. \A t \in Callers : pc[t] \notin RequestSteps
      BY <2>5 DEF InProgress, Ops, StepsOf
    <3>. QED
      BY <3>1, <3>2 DEF Actors, StopSteps, RequestSteps, UserspaceSteps
  <2>7. Blocker(u) = OwnerFor(pc[u])
    BY <2>1, <2>4, BlockerOfOthers DEF JoinSteps
  <2>8. CASE pc[u] = "start_lock_instance"
    <3>. DEFINE o == lock["instance"]
    <3>1. o \in S
      BY <2>1, <2>7, <2>8, Takes
    <3>2. pc[o] \in InstanceSteps /\ o \in Callers
      BY <2>1, <3>1 DEF OwnersAtSteps, StepsWith, Locks, Actors
    <3>3. pc[o] \in {"start_vm", "start_finish"}
      BY <2>1, <2>6, <3>1, <3>2 DEF InstanceSteps, StopSteps, RequestSteps
    <3>4. o = u
      BY <2>2, <3>2, <3>3 DEF BootInv, CallsOwnState
    <3>. QED  BY <2>8, <3>3, <3>4
  <2>9. CASE pc[u] = "start_vm"
    BY <2>1, <2>7, <2>9, Takes
  <2>10. CASE pc[u] = "start_finish"
    <3>. DEFINE o == lock["userspace_thread"]
    <3>1. o \in S
      BY <2>1, <2>7, <2>10, Takes
    <3>2. pc[o] = "join_userspace"
      BY <2>1, <3>1 DEF OwnersAtSteps, StepsWith, Locks
    <3>. QED  BY <2>1, <2>6, <3>1, <3>2 DEF RequestSteps, UserspaceSteps
  <2>. QED  BY <2>4, <2>8, <2>9, <2>10
<1>. QED  BY <1>1, Invariance, JoinInvHolds, WaitInvHolds, PTL DEF JoinInv

(* A request never waits for guest_client while it holds main_state and vm_clients, and
   its wait is a wait for main_state alone. *)
THEOREM RequestFindsGuestClientFree == Spec => []GuestClientFree
<1>1. IndInv /\ InstanceHeld /\ WaitInv => GuestClientFree
  <2>. SUFFICES ASSUME IndInv, InstanceHeld, WaitInv, NEW t \in Callers, pc[t] = "request_lock_state",
                       lock["guest_client"] # None
                PROVE  FALSE
    BY DEF GuestClientFree, Free
  <2>1. pc[lock["guest_client"]] = "request_join_stop"
    BY DEF WaitInv, OwnersAtSteps, StepsWith, Locks
  <2>2. lock["guest_client"] \in Callers
    BY <2>1 DEF IndInv, TypeOK, Locks, Actors, WaitInv, StepsByKind, DeathSteps, UserspaceSteps
  <2>. QED  BY <2>1, <2>2 DEF InstanceHeld, InstanceSteps
<1>. QED  BY <1>1, Invariance, JoinInvHolds, WaitInvHolds, PTL DEF JoinInv
=============================================================================
