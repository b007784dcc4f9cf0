------------------------- MODULE VirtualMachineProofs -------------------------
(***************************************************************************)
(* Theorems of the virtual machine object, for any number of clients,      *)
(* callers and boots, any transport and any set of faults.                 *)
(*                                                                         *)
(* IndInv, the types with BootInv, is inductive.  StepKeepsTypes,          *)
(* StepKeepsCallsOwnState and StepKeepsOrder go through the actions once   *)
(* for each of its parts, and the safety theorems at the end follow from   *)
(* Invariance without looking at a step.                                   *)
(***************************************************************************)
EXTENDS VirtualMachineProperties, TLAPS, SequenceTheorems

(* The types of the variables a call moves, in one formula for the lemmas below. *)
CallsTyped ==
    /\ lock \in [Locks -> Actors \cup {None}]
    /\ pc \in [Actors -> Steps]
    /\ arg \in [Callers -> Clients \cup {None}]
    /\ target \in [Actors -> Handles]

(* Taking a client off vm_clients leaves a list of clients. *)
LEMMA WithoutType ==
    ASSUME clients \in Seq(Clients), NEW c PROVE Without(c) \in Seq(Clients)
<1>1. CASE Registered(c)
  <2>1. \E i \in DOMAIN clients : clients[i] = c
    BY <1>1 DEF Registered, Contains
  <2>2. Position(c) \in 1..Len(clients)
    BY <2>1 DEF Position
  <2>3. /\ SubSeq(clients, 1, Position(c) - 1) \in Seq(Clients)
        /\ SubSeq(clients, Position(c) + 1, Len(clients)) \in Seq(Clients)
    BY <2>2, SubSeqProperties
  <2>. QED  BY <1>1, <2>3 DEF Without, RemoveAt
<1>2. CASE ~Registered(c)
  BY <1>2 DEF Without
<1>. QED  BY <1>1, <1>2

(* Values that the actions assign. *)
LEMMA HandleValues == 0 \in Handles /\ Boots \subseteq Handles /\ NoConnection \in Connections
BY BoundAssumption DEF Handles, Boots, Connections, NoConnection

(* What GuestServiceRestarts and ConnectSucceeds assign to a connection. *)
LEMMA ConnectionValues ==
    ASSUME NEW g \in Connections, NEW b \in Boots
    PROVE Close(g, b) \in Connections /\ [boot |-> b, up |-> TRUE] \in Connections
BY HandleValues DEF Connections, Close

(* Binder threads and death recipients are the actors. *)
LEMMA ActorValues == Callers \subseteq Actors /\ Clients \subseteq Actors
BY DEF Actors

(* What moves a call keeps the types. *)
LEMMA GotoTypes ==
    ASSUME CallsTyped, NEW t, NEW step \in Steps, Goto(t, step)
    PROVE pc' \in [Actors -> Steps] /\ arg' \in [Callers -> Clients \cup {None}]
BY DEF Goto, CallsTyped

(* Taking a mutex keeps the types. *)
LEMMA AcquireTypes ==
    ASSUME CallsTyped, NEW t \in Actors, NEW l, Acquire(t, l)
    PROVE lock' \in [Locks -> Actors \cup {None}]
BY DEF Acquire, CallsTyped

(* Taking a thread to join keeps the types. *)
LEMMA TargetTypes ==
    ASSUME CallsTyped, NEW t, NEW h \in Handles, target' = [target EXCEPT ![t] = h]
    PROVE target' \in [Actors -> Handles]
BY DEF CallsTyped

(* Returning keeps the types. *)
LEMMA ReturnTypes == ASSUME CallsTyped, NEW t, Return(t) PROVE CallsTyped'
<1>1. lock' \in [Locks -> Actors \cup {None}]
  BY DEF Return, Release, CallsTyped
<1>2. pc' \in [Actors -> Steps]
  BY DEF Return, CallsTyped, Steps
<1>3. arg' \in [Callers -> Clients \cup {None}]
  BY DEF Return, CallsTyped
<1>4. target' \in [Actors -> Handles]
  BY HandleValues, TargetTypes DEF Return
<1>. QED  BY <1>1, <1>2, <1>3, <1>4 DEF CallsTyped

(* The callbacks keep the types. *)
LEMMA ToldTypes ==
    ASSUME TypeOK, NEW s \in States, NEW c, Notify(s) \/ Tell(c, s)
    PROVE told' \in [Clients -> States \cup {"NotStarted"}]
BY DEF TypeOK, Notify, Tell

(* Stopping a VM or asking its guest keeps the types. *)
LEMMA VmTypes ==
    ASSUME TypeOK, NEW b, NEW g
    PROVE Kill(b) \in [Boots -> VmStatus] /\ Halt(g) \in [Boots -> VmStatus]
BY DEF TypeOK, Kill, Halt, VmStatus

(* Every step keeps the types.  A call works for a client, or the list would grow by None. *)
LEMMA StepKeepsTypes ==
    ASSUME TypeOK, CallsOwnState, Next PROVE TypeOK'
<1>. USE HandleValues, ActorValues DEF TypeOK, CallsTyped
<1>1. ASSUME NEW t \in Callers, NEW c \in Clients, NEW op \in Ops, Begin(t, c, op)
      PROVE TypeOK'
  BY <1>1 DEF Ops, Begin, FirstStep, abortVars, clientVars, vmVars, handleVars, guestVars,
     Steps, StartSteps, StopSteps, UserspaceSteps, RequestSteps, DeathSteps
<1>2. ASSUME NEW t \in Callers, StartRegister(t) PROVE TypeOK'
  <2>1. clients' \in Seq(Clients)
    <3>1. arg[t] \in Clients
      BY <1>2 DEF StartRegister, CallsOwnState
    <3>2. Append(clients, arg[t]) \in Seq(Clients)
      BY <3>1, AppendProperties
    <3>. QED  BY <1>2, <3>2 DEF StartRegister
  <2>2. CallsTyped'
    <3>1. CASE Return(t)
      BY <3>1, ReturnTypes
    <3>2. CASE Goto(t, "start_lock_state") /\ UNCHANGED <<lock, target>>
      BY <3>2, GotoTypes DEF Steps, StartSteps
    <3>. QED  BY <1>2, <3>1, <3>2 DEF StartRegister
  <2>. QED  BY <1>2, <2>1, <2>2 DEF StartRegister, abortVars, vmVars, handleVars, guestVars
<1>3. ASSUME NEW t \in Callers, StartLockState(t) PROVE TypeOK'
  BY <1>3, GotoTypes, AcquireTypes DEF StartLockState, abortVars, clientVars, vmVars,
     handleVars, guestVars, Steps, StartSteps, StopSteps, UserspaceSteps, RequestSteps,
     DeathSteps
<1>4. ASSUME NEW t \in Callers, StartReturns(t) PROVE TypeOK'
  BY <1>4, ReturnTypes, ToldTypes DEF StartReturns, abortVars, vmVars, handleVars, guestVars,
     States
<1>5. ASSUME NEW t \in Callers, StartProceeds(t) PROVE TypeOK'
  BY <1>5, GotoTypes, AcquireTypes, ToldTypes DEF StartProceeds, abortVars, vmVars, handleVars,
     guestVars, States, Steps, StartSteps, StopSteps, UserspaceSteps, RequestSteps, DeathSteps
<1>6. ASSUME NEW t \in Callers, StartVmFails(t) PROVE TypeOK'
  BY <1>6, ReturnTypes DEF StartVmFails, abortVars, clientVars, handleVars, guestVars
<1>7. ASSUME NEW t \in Callers, StartVmAborts(t) PROVE TypeOK'
  BY <1>7 DEF StartVmAborts, Abort, callVars, clientVars, vmVars, handleVars, guestVars, Aborts
<1>8. ASSUME NEW t \in Callers, CreateVm(t) PROVE TypeOK'
  <2>1. boot + 1 \in Boots
    BY <1>8, BoundAssumption DEF CreateVm, Handles, Boots
  <2>2. vm' \in [Boots -> VmStatus] /\ worker' \in [Workers -> WorkerSteps]
    BY <1>8 DEF CreateVm, VmStatus, WorkerSteps
  <2>3. pc' \in [Actors -> Steps] /\ arg' \in [Callers -> Clients \cup {None}]
    BY <1>8, GotoTypes DEF CreateVm, Steps, StartSteps
  <2>. QED  BY <1>8, <2>1, <2>2, <2>3 DEF CreateVm, abortVars, clientVars, handleVars
<1>9. ASSUME NEW t \in Callers, StartFinish(t) PROVE TypeOK'
  BY <1>9, ReturnTypes, ToldTypes DEF StartFinish, abortVars, WorkerSteps, StopperSteps, States
<1>10. ASSUME NEW t \in Callers, StopLockInstance(t) PROVE TypeOK'
  BY <1>10, ReturnTypes, GotoTypes, AcquireTypes DEF StopLockInstance, abortVars, clientVars,
     vmVars, handleVars, guestVars, Steps, StartSteps, StopSteps, UserspaceSteps, RequestSteps,
     DeathSteps
<1>11. ASSUME NEW t \in Callers, StopNothingToDo(t) PROVE TypeOK'
  BY <1>11, ReturnTypes, ToldTypes DEF StopNothingToDo, abortVars, vmVars, handleVars,
     guestVars, States
<1>12. ASSUME NEW t \in Callers, StopCannotNotify(t) PROVE TypeOK'
  BY <1>12, ReturnTypes, ToldTypes DEF StopCannotNotify, abortVars, vmVars, handleVars,
     guestVars, States
<1>13. ASSUME NEW t \in Callers, StopKillsVm(t) PROVE TypeOK'
  BY <1>13, GotoTypes, TargetTypes, ToldTypes, VmTypes DEF StopKillsVm, KillOutcomes, Abort,
     guestVars, States, VmStatus, Aborts, Steps, StartSteps, StopSteps, UserspaceSteps,
     RequestSteps, DeathSteps
<1>14. ASSUME NEW t \in Callers, StopJoin(t) PROVE TypeOK'
  BY <1>14, ReturnTypes DEF StopJoin, abortVars, clientVars, vmVars, handleVars, guestVars
<1>15. ASSUME NEW u \in Actors, CheckStarted(u) PROVE TypeOK'
  BY <1>15, GotoTypes DEF CheckStarted, ThenLockState, abortVars, clientVars, vmVars,
     handleVars, guestVars, Steps, StartSteps, StopSteps, UserspaceSteps, RequestSteps,
     DeathSteps
<1>16. ASSUME NEW u \in Actors, TakeUserspace(u) PROVE TypeOK'
  BY <1>16, GotoTypes, AcquireTypes, TargetTypes DEF TakeUserspace, ThenLockState, abortVars,
     clientVars, vmVars, guestVars, Steps, StartSteps, StopSteps, UserspaceSteps, RequestSteps,
     DeathSteps
<1>17. ASSUME NEW u \in Actors, JoinUserspace(u) PROVE TypeOK'
  BY <1>17, GotoTypes, TargetTypes DEF JoinUserspace, ThenLockState, abortVars, clientVars,
     vmVars, handleVars, guestVars, Steps, StartSteps, StopSteps, UserspaceSteps, RequestSteps,
     DeathSteps
<1>18. ASSUME NEW t \in Callers, RequestLockInstance(t) PROVE TypeOK'
  BY <1>18, ReturnTypes, GotoTypes, AcquireTypes DEF RequestLockInstance, abortVars,
     clientVars, vmVars, handleVars, guestVars, Steps, StartSteps, StopSteps, UserspaceSteps,
     RequestSteps, DeathSteps
<1>19. ASSUME NEW t \in Callers, RequestNothingToDo(t) PROVE TypeOK'
  BY <1>19, ReturnTypes, ToldTypes DEF RequestNothingToDo, abortVars, vmVars, handleVars,
     guestVars, States
<1>20. ASSUME NEW t \in Callers, RequestLeavesOthers(t) PROVE TypeOK'
  BY <1>20, WithoutType, ReturnTypes DEF RequestLeavesOthers, RequestDeparts, abortVars,
     vmVars, handleVars, guestVars
<1>21. ASSUME NEW t \in Callers, RequestHasNoGuest(t) PROVE TypeOK'
  BY <1>21, WithoutType DEF RequestHasNoGuest, RequestDeparts, Abort, callVars, vmVars,
     handleVars, guestVars, Aborts
<1>22. ASSUME NEW t \in Callers, RequestRefused(t) PROVE TypeOK'
  BY <1>22, WithoutType, ReturnTypes DEF RequestRefused, RequestDeparts, abortVars, vmVars,
     handleVars, guestVars
<1>23. ASSUME NEW t \in Callers, RequestAccepted(t) PROVE TypeOK'
  BY <1>23, WithoutType, GotoTypes, AcquireTypes, TargetTypes, ToldTypes, VmTypes DEF
     RequestAccepted, RequestDeparts, Abort, guestVars, States, VmStatus, Aborts, Steps,
     StartSteps, StopSteps, UserspaceSteps, RequestSteps, DeathSteps
<1>24. ASSUME NEW t \in Callers, RequestJoinStop(t) PROVE TypeOK'
  BY <1>24, ReturnTypes, ToldTypes DEF RequestJoinStop, abortVars, vmVars, handleVars,
     guestVars, States
<1>25. ASSUME NEW c \in Clients, DeliverDeath(c) PROVE TypeOK'
  BY <1>25, GotoTypes DEF DeliverDeath, abortVars, clientVars, vmVars, handleVars, guestVars,
     Steps, StartSteps, StopSteps, UserspaceSteps, RequestSteps, DeathSteps
<1>26. ASSUME NEW c \in Clients, DeathLeavesOthers(c) PROVE TypeOK'
  BY <1>26, WithoutType, ReturnTypes DEF DeathLeavesOthers, abortVars, vmVars, handleVars,
     guestVars
<1>27. ASSUME NEW c \in Clients, DeathOfLast(c) PROVE TypeOK'
  BY <1>27, WithoutType, GotoTypes DEF DeathOfLast, abortVars, vmVars, handleVars, guestVars,
     Steps, StartSteps, StopSteps, UserspaceSteps, RequestSteps, DeathSteps
<1>28. ASSUME NEW c \in Clients, DeathKillsVm(c) PROVE TypeOK'
  <2>1. process' \in {"up"} \cup Aborts /\ vm' \in [Boots -> VmStatus]
    <3>1. CASE boot = 0
      BY <1>28, <3>1 DEF DeathKillsVm, Abort, Aborts
    <3>2. CASE boot # 0
      BY <1>28, <3>2, VmTypes DEF DeathKillsVm, Abort, Aborts, KillOutcomes
    <3>. QED  BY <3>1, <3>2
  <2>2. clients' \in Seq(Clients) /\ CallsTyped'
    BY <1>28, WithoutType, ReturnTypes DEF DeathKillsVm
  <2>. QED  BY <1>28, <2>1, <2>2 DEF DeathKillsVm, handleVars, guestVars
<1>29. ASSUME NEW c \in Clients, DeathLockState(c) PROVE TypeOK'
  BY <1>29, GotoTypes, AcquireTypes DEF DeathLockState, abortVars, clientVars, vmVars,
     handleVars, guestVars, Steps, StartSteps, StopSteps, UserspaceSteps, RequestSteps,
     DeathSteps
<1>30. ASSUME NEW c \in Clients, DeathShutsDown(c) PROVE TypeOK'
  <2>1. /\ process' \in {"up"} \cup Aborts
        /\ state' \in States
        /\ vm' \in [Boots -> VmStatus]
    <3>1. CASE state # "UserspaceReady"
      BY <1>30, <3>1 DEF DeathShutsDown, abortVars
    <3>2. CASE state = "UserspaceReady"
      BY <1>30, <3>2, VmTypes DEF DeathShutsDown, Abort, Aborts, States
    <3>. QED  BY <3>1, <3>2
  <2>2. CallsTyped'
    BY <1>30, ReturnTypes DEF DeathShutsDown
  <2>. QED  BY <1>30, <2>1, <2>2 DEF DeathShutsDown, clientVars, handleVars, guestVars
<1>31. ASSUME NEW c \in Clients, ClientDies(c) PROVE TypeOK'
  BY <1>31 DEF ClientDies, abortVars, callVars, vmVars, handleVars, guestVars
<1>32. ASSUME NEW w \in Workers, ConnectSucceeds(w) PROVE TypeOK'
  BY <1>32, ConnectionValues DEF ConnectSucceeds, MoveWorker, abortVars, callVars, clientVars,
     vmVars, handleVars, WorkerSteps
<1>33. ASSUME NEW w \in Workers, ConnectFails(w) PROVE TypeOK'
  BY <1>33 DEF ConnectFails, MoveWorker, abortVars, callVars, clientVars, vmVars, handleVars,
     WorkerSteps
<1>34. ASSUME NEW w \in Workers, UserspaceGivesUp(w) PROVE TypeOK'
  BY <1>34 DEF UserspaceGivesUp, MoveWorker, abortVars, callVars, clientVars, vmVars,
     handleVars, WorkerSteps
<1>35. ASSUME NEW w \in Workers, StoreClient(w) PROVE TypeOK'
  BY <1>35, ConnectionValues DEF StoreClient, MoveWorker, abortVars, callVars, clientVars,
     vmVars, handleVars, WorkerSteps
<1>36. ASSUME NEW w \in Workers, ReportReady(w) PROVE TypeOK'
  BY <1>36, ToldTypes DEF ReportReady, MoveWorker, abortVars, callVars, vmVars, handleVars,
     WorkerSteps, States
<1>37. ASSUME NEW w \in Workers, MonitorPolls(w) PROVE TypeOK'
  BY <1>37 DEF MonitorPolls, MoveWorker, abortVars, callVars, clientVars, vmVars, handleVars,
     WorkerSteps
<1>38. ASSUME NEW w \in Workers, MonitorChecks(w) PROVE TypeOK'
  BY <1>38 DEF MonitorChecks, MoveWorker, abortVars, callVars, clientVars, vmVars, handleVars,
     WorkerSteps
<1>39. ASSUME NEW w \in Workers, MonitorClearsClient(w) PROVE TypeOK'
  BY <1>39 DEF MonitorClearsClient, MoveWorker, abortVars, callVars, clientVars, vmVars,
     handleVars, WorkerSteps
<1>40. ASSUME NEW w \in Workers, MonitorReportsLost(w) PROVE TypeOK'
  BY <1>40, ToldTypes DEF MonitorReportsLost, MoveWorker, abortVars, callVars, vmVars,
     handleVars, WorkerSteps, States
<1>41. ASSUME NEW b \in Boots, TakeVirtmgr(b) PROVE TypeOK'
  BY <1>41 DEF TakeVirtmgr, MoveStopper, Abort, callVars, clientVars, handleVars, guestVars,
     StopperSteps, Aborts
<1>42. ASSUME NEW b \in Boots, DestroyVm(b) PROVE TypeOK'
  BY <1>42 DEF DestroyVm, MoveStopper, abortVars, callVars, clientVars, handleVars, guestVars,
     StopperSteps, VmStatus
<1>43. ASSUME NEW b \in Boots, ReportStop(b) PROVE TypeOK'
  <2>1. state' \in {"Stopped", "Crashed"} /\ stopper' \in [Boots -> StopperSteps]
    BY <1>43 DEF ReportStop, MoveStopper, StopperSteps
  <2>2. told' \in [Clients -> States \cup {"NotStarted"}]
    BY <1>43, <2>1, ToldTypes DEF ReportStop, States
  <2>3. clients' \in Seq(Clients)
    BY <1>43 DEF ReportStop
  <2>. QED  BY <1>43, <2>1, <2>2, <2>3 DEF ReportStop, States, abortVars, callVars, handleVars,
      guestVars
<1>44. ASSUME NEW b \in Boots, GuestPowersOff(b) PROVE TypeOK'
  BY <1>44 DEF GuestPowersOff, abortVars, callVars, clientVars, handleVars, guestVars, VmStatus
<1>45. ASSUME NEW b \in Boots, VmExits(b) PROVE TypeOK'
  BY <1>45 DEF VmExits, abortVars, callVars, clientVars, handleVars, guestVars, VmStatus
<1>46. ASSUME NEW b \in Boots, GuestServiceRestarts(b) PROVE TypeOK'
  BY <1>46, ConnectionValues DEF GuestServiceRestarts, abortVars, callVars, clientVars, vmVars,
     handleVars
<1>47. ASSUME ServiceRestarts PROVE TypeOK'
  <2>1. CallsTyped'
    BY <1>47 DEF ServiceRestarts, Steps
  <2>2. clients' \in Seq(Clients)
    BY <1>47 DEF ServiceRestarts
  <2>. QED
    BY <1>47, <2>1, <2>2 DEF ServiceRestarts, States, VmStatus, WorkerSteps, StopperSteps
<1>. QED
  <2>1. ASSUME NEW t \in Callers, CallStep(t) PROVE TypeOK'
    BY <2>1, <1>2, <1>3, <1>4, <1>5, <1>6, <1>7, <1>8, <1>9, <1>10, <1>11, <1>12, <1>13, <1>14,
       <1>15, <1>16, <1>17, <1>18, <1>19, <1>20, <1>21, <1>22, <1>23, <1>24
    DEF CallStep, StartStep, StopStep, UserspaceStep, RequestStep
  <2>2. ASSUME NEW c \in Clients, DeliverDeath(c) \/ DeathStep(c) \/ ClientDies(c) PROVE
     TypeOK'
    BY <2>2, <1>15, <1>16, <1>17, <1>25, <1>26, <1>27, <1>28, <1>29, <1>30, <1>31 DEF
       DeathStep, UserspaceStep
  <2>3. ASSUME NEW w \in Workers, WorkerStep(w) PROVE TypeOK'
    BY <2>3, <1>32, <1>33, <1>34, <1>35, <1>36, <1>37, <1>38, <1>39, <1>40 DEF WorkerStep
  <2>4. ASSUME NEW b \in Boots, StopperStep(b) \/ GuestStep(b) PROVE TypeOK'
    BY <2>4, <1>41, <1>42, <1>43, <1>44, <1>45, <1>46 DEF StopperStep, GuestStep
  <2>. QED  BY <1>1, <1>47, <2>1, <2>2, <2>3, <2>4 DEF Next, Running

(* A call that ends gives up only what it owned. *)
LEMMA ReturnOwns ==
    ASSUME CallsTyped, CallsOwnState, NEW t \in Actors, Return(t) PROVE CallsOwnState'
BY ActorsAssumption, ActorValues DEF CallsTyped, CallsOwnState, Return, Release, Locks

(* A call that goes on needs main_state for the steps that decide over it. *)
LEMMA GotoOwns ==
    ASSUME CallsTyped, CallsOwnState, NEW t \in Actors, NEW step \in Steps, Goto(t, step),
           pc[t] # "idle" \/ t \in Clients, lock'["state"] = lock["state"] \/ Free("state"),
           step \in {"start_lock_instance", "start_vm", "start_finish", "death_lock_guest"}
              => lock'["state"] = t
    PROVE  CallsOwnState'
BY ActorsAssumption, ActorValues DEF CallsTyped, CallsOwnState, Goto, Free

(* Every step keeps the ownership of main_state. *)
LEMMA StepKeepsCallsOwnState ==
    ASSUME TypeOK, CallsOwnState, Next PROVE CallsOwnState'
<1>. USE ActorValues, ActorsAssumption DEF TypeOK, CallsTyped
<1>1. ASSUME NEW t \in Callers, NEW c \in Clients, NEW op \in Ops, Begin(t, c, op)
      PROVE CallsOwnState'
  BY <1>1 DEF Begin, Ops, FirstStep, CallsOwnState
<1>2. ASSUME NEW t \in Callers, StartRegister(t) PROVE CallsOwnState'
  BY <1>2, ReturnOwns, GotoOwns DEF StartRegister, Free, Acquire, Steps, StartSteps, StopSteps,
     UserspaceSteps, RequestSteps, DeathSteps
<1>3. ASSUME NEW t \in Callers, StartLockState(t) PROVE CallsOwnState'
  BY <1>3, GotoOwns DEF StartLockState, Free, Acquire, Steps, StartSteps, StopSteps,
     UserspaceSteps, RequestSteps, DeathSteps, Locks
<1>4. ASSUME NEW t \in Callers, StartReturns(t) PROVE CallsOwnState'
  BY <1>4, ReturnOwns DEF StartReturns
<1>5. ASSUME NEW t \in Callers, StartProceeds(t) PROVE CallsOwnState'
  <2>1. lock'["state"] = lock["state"]
    BY <1>5 DEF StartProceeds, Acquire, Locks
  <2>2. lock["state"] = t
    BY <1>5 DEF StartProceeds, CallsOwnState
  <2>. QED  BY <1>5, <2>1, <2>2, GotoOwns DEF StartProceeds, Steps, StartSteps
<1>6. ASSUME NEW t \in Callers, StartVmFails(t) PROVE CallsOwnState'
  BY <1>6, ReturnOwns DEF StartVmFails
<1>7. ASSUME NEW t \in Callers, StartVmAborts(t) PROVE CallsOwnState'
  BY <1>7 DEF StartVmAborts, CallsOwnState, callVars
<1>8. ASSUME NEW t \in Callers, CreateVm(t) PROVE CallsOwnState'
  <2>1. lock["state"] = t
    BY <1>8 DEF CreateVm, CallsOwnState
  <2>. QED  BY <1>8, <2>1, GotoOwns DEF CreateVm, Steps, StartSteps
<1>9. ASSUME NEW t \in Callers, StartFinish(t) PROVE CallsOwnState'
  BY <1>9, ReturnOwns DEF StartFinish
<1>10. ASSUME NEW t \in Callers, StopLockInstance(t) PROVE CallsOwnState'
  BY <1>10, ReturnOwns, GotoOwns DEF StopLockInstance, Free, Acquire, Steps, StartSteps,
     StopSteps, UserspaceSteps, RequestSteps, DeathSteps, Locks
<1>11. ASSUME NEW t \in Callers, StopNothingToDo(t) PROVE CallsOwnState'
  BY <1>11, ReturnOwns DEF StopNothingToDo
<1>12. ASSUME NEW t \in Callers, StopCannotNotify(t) PROVE CallsOwnState'
  BY <1>12, ReturnOwns DEF StopCannotNotify
<1>13. ASSUME NEW t \in Callers, StopKillsVm(t) PROVE CallsOwnState'
  BY <1>13, GotoOwns DEF StopKillsVm, Free, Acquire, Steps, StartSteps, StopSteps,
     UserspaceSteps, RequestSteps, DeathSteps
<1>14. ASSUME NEW t \in Callers, StopJoin(t) PROVE CallsOwnState'
  BY <1>14, ReturnOwns DEF StopJoin
<1>15. ASSUME NEW u \in Actors, CheckStarted(u) PROVE CallsOwnState'
  BY <1>15, GotoOwns DEF CheckStarted, Free, Acquire, Steps, StartSteps, StopSteps,
     UserspaceSteps, RequestSteps, DeathSteps, ThenLockState
<1>16. ASSUME NEW u \in Actors, TakeUserspace(u) PROVE CallsOwnState'
  BY <1>16, GotoOwns DEF TakeUserspace, Free, Acquire, Steps, StartSteps, StopSteps,
     UserspaceSteps, RequestSteps, DeathSteps, Locks, ThenLockState
<1>17. ASSUME NEW u \in Actors, JoinUserspace(u) PROVE CallsOwnState'
  BY <1>17, GotoOwns DEF JoinUserspace, Free, Acquire, Steps, StartSteps, StopSteps,
     UserspaceSteps, RequestSteps, DeathSteps, ThenLockState
<1>18. ASSUME NEW t \in Callers, RequestLockInstance(t) PROVE CallsOwnState'
  BY <1>18, ReturnOwns, GotoOwns DEF RequestLockInstance, Free, Acquire, Steps, StartSteps,
     StopSteps, UserspaceSteps, RequestSteps, DeathSteps, Locks
<1>19. ASSUME NEW t \in Callers, RequestNothingToDo(t) PROVE CallsOwnState'
  BY <1>19, ReturnOwns DEF RequestNothingToDo
<1>20. ASSUME NEW t \in Callers, RequestLeavesOthers(t) PROVE CallsOwnState'
  BY <1>20, ReturnOwns DEF RequestLeavesOthers, RequestDeparts
<1>21. ASSUME NEW t \in Callers, RequestHasNoGuest(t) PROVE CallsOwnState'
  BY <1>21 DEF RequestHasNoGuest, CallsOwnState, callVars, RequestDeparts
<1>22. ASSUME NEW t \in Callers, RequestRefused(t) PROVE CallsOwnState'
  BY <1>22, ReturnOwns DEF RequestRefused, RequestDeparts
<1>23. ASSUME NEW t \in Callers, RequestAccepted(t) PROVE CallsOwnState'
  BY <1>23, GotoOwns DEF RequestAccepted, Free, Acquire, Steps, StartSteps, StopSteps,
     UserspaceSteps, RequestSteps, DeathSteps, Locks, RequestDeparts
<1>24. ASSUME NEW t \in Callers, RequestJoinStop(t) PROVE CallsOwnState'
  BY <1>24, ReturnOwns DEF RequestJoinStop
<1>25. ASSUME NEW c \in Clients, DeliverDeath(c) PROVE CallsOwnState'
  BY <1>25, GotoOwns DEF DeliverDeath, Free, Acquire, Steps, StartSteps, StopSteps,
     UserspaceSteps, RequestSteps, DeathSteps
<1>26. ASSUME NEW c \in Clients, DeathLeavesOthers(c) PROVE CallsOwnState'
  BY <1>26, ReturnOwns DEF DeathLeavesOthers
<1>27. ASSUME NEW c \in Clients, DeathOfLast(c) PROVE CallsOwnState'
  BY <1>27, GotoOwns DEF DeathOfLast, Free, Acquire, Steps, StartSteps, StopSteps,
     UserspaceSteps, RequestSteps, DeathSteps
<1>28. ASSUME NEW c \in Clients, DeathKillsVm(c) PROVE CallsOwnState'
  BY <1>28, ReturnOwns DEF DeathKillsVm
<1>29. ASSUME NEW c \in Clients, DeathLockState(c) PROVE CallsOwnState'
  BY <1>29, GotoOwns DEF DeathLockState, Free, Acquire, Steps, StartSteps, StopSteps,
     UserspaceSteps, RequestSteps, DeathSteps, Locks
<1>30. ASSUME NEW c \in Clients, DeathShutsDown(c) PROVE CallsOwnState'
  BY <1>30, ReturnOwns DEF DeathShutsDown
<1>31. ASSUME NEW c \in Clients, ClientDies(c) PROVE CallsOwnState'
  BY <1>31 DEF ClientDies, CallsOwnState, callVars
<1>32. ASSUME NEW w \in Workers, ConnectSucceeds(w) PROVE CallsOwnState'
  BY <1>32 DEF ConnectSucceeds, CallsOwnState, callVars
<1>33. ASSUME NEW w \in Workers, ConnectFails(w) PROVE CallsOwnState'
  BY <1>33 DEF ConnectFails, CallsOwnState, callVars
<1>34. ASSUME NEW w \in Workers, UserspaceGivesUp(w) PROVE CallsOwnState'
  BY <1>34 DEF UserspaceGivesUp, CallsOwnState, callVars
<1>35. ASSUME NEW w \in Workers, StoreClient(w) PROVE CallsOwnState'
  BY <1>35 DEF StoreClient, CallsOwnState, callVars
<1>36. ASSUME NEW w \in Workers, ReportReady(w) PROVE CallsOwnState'
  BY <1>36 DEF ReportReady, CallsOwnState, callVars
<1>37. ASSUME NEW w \in Workers, MonitorPolls(w) PROVE CallsOwnState'
  BY <1>37 DEF MonitorPolls, CallsOwnState, callVars
<1>38. ASSUME NEW w \in Workers, MonitorChecks(w) PROVE CallsOwnState'
  BY <1>38 DEF MonitorChecks, CallsOwnState, callVars
<1>39. ASSUME NEW w \in Workers, MonitorClearsClient(w) PROVE CallsOwnState'
  BY <1>39 DEF MonitorClearsClient, CallsOwnState, callVars
<1>40. ASSUME NEW w \in Workers, MonitorReportsLost(w) PROVE CallsOwnState'
  BY <1>40 DEF MonitorReportsLost, CallsOwnState, callVars
<1>41. ASSUME NEW b \in Boots, TakeVirtmgr(b) PROVE CallsOwnState'
  BY <1>41 DEF TakeVirtmgr, CallsOwnState, callVars
<1>42. ASSUME NEW b \in Boots, DestroyVm(b) PROVE CallsOwnState'
  BY <1>42 DEF DestroyVm, CallsOwnState, callVars
<1>43. ASSUME NEW b \in Boots, ReportStop(b) PROVE CallsOwnState'
  BY <1>43 DEF ReportStop, CallsOwnState, callVars
<1>44. ASSUME NEW b \in Boots, GuestPowersOff(b) PROVE CallsOwnState'
  BY <1>44 DEF GuestPowersOff, CallsOwnState, callVars
<1>45. ASSUME NEW b \in Boots, VmExits(b) PROVE CallsOwnState'
  BY <1>45 DEF VmExits, CallsOwnState, callVars
<1>46. ASSUME NEW b \in Boots, GuestServiceRestarts(b) PROVE CallsOwnState'
  BY <1>46 DEF GuestServiceRestarts, CallsOwnState, callVars
<1>47. ASSUME ServiceRestarts PROVE CallsOwnState'
  BY <1>47 DEF ServiceRestarts, CallsOwnState
<1>. QED
  <2>1. ASSUME NEW t \in Callers, CallStep(t) PROVE CallsOwnState'
    BY <2>1, <1>2, <1>3, <1>4, <1>5, <1>6, <1>7, <1>8, <1>9, <1>10, <1>11, <1>12, <1>13, <1>14,
       <1>15, <1>16, <1>17, <1>18, <1>19, <1>20, <1>21, <1>22, <1>23, <1>24
    DEF CallStep, StartStep, StopStep, UserspaceStep, RequestStep
  <2>2. ASSUME NEW c \in Clients, DeliverDeath(c) \/ DeathStep(c) \/ ClientDies(c) PROVE
     CallsOwnState'
    BY <2>2, <1>15, <1>16, <1>17, <1>25, <1>26, <1>27, <1>28, <1>29, <1>30, <1>31 DEF
       DeathStep, UserspaceStep
  <2>3. ASSUME NEW w \in Workers, WorkerStep(w) PROVE CallsOwnState'
    BY <2>3, <1>32, <1>33, <1>34, <1>35, <1>36, <1>37, <1>38, <1>39, <1>40 DEF WorkerStep
  <2>4. ASSUME NEW b \in Boots, StopperStep(b) \/ GuestStep(b) PROVE CallsOwnState'
    BY <2>4, <1>41, <1>42, <1>43, <1>44, <1>45, <1>46 DEF StopperStep, GuestStep
  <2>. QED  BY <1>1, <1>47, <2>1, <2>2, <2>3, <2>4 DEF Next, Running

(* The parts of BootInv that speak of boots, apart from who owns main_state. *)
Order == CreationInOrder /\ StoppersInOrder /\ StoppedInOrder

(* A stop thread that is still at work is that of the newest VM. *)
LEMMA WorkingIsNewest ==
    ASSUME TypeOK, StoppersInOrder, NEW b \in Boots, stopper[b] \notin {"none", "ok", "failed"}
    PROVE  b = boot
<1>1. b \in Int /\ boot \in Int
  BY BoundAssumption DEF TypeOK, Boots, Handles
<1>2. ~(b < boot) /\ ~(b > boot)
  BY DEF StoppersInOrder, Finished
<1>. QED  BY <1>1, <1>2

(* Every step keeps the order of boots and stop threads: StartFinish, CreateVm and the
   three steps of the stop thread are where it could break. *)
LEMMA StepKeepsOrder ==
    ASSUME TypeOK, BootInv, Next PROVE Order'
<1>. USE ActorValues, ActorsAssumption DEF TypeOK, BootInv, CallsOwnState, Order, CreationInOrder,
             StoppersInOrder, StoppedInOrder, Creating
<1>1. ASSUME NEW t \in Callers, NEW c \in Clients, NEW op \in Ops, Begin(t, c, op) PROVE Order'
  BY <1>1 DEF Ops, Begin, FirstStep, vmVars, guestVars
<1>2. ASSUME NEW t \in Callers, StartRegister(t) PROVE Order'
  BY <1>2 DEF StartRegister, Free, vmVars, guestVars, Goto, Return
<1>3. ASSUME NEW t \in Callers, StartLockState(t) PROVE Order'
  BY <1>3 DEF StartLockState, Free, Goto, vmVars, guestVars
<1>4. ASSUME NEW t \in Callers, StartReturns(t) PROVE Order'
  BY <1>4 DEF StartReturns, Free, Return, vmVars, guestVars
<1>5. ASSUME NEW t \in Callers, StartProceeds(t) PROVE Order'
  BY <1>5 DEF StartProceeds, Free, Goto, vmVars, guestVars
<1>6. ASSUME NEW t \in Callers, StartVmFails(t) PROVE Order'
  <2>1. virtmgr => virtmgr'
    BY <1>6 DEF StartVmFails
  <2>2. Creating' => Creating
    BY <1>6 DEF StartVmFails, Return
  <2>3. Creating => Creating'
    BY <1>6 DEF StartVmFails, Return
  <2>4. \A u \in Callers : pc'[u] = "start_vm" => pc[u] = "start_vm"
    BY <1>6 DEF StartVmFails, Return
  <2>. QED  BY <1>6, <2>1, <2>2, <2>3, <2>4 DEF StartVmFails
<1>7. ASSUME NEW t \in Callers, StartVmAborts(t) PROVE Order'
  BY <1>7 DEF StartVmAborts, callVars, vmVars, guestVars
<1>8. ASSUME NEW t \in Callers, CreateVm(t) PROVE Order'
  <2>1. ~Creating
    BY <1>8 DEF CreateVm
  <2>2. state \in {"Stopped", "Crashed"} /\ (boot = 0 \/ stopper[boot] \in Finished)
    BY <1>8, <2>1 DEF CreateVm
  <2>3. boot \in Nat /\ boot' = boot + 1 /\ boot' \in Boots /\ stopper' = stopper /\ virtmgr'
    BY <1>8, BoundAssumption DEF CreateVm, Handles, Boots
  <2>4. \A u \in Callers : pc'[u] # "start_vm"
    BY <1>8 DEF CreateVm, Goto
  <2>5. Creating'
    BY <1>8 DEF CreateVm, Goto
  <2>6. stopper[boot'] = "none"
    BY <2>3
  <2>7. CreationInOrder'
    BY <2>3, <2>4, <2>6
  <2>8. \A b \in Boots : b < boot' => stopper'[b] \in Finished
    BY <2>2, <2>3 DEF Boots
  <2>9. \A b \in Boots : b > boot' => stopper'[b] = "none" /\ vm'[b] = "none"
    BY <1>8, <2>3 DEF CreateVm, Boots
  <2>10. \A b \in Boots :
           stopper'[b] \in {"report_stopped", "report_crashed", "ok", "failed"}
              => vm'[b] = "destroyed"
    BY <1>8, <2>3, <2>6 DEF CreateVm
  <2>. QED  BY <2>3, <2>5, <2>7, <2>8, <2>9, <2>10
<1>9. ASSUME NEW t \in Callers, StartFinish(t) PROVE Order'
  <2>1. boot \in Boots /\ stopper[boot] = "none" /\ virtmgr
    BY <1>9 DEF StartFinish
  <2>2. \A u \in Callers : pc'[u] \notin {"start_vm", "start_finish"}
    BY <1>9 DEF StartFinish, Return
  <2>3. state' = "Started" /\ UNCHANGED <<boot, vm, virtmgr>>
    BY <1>9 DEF StartFinish
  <2>4. stopper' = [stopper EXCEPT ![boot] = "spawned"]
    BY <1>9 DEF StartFinish
  <2>5. StoppersInOrder'
    BY <2>1, <2>3, <2>4 DEF Boots, Handles
  <2>. QED  BY <2>2, <2>3, <2>5
<1>10. ASSUME NEW t \in Callers, StopLockInstance(t) PROVE Order'
  BY <1>10 DEF StopLockInstance, Free, Goto, Return, vmVars, guestVars
<1>11. ASSUME NEW t \in Callers, StopNothingToDo(t) PROVE Order'
  BY <1>11 DEF StopNothingToDo, Free, Return, vmVars, guestVars
<1>12. ASSUME NEW t \in Callers, StopCannotNotify(t) PROVE Order'
  BY <1>12 DEF StopCannotNotify, Free, Return, vmVars, guestVars
<1>13. ASSUME NEW t \in Callers, StopKillsVm(t) PROVE Order'
  BY <1>13 DEF StopKillsVm, Free, Kill, Goto, guestVars
<1>14. ASSUME NEW t \in Callers, StopJoin(t) PROVE Order'
  BY <1>14 DEF StopJoin, Finished, Return, vmVars, guestVars
<1>15. ASSUME NEW u \in Actors, CheckStarted(u) PROVE Order'
  BY <1>15 DEF CheckStarted, Free, Goto, ThenLockState, vmVars, guestVars
<1>16. ASSUME NEW u \in Actors, TakeUserspace(u) PROVE Order'
  BY <1>16 DEF TakeUserspace, Free, Goto, ThenLockState, vmVars, guestVars
<1>17. ASSUME NEW u \in Actors, JoinUserspace(u) PROVE Order'
  BY <1>17 DEF JoinUserspace, Goto, ThenLockState, vmVars, guestVars
<1>18. ASSUME NEW t \in Callers, RequestLockInstance(t) PROVE Order'
  BY <1>18 DEF RequestLockInstance, Free, Goto, Return, vmVars, guestVars
<1>19. ASSUME NEW t \in Callers, RequestNothingToDo(t) PROVE Order'
  BY <1>19 DEF RequestNothingToDo, Free, Return, vmVars, guestVars
<1>20. ASSUME NEW t \in Callers, RequestLeavesOthers(t) PROVE Order'
  BY <1>20 DEF RequestLeavesOthers, RequestDeparts, Free, Return, vmVars, guestVars
<1>21. ASSUME NEW t \in Callers, RequestHasNoGuest(t) PROVE Order'
  BY <1>21 DEF RequestHasNoGuest, RequestDeparts, Free, callVars, vmVars, guestVars
<1>22. ASSUME NEW t \in Callers, RequestRefused(t) PROVE Order'
  BY <1>22 DEF RequestRefused, RequestDeparts, Free, Return, vmVars, guestVars
<1>23. ASSUME NEW t \in Callers, RequestAccepted(t) PROVE Order'
  BY <1>23 DEF RequestAccepted, RequestDeparts, Free, Open, Answering, Halt, Goto, guestVars
<1>24. ASSUME NEW t \in Callers, RequestJoinStop(t) PROVE Order'
  BY <1>24 DEF RequestJoinStop, Finished, Free, Return, vmVars, guestVars
<1>25. ASSUME NEW c \in Clients, DeliverDeath(c) PROVE Order'
  BY <1>25 DEF DeliverDeath, Goto, vmVars, guestVars
<1>26. ASSUME NEW c \in Clients, DeathLeavesOthers(c) PROVE Order'
  BY <1>26 DEF DeathLeavesOthers, Return, vmVars, guestVars
<1>27. ASSUME NEW c \in Clients, DeathOfLast(c) PROVE Order'
  BY <1>27 DEF DeathOfLast, Goto, vmVars, guestVars
<1>28. ASSUME NEW c \in Clients, DeathKillsVm(c) PROVE Order'
  BY <1>28 DEF DeathKillsVm, Kill, Return, guestVars
<1>29. ASSUME NEW c \in Clients, DeathLockState(c) PROVE Order'
  BY <1>29 DEF DeathLockState, Free, Goto, vmVars, guestVars
<1>30. ASSUME NEW c \in Clients, DeathShutsDown(c) PROVE Order'
  BY <1>30 DEF DeathShutsDown, Free, Open, Answering, Halt, Return, guestVars
<1>31. ASSUME NEW c \in Clients, ClientDies(c) PROVE Order'
  BY <1>31 DEF ClientDies, callVars, vmVars, guestVars
<1>32. ASSUME NEW w \in Workers, ConnectSucceeds(w) PROVE Order'
  BY <1>32 DEF ConnectSucceeds, MoveWorker, Answering, callVars, vmVars
<1>33. ASSUME NEW w \in Workers, ConnectFails(w) PROVE Order'
  BY <1>33 DEF ConnectFails, MoveWorker, Answering, callVars, vmVars
<1>34. ASSUME NEW w \in Workers, UserspaceGivesUp(w) PROVE Order'
  BY <1>34 DEF UserspaceGivesUp, MoveWorker, Free, callVars, vmVars
<1>35. ASSUME NEW w \in Workers, StoreClient(w) PROVE Order'
  BY <1>35 DEF StoreClient, MoveWorker, Free, callVars, vmVars
<1>36. ASSUME NEW w \in Workers, ReportReady(w) PROVE Order'
  BY <1>36 DEF ReportReady, MoveWorker, Free, callVars, vmVars
<1>37. ASSUME NEW w \in Workers, MonitorPolls(w) PROVE Order'
  BY <1>37 DEF MonitorPolls, MoveWorker, Free, callVars, vmVars
<1>38. ASSUME NEW w \in Workers, MonitorChecks(w) PROVE Order'
  BY <1>38 DEF MonitorChecks, MoveWorker, callVars, vmVars
<1>39. ASSUME NEW w \in Workers, MonitorClearsClient(w) PROVE Order'
  BY <1>39 DEF MonitorClearsClient, MoveWorker, Free, callVars, vmVars
<1>40. ASSUME NEW w \in Workers, MonitorReportsLost(w) PROVE Order'
  BY <1>40 DEF MonitorReportsLost, MoveWorker, Free, callVars, vmVars
<1>41. ASSUME NEW b \in Boots, TakeVirtmgr(b) PROVE Order'
  <2>1. b = boot
    BY <1>41, WorkingIsNewest DEF TakeVirtmgr, MoveStopper
  <2>2. ~Creating /\ ~Creating'
    BY <1>41, <2>1 DEF TakeVirtmgr, MoveStopper, callVars
  <2>3. stopper' = [stopper EXCEPT ![b] = "waiting"] /\ UNCHANGED <<state, boot, vm, pc>>
    BY <1>41 DEF TakeVirtmgr, MoveStopper, callVars
  <2>4. stopper[boot] = "spawned"
    BY <1>41, <2>1 DEF TakeVirtmgr, MoveStopper
  <2>5. \A d \in Boots : stopper[d] = "spawned" => d = b
    BY <2>1, WorkingIsNewest
  <2>6. StoppersInOrder'
    BY <2>1, <2>3, <2>4, <2>5 DEF Finished, Boots, Handles
  <2>. QED  BY <2>1, <2>2, <2>3, <2>4, <2>6 DEF Finished
<1>42. ASSUME NEW b \in Boots, DestroyVm(b) PROVE Order'
  <2>1. b = boot
    BY <1>42, WorkingIsNewest DEF DestroyVm, MoveStopper
  <2>2. ~Creating /\ ~Creating'
    BY <1>42, <2>1 DEF DestroyVm, MoveStopper, callVars
  <2>3. state \notin {"Stopped", "Crashed"}
    BY <1>42, <2>1, <2>2 DEF DestroyVm, MoveStopper, Finished, Boots
  <2>4. StoppersInOrder'
    BY <1>42, <2>1 DEF DestroyVm, MoveStopper, Boots, Handles
  <2>. QED  BY <1>42, <2>2, <2>3, <2>4 DEF DestroyVm, callVars
<1>43. ASSUME NEW b \in Boots, ReportStop(b) PROVE Order'
  <2>1. b = boot
    BY <1>43, WorkingIsNewest DEF ReportStop, MoveStopper
  <2>2. ~Creating /\ ~Creating'
    BY <1>43, <2>1 DEF ReportStop, MoveStopper, callVars
  <2>3. \A t \in Callers : pc'[t] # "start_vm"
    BY <1>43 DEF ReportStop, Free, callVars
  <2>4. stopper'[boot] \in Finished /\ UNCHANGED <<boot, vm, virtmgr>>
    BY <1>43, <2>1 DEF ReportStop, MoveStopper, Finished
  <2>5. /\ stopper[b] \in {"report_stopped", "report_crashed"}
        /\ \A d \in Boots : d # b => stopper'[d] = stopper[d]
    BY <1>43 DEF ReportStop, MoveStopper
  <2>6. vm[b] = "destroyed"
    BY <2>5
  <2>7. StoppersInOrder'
    BY <2>1, <2>4, <2>5, <2>6 DEF Finished, Boots, Handles
  <2>. QED  BY <2>2, <2>3, <2>4, <2>7
<1>44. ASSUME NEW b \in Boots, GuestPowersOff(b) PROVE Order'
  BY <1>44 DEF GuestPowersOff, callVars, guestVars
<1>45. ASSUME NEW b \in Boots, VmExits(b) PROVE Order'
  BY <1>45 DEF VmExits, Answering, callVars, guestVars
<1>46. ASSUME NEW b \in Boots, GuestServiceRestarts(b) PROVE Order'
  BY <1>46 DEF GuestServiceRestarts, Answering, callVars, vmVars
<1>47. ASSUME ServiceRestarts PROVE Order'
  <2>1. ~Creating' /\ boot' = 0 /\ \A t \in Callers : pc'[t] # "start_vm"
    BY <1>47 DEF ServiceRestarts
  <2>. QED  BY <1>47, <2>1 DEF ServiceRestarts, Boots
<1>. QED
  <2>1. ASSUME NEW t \in Callers, CallStep(t) PROVE Order'
    BY <2>1, <1>2, <1>3, <1>4, <1>5, <1>6, <1>7, <1>8, <1>9, <1>10, <1>11, <1>12, <1>13, <1>14,
       <1>15, <1>16, <1>17, <1>18, <1>19, <1>20, <1>21, <1>22, <1>23, <1>24
    DEF CallStep, StartStep, StopStep, UserspaceStep, RequestStep
  <2>2. ASSUME NEW c \in Clients, DeliverDeath(c) \/ DeathStep(c) \/ ClientDies(c) PROVE Order'
    BY <2>2, <1>15, <1>16, <1>17, <1>25, <1>26, <1>27, <1>28, <1>29, <1>30, <1>31 DEF
       DeathStep, UserspaceStep
  <2>3. ASSUME NEW w \in Workers, WorkerStep(w) PROVE Order'
    BY <2>3, <1>32, <1>33, <1>34, <1>35, <1>36, <1>37, <1>38, <1>39, <1>40 DEF WorkerStep
  <2>4. ASSUME NEW b \in Boots, StopperStep(b) \/ GuestStep(b) PROVE Order'
    BY <2>4, <1>41, <1>42, <1>43, <1>44, <1>45, <1>46 DEF StopperStep, GuestStep
  <2>. QED  BY <1>1, <1>47, <2>1, <2>2, <2>3, <2>4 DEF Next, Running

-----------------------------------------------------------------------------
(* The theorems *)

(* The inductive invariant. *)
IndInv == TypeOK /\ BootInv

(* The invariant holds when the manager has just been started. *)
LEMMA InitHolds == Init => IndInv
<1>. SUFFICES ASSUME Init PROVE IndInv
  OBVIOUS
<1>1. CallsTyped
  BY HandleValues, ActorValues DEF Init, CallsTyped, Steps
<1>2. clients \in Seq(Clients)
  BY DEF Init
<1>3. TypeOK
  BY <1>1, <1>2, HandleValues
  DEF Init, TypeOK, CallsTyped, States, VmStatus, WorkerSteps, StopperSteps
<1>4. ~Creating
  BY ActorValues DEF Init, Creating
<1>5. BootInv
  BY <1>4, ActorValues
  DEF Init, BootInv, CallsOwnState, CreationInOrder, StoppersInOrder, StoppedInOrder, Boots
<1>. QED  BY <1>3, <1>5 DEF IndInv

(* A step of no thread keeps the invariant. *)
LEMMA StutterHolds == IndInv /\ UNCHANGED vars => IndInv'
BY DEF IndInv, TypeOK, BootInv, CallsOwnState, CreationInOrder, StoppersInOrder,
       StoppedInOrder, Creating, vars

(* Every step keeps the invariant, all parts together. *)
LEMMA StepHolds == IndInv /\ Next => IndInv'
<1>. SUFFICES ASSUME IndInv, Next PROVE IndInv'
  OBVIOUS
<1>1. TypeOK /\ CallsOwnState
  BY DEF IndInv, BootInv
<1>2. TypeOK' /\ CallsOwnState'
  BY <1>1, StepKeepsTypes, StepKeepsCallsOwnState
<1>3. Order'
  BY StepKeepsOrder DEF IndInv
<1>. QED  BY <1>2, <1>3 DEF IndInv, BootInv, Order

(* The inductive invariant, and with it the types, hold in every reachable state. *)
THEOREM Invariance == Spec => []IndInv
<1>1. IndInv /\ [Next]_vars => IndInv'
  BY StepHolds, StutterHolds
<1>. QED  BY <1>1, InitHolds, PTL DEF Spec

(* Every variable keeps to its type, with any number of clients, callers and boots. *)
THEOREM TypeCorrect == Spec => []TypeOK
<1>1. IndInv => TypeOK
  BY DEF IndInv
<1>. QED  BY <1>1, Invariance, PTL

(* A boot, a stop thread and the state follow each other in order. *)
THEOREM BootsInOrder == Spec => []BootInv
<1>1. IndInv => BootInv
  BY DEF IndInv
<1>. QED  BY <1>1, Invariance, PTL

(* However start, stop, the guests and the faults interleave, at most one VM has not
   been destroyed. *)
THEOREM OneVmAtATime == Spec => []OneLiveVm
<1>1. IndInv => OneLiveVm
  <2>. SUFFICES ASSUME IndInv, NEW a \in Boots, NEW b \in Boots, Live(a), Live(b) PROVE a = b
    BY DEF OneLiveVm
  <2>1. \A d \in Boots : Live(d) => d = boot
    <3>. SUFFICES ASSUME NEW d \in Boots, Live(d) PROVE d = boot
      OBVIOUS
    <3>1. ~(d < boot) /\ ~(d > boot)
      BY DEF IndInv, BootInv, StoppersInOrder, Finished, Live
    <3>2. d \in Int /\ boot \in Int
      BY BoundAssumption DEF IndInv, TypeOK, Boots, Handles
    <3>. QED  BY <3>1, <3>2
  <2>. QED  BY <2>1
<1>. QED  BY <1>1, Invariance, PTL

(* Whoever holds main_state and reads Stopped or Crashed may boot the next VM. *)
THEOREM StoppedVmIsGone == Spec => []StoppedMeansGone
<1>1. IndInv => StoppedMeansGone
  <2>. SUFFICES ASSUME IndInv, state \in {"Stopped", "Crashed"}, Free("state"),
                       NEW b \in Boots
                PROVE  ~Live(b)
    BY DEF StoppedMeansGone
  <2>1. ~Creating
    BY ActorsAssumption DEF IndInv, BootInv, CallsOwnState, Creating, Free
  <2>2. boot = 0 \/ stopper[boot] \in Finished
    BY <2>1 DEF IndInv, BootInv, StoppedInOrder
  <2>3. b \in Int /\ boot \in Int /\ b > 0
    BY BoundAssumption DEF IndInv, TypeOK, Boots, Handles
  <2>4. CASE b > boot
    BY <2>4 DEF IndInv, BootInv, StoppersInOrder, Live
  <2>5. CASE b < boot \/ b = boot
    <3>1. stopper[b] \in Finished
      BY <2>2, <2>3, <2>5 DEF IndInv, BootInv, StoppersInOrder
    <3>. QED  BY <3>1 DEF IndInv, BootInv, StoppersInOrder, Live, Finished
  <2>. QED  BY <2>3, <2>4, <2>5
<1>. QED  BY <1>1, Invariance, PTL

(* The stop thread's unwrap of virtmgr_service never fails: whichever boot it belongs to,
   start_vm stored a service that nobody else took. *)
THEOREM VirtmgrIsThere == Spec => []StopThreadHasVirtmgr
<1>1. Init => StopThreadHasVirtmgr
  BY DEF Init, StopThreadHasVirtmgr
<1>2. ASSUME IndInv, StopThreadHasVirtmgr, [Next]_vars PROVE StopThreadHasVirtmgr'
  <2>. USE DEF StopThreadHasVirtmgr, abortVars, Abort
  <2>1. ASSUME NEW t \in Callers, NEW c \in Clients, NEW op \in Ops, Begin(t, c, op)
        PROVE StopThreadHasVirtmgr'
    BY <1>2, <2>1 DEF Begin
  <2>2. ASSUME NEW t \in Callers, StartStep(t) PROVE StopThreadHasVirtmgr'
    BY <1>2, <2>2
    DEF StartStep, StartRegister, StartLockState, StartReturns, StartProceeds, StartVmFails,
       StartVmAborts, CreateVm, StartFinish
  <2>3. ASSUME NEW t \in Callers, StopStep(t) PROVE StopThreadHasVirtmgr'
    BY <1>2, <2>3
    DEF StopStep, StopLockInstance, StopNothingToDo, StopCannotNotify, StopKillsVm, StopJoin,
       KillOutcomes
  <2>4. ASSUME NEW u \in Actors, UserspaceStep(u) PROVE StopThreadHasVirtmgr'
    BY <1>2, <2>4 DEF UserspaceStep, CheckStarted, TakeUserspace, JoinUserspace
  <2>5. ASSUME NEW t \in Callers, RequestStep(t), ~UserspaceStep(t) PROVE StopThreadHasVirtmgr'
    BY <1>2, <2>5
    DEF RequestStep, RequestLockInstance, RequestNothingToDo, RequestLeavesOthers,
       RequestHasNoGuest, RequestRefused, RequestAccepted, RequestJoinStop, RequestDeparts
  <2>6. ASSUME NEW c \in Clients, DeliverDeath(c) \/ DeathStep(c) \/ ClientDies(c)
        PROVE StopThreadHasVirtmgr'
    BY <1>2, <2>4, <2>6, ActorValues
    DEF DeathStep, DeliverDeath, DeathLeavesOthers, DeathOfLast, DeathKillsVm, DeathLockState,
       DeathShutsDown, ClientDies, KillOutcomes
  <2>7. ASSUME NEW w \in Workers, WorkerStep(w) PROVE StopThreadHasVirtmgr'
    BY <1>2, <2>7
    DEF WorkerStep, ConnectSucceeds, ConnectFails, UserspaceGivesUp, StoreClient, ReportReady,
       MonitorPolls, MonitorChecks, MonitorClearsClient, MonitorReportsLost
  <2>8. ASSUME NEW b \in Boots, StopperStep(b) \/ GuestStep(b) PROVE StopThreadHasVirtmgr'
    <3>1. CASE TakeVirtmgr(b)
      BY <1>2, <3>1 DEF TakeVirtmgr, MoveStopper, IndInv, BootInv, StoppersInOrder
    <3>2. CASE DestroyVm(b) \/ ReportStop(b)
      BY <1>2, <3>2 DEF DestroyVm, ReportStop
    <3>3. CASE GuestStep(b)
      BY <1>2, <3>3 DEF GuestStep, GuestPowersOff, VmExits, GuestServiceRestarts
    <3>. QED  BY <2>8, <3>1, <3>2, <3>3 DEF StopperStep
  <2>9. CASE ServiceRestarts
    BY <2>9 DEF ServiceRestarts
  <2>10. CASE UNCHANGED vars
    BY <1>2, <2>10 DEF vars
  <2>11. ASSUME NEW t \in Callers, CallStep(t) PROVE StopThreadHasVirtmgr'
    BY <2>2, <2>3, <2>4, <2>5, <2>11, ActorValues DEF CallStep
  <2>. QED
    BY <1>2, <2>1, <2>6, <2>7, <2>8, <2>9, <2>10, <2>11 DEF Next, Running
<1>. QED  BY <1>1, <1>2, Invariance, PTL DEF Spec
=============================================================================
