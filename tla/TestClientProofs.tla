---------------------------- MODULE TestClientProofs ----------------------------
(***************************************************************************)
(* What the menu of the test client may rely on: beside this client the    *)
(* manager keeps its own invariant, and a callback that the client has     *)
(* selected loses its registration only with the news that the VM ended,   *)
(* or by what the client itself asks for.                                  *)
(***************************************************************************)
EXTENDS TestClient, CallProofs

SaysRunning(c) == told[c] \in {"Started", "UserspaceReady"}

(* The client selects callbacks that it has made. *)
SelectsOwn == used \subseteq Own /\ selected \in used \cup {None}

(* The main thread is where its call is, and only this call works for its callbacks. *)
MainAtCall ==
    /\ main \in {"menu", "stopped", "exited"} \cup Ops
    /\ main \in Ops => pc[Main] \in StepsOf[main] /\ arg[Main] = selected /\ Connected
    /\ main \notin Ops => pc[Main] = "idle"
    /\ main \in Ops \cup {"stopped"} => selected # None
    /\ \A t \in Callers : arg[t] \in Own => t = Main /\ main \in Ops

(* A callback is known to the manager only once it was selected, and not to the one that
   follows a manager which died; its process lives until the client exits. *)
Unknown(c) == told[c] = "NotStarted" /\ ~Registered(c)
OwnCallbacks ==
    main # "exited" =>
        /\ \A c \in Own \ used : Unknown(c)
        /\ ~Connected => \A c \in Own : Unknown(c)
        /\ \A c \in Own : alive[c] /\ pc[c] = "idle"

(* From the check of stop to the end of its join, the callback is on the list or knows
   that the VM is gone. *)
StopIsInformed ==
    main = "stop" /\ pc[Main] \in {"stop_lock_state", "stop_join"} =>
        (SaysRunning(selected) => Registered(selected))

ClientInv == SelectsOwn /\ MainAtCall /\ OwnCallbacks /\ StopIsInformed

-----------------------------------------------------------------------------
(* The object keeps its invariant beside the client *)

(* Only the menu selects, and what it selects is new. *)
LEMMA ClientKeepsSelection == ASSUME SelectsOwn, [ClientNext]_allVars PROVE SelectsOwn'
BY TestClientAssumption
DEF SelectsOwn, ClientNext, SelectVm, DropVm, Call, Exit, MarkStopped, ManagerStep, OtherClients,
    ManagerRestarts, StartOver, clientProcess, allVars

(* The test client adds steps that write only `told' or `alive' to those of the object. *)
LEMMA ClientStepIsObjectStep ==
    ASSUME SelectsOwn, ClientNext
    PROVE  Next \/ UNCHANGED vars \/ MarkStopped \/ Exit
<1>1. ASSUME NEW op \in Ops, Call(op) PROVE Next
  BY <1>1, TestClientAssumption DEF Call, SelectsOwn, Next, Running
<1>2. ASSUME ManagerStep, process = "up" PROVE Next
  BY <1>2 DEF ManagerStep, Next, Running
<1>3. ASSUME OtherClients, process = "up" PROVE Next
  BY <1>3 DEF OtherClients, Next, Running
<1>. QED
  BY <1>1, <1>2, <1>3 DEF ClientNext, SelectVm, DropVm, StartOver, ManagerRestarts, Next

(* What the client writes leaves the order of the boots alone. *)
LEMMA ClientKeepsObject == ASSUME SelectsOwn, IndInv, [ClientNext]_allVars PROVE IndInv'
<1>1. CASE MarkStopped
  <2>1. TypeOK'
    BY <1>1 DEF MarkStopped, IndInv, TypeOK, States, abortVars, callVars, vmVars, handleVars,
        guestVars
  <2>2. BootInv'
    BY <1>1 DEF MarkStopped, IndInv, BootInv, CallsOwnState, CreationInOrder, Creating,
       StoppersInOrder, StoppedInOrder, callVars, vmVars
  <2>. QED  BY <2>1, <2>2 DEF IndInv
<1>2. CASE Exit
  <2>1. TypeOK'
    BY <1>2 DEF Exit, IndInv, TypeOK, abortVars, vmVars, handleVars, guestVars
  <2>2. BootInv'
    BY <1>2 DEF Exit, IndInv, BootInv, CallsOwnState, CreationInOrder, Creating,
       StoppersInOrder, StoppedInOrder, vmVars
  <2>. QED  BY <2>1, <2>2 DEF IndInv
<1>. QED
  BY <1>1, <1>2, ClientStepIsObjectStep, StepHolds, StutterHolds DEF allVars

(* The boots follow each other in order whatever a client makes of the object's answers
   (run, lines 188 to 259). *)
THEOREM ObjectOrderedBesideClient == ClientSpec => []IndInv
<1>1. ClientInit => SelectsOwn /\ IndInv
  BY InitHolds DEF ClientInit, SelectsOwn
<1>2. SelectsOwn /\ IndInv /\ [ClientNext]_allVars => (SelectsOwn /\ IndInv)'
  BY ClientKeepsSelection, ClientKeepsObject
<1>. QED  BY <1>1, <1>2, PTL DEF ClientSpec

-----------------------------------------------------------------------------
(* What a step of the object means for one callback *)

Kept(c) ==
    /\ Registered(c)' => Registered(c)
    /\ ~Registered(c) => told'[c] = told[c]
    /\ Registered(c) => Registered(c)' \/ told'[c] \in {"Stopped", "Crashed"}

(* Other clients come and go, and whoever is on the list may be told something. *)
LEMMA OthersKeep ==
    ASSUME TypeOK, NEW c \in Clients,
           \/ clients' = clients
           \/ \E d \in Clients : d # c /\ (clients' = Without(d) \/ clients' = Append(clients, d)),
           \/ told' = told
           \/ \E d \in Clients, s \in States : d # c /\ Tell(d, s)
           \/ \E s \in States : Notify(s)
    PROVE  Kept(c)
<1>1. Registered(c)' <=> Registered(c)
  BY LeavingKeepsOthers, JoiningKeepsOthers DEF Registered, TypeOK
<1>2. ~Registered(c) => c \notin Reached
  <2>1. \A i \in DOMAIN clients : i \in 1..Len(clients)
    BY LenProperties DEF TypeOK
  <2>. QED  BY <2>1 DEF Registered, Contains, Reached
<1>3. ~Registered(c) => told'[c] = told[c]
  BY <1>2 DEF Tell, Notify, TypeOK
<1>. QED  BY <1>1, <1>3 DEF Kept

(* A call for another client. *)
LEMMA CallKeeps ==
    ASSUME IndInv, NEW c \in Clients, NEW t \in Callers, CallStep(t), arg[t] # c
    PROVE  Kept(c)
<1>. USE DEF IndInv, clientVars, States
<1>1. arg[t] \in Clients
  BY DEF CallStep, StartStep, StopStep, UserspaceStep, RequestStep, BootInv, CallsOwnState,
     StartRegister, StartLockState, StartReturns, StartProceeds, StartVmFails, StartVmAborts,
     CreateVm, StartFinish, StopLockInstance, StopNothingToDo, StopCannotNotify, StopKillsVm,
     StopJoin, CheckStarted, TakeUserspace, JoinUserspace, RequestLockInstance,
     RequestNothingToDo, RequestDeparts, RequestLeavesOthers, RequestHasNoGuest,
     RequestRefused, RequestAccepted, RequestJoinStop
<1>2. ASSUME StartStep(t) PROVE Kept(c)
  BY <1>1, <1>2, OthersKeep
  DEF StartStep, StartRegister, StartLockState, StartReturns, StartProceeds, StartVmFails,
      StartVmAborts, CreateVm, StartFinish, TypeOK
<1>3. ASSUME StopStep(t) PROVE Kept(c)
  BY <1>1, <1>3, OthersKeep
  DEF StopStep, StopLockInstance, StopNothingToDo, StopCannotNotify, StopKillsVm, StopJoin
<1>4. ASSUME UserspaceStep(t) PROVE Kept(c)
  BY <1>1, <1>4, OthersKeep DEF UserspaceStep, CheckStarted, TakeUserspace, JoinUserspace
<1>5. ASSUME RequestStep(t) PROVE Kept(c)
  BY <1>1, <1>5, OthersKeep
  DEF RequestStep, RequestLockInstance, RequestNothingToDo, RequestDeparts, RequestLeavesOthers,
      RequestHasNoGuest, RequestRefused, RequestAccepted, RequestJoinStop, TypeOK
<1>. QED  BY <1>2, <1>3, <1>4, <1>5 DEF CallStep

(* The death of another client, the threads of the VMs, and the guests. *)
LEMMA ThreadsKeep ==
    ASSUME IndInv, NEW c \in Clients, alive[c], pc[c] = "idle",
           \/ \E d \in Clients : DeliverDeath(d) \/ DeathStep(d)
           \/ \E w \in Workers : WorkerStep(w)
           \/ \E b \in Boots : StopperStep(b) \/ GuestStep(b)
    PROVE  Kept(c)
<1>. USE DEF IndInv, clientVars, States
<1>1. ASSUME NEW d \in Clients, DeliverDeath(d) \/ DeathStep(d) PROVE Kept(c)
  <2>1. d # c
    BY <1>1 DEF DeliverDeath, DeathStep, UserspaceStep, CheckStarted, TakeUserspace,
       JoinUserspace, DeathLeavesOthers, DeathOfLast, DeathKillsVm, DeathLockState, DeathShutsDown
  <2>2. told' = told /\ (clients' = clients \/ clients' = Without(d))
    BY <1>1 DEF DeliverDeath, DeathStep, UserspaceStep, CheckStarted, TakeUserspace,
       JoinUserspace, DeathLeavesOthers, DeathOfLast, DeathKillsVm, DeathLockState, DeathShutsDown
  <2>. QED  BY <2>1, <2>2, OthersKeep
<1>2. ASSUME NEW w \in Workers, WorkerStep(w) PROVE Kept(c)
  BY <1>2, OthersKeep
  DEF WorkerStep, ConnectSucceeds, ConnectFails, UserspaceGivesUp, StoreClient, ReportReady,
      MonitorPolls, MonitorChecks, MonitorClearsClient, MonitorReportsLost
<1>3. ASSUME NEW b \in Boots, StopperStep(b) \/ GuestStep(b) PROVE Kept(c)
  <2>1. CASE ReportStop(b)
    <3>1. CASE AllReached
      <4>1. c \in Reached => told'[c] \in {"Stopped", "Crashed"}
        BY <2>1 DEF ReportStop, Notify
      <4>2. Registered(c) => c \in Reached
        <5>1. \A i \in 1..Len(clients) : i \in DOMAIN clients /\ \A k \in 1..i : k \in DOMAIN clients
          BY LenProperties DEF TypeOK
        <5>. QED  BY <3>1, <5>1 DEF AllReached, Reached, Registered, Contains
      <4>3. ~Registered(c) => told'[c] = told[c] /\ ~Registered(c)'
        <5>1. \A i \in DOMAIN clients : i \in 1..Len(clients)
          BY LenProperties DEF TypeOK
        <5>2. ~Registered(c) => c \notin Reached
          BY <5>1 DEF Registered, Contains, Reached
        <5>. QED
          BY <2>1, <3>1, <5>2 DEF ReportStop, Notify, Registered, Contains
      <4>. QED  BY <4>1, <4>2, <4>3 DEF Kept
    <3>2. CASE ~AllReached
      BY <2>1, <3>2, OthersKeep DEF ReportStop
    <3>. QED  BY <3>1, <3>2
  <2>2. CASE UNCHANGED <<clients, told>>
    BY <2>2, OthersKeep
  <2>. QED
    BY <1>3, <2>1, <2>2 DEF StopperStep, TakeVirtmgr, DestroyVm, GuestStep, GuestPowersOff,
       VmExits, GuestServiceRestarts
<1>. QED  BY <1>1, <1>2, <1>3

-----------------------------------------------------------------------------
(* The main thread and its call *)

(* A step of a call moves this call only, and whoever returns works for nobody. *)
LEMMA CallMoves ==
    ASSUME TypeOK, NEW t \in Callers, CallStep(t)
    PROVE  /\ pc[t] # "idle"
           /\ \A u \in Actors : u # t => pc'[u] = pc[u]
           /\ \A u \in Callers : u # t => arg'[u] = arg[u]
           /\ IF pc'[t] = "idle" THEN arg'[t] = None ELSE arg'[t] = arg[t]
<1>1. pc[t] # "idle" /\ (UNCHANGED <<pc, arg>> \/ Return(t) \/ (\E step : step # "idle" /\ Goto(t, step)))
  BY DEF CallStep, StartStep, StopStep, UserspaceStep, RequestStep, callVars, ThenLockState,
     StartRegister, StartLockState, StartReturns, StartProceeds, StartVmFails, StartVmAborts,
     CreateVm, StartFinish, StopLockInstance, StopNothingToDo, StopCannotNotify, StopKillsVm,
     StopJoin, CheckStarted, TakeUserspace, JoinUserspace, RequestLockInstance,
     RequestNothingToDo, RequestDeparts, RequestLeavesOthers, RequestHasNoGuest,
     RequestRefused, RequestAccepted, RequestJoinStop
<1>. QED  BY <1>1, ActorValues DEF Return, Goto, TypeOK

(* A call stays among the steps of its operation until it returns. *)
LEMMA CallStaysInOp ==
    ASSUME TypeOK, NEW t \in Callers, CallStep(t), NEW op \in Ops, pc[t] \in StepsOf[op]
    PROVE  pc'[t] \in StepsOf[op] \cup {"idle"}
<1>. USE ActorsAssumption, ActorValues
     DEF TypeOK, StartSteps, StopSteps, RequestSteps, UserspaceSteps, Goto, Return
<1>1. \/ op = "start" /\ StepsOf[op] = StartSteps
      \/ op = "stop" /\ StepsOf[op] = StopSteps
      \/ op = "request_stop" /\ StepsOf[op] = RequestSteps
  BY DEF Ops, StepsOf
<1>2. ASSUME StartStep(t) PROVE pc'[t] \in StepsOf[op] \cup {"idle"}
  <2>. USE DEF StartRegister, StartLockState, StartReturns, StartProceeds, StartVmFails,
               StartVmAborts, CreateVm, StartFinish, callVars
  <2>1. op = "start"
    BY <1>1, <1>2 DEF StartStep
  <2>2. pc'[t] \in StartSteps \cup {"idle"}
    BY <1>2 DEF StartStep
  <2>. QED  BY <1>1, <2>1, <2>2
<1>3. ASSUME StopStep(t) PROVE pc'[t] \in StepsOf[op] \cup {"idle"}
  BY <1>1, <1>3 DEF StopStep, StopLockInstance, StopNothingToDo, StopCannotNotify, StopKillsVm,
      StopJoin
<1>4. ASSUME UserspaceStep(t) PROVE pc'[t] \in StepsOf[op] \cup {"idle"}
  <2>. USE DEF CheckStarted, TakeUserspace, JoinUserspace
  <2>1. op = "request_stop" /\ ThenLockState(t) = "request_lock_state"
    BY <1>1, <1>4 DEF UserspaceStep, ThenLockState
  <2>2. pc'[t] \in UserspaceSteps \cup {"request_lock_state"}
    BY <1>4, <2>1 DEF UserspaceStep
  <2>. QED  BY <1>1, <2>1, <2>2
<1>5. ASSUME RequestStep(t) PROVE pc'[t] \in StepsOf[op] \cup {"idle"}
  BY <1>1, <1>5 DEF RequestStep, RequestLockInstance, RequestNothingToDo, RequestDeparts,
     RequestLeavesOthers, RequestHasNoGuest, RequestRefused, RequestAccepted, RequestJoinStop,
     callVars
<1>. QED  BY <1>2, <1>3, <1>4, <1>5 DEF CallStep

(* The threads of the object move no call. *)
LEMMA ThreadsMoveNoCall ==
    ASSUME TypeOK,
           \/ \E d \in Clients : DeliverDeath(d) \/ DeathStep(d)
           \/ \E w \in Workers : WorkerStep(w)
           \/ \E b \in Boots : StopperStep(b) \/ GuestStep(b)
    PROVE  /\ \A u \in Callers : pc'[u] = pc[u] /\ arg'[u] = arg[u]
           /\ \A c \in Clients : alive[c] /\ pc[c] = "idle" => pc'[c] = "idle"
<1>. USE ActorsAssumption, ActorValues DEF TypeOK, callVars
<1>1. ASSUME NEW d \in Clients, DeliverDeath(d) \/ DeathStep(d)
      PROVE  /\ ~(alive[d] /\ pc[d] = "idle")
             /\ \A u \in Callers : pc'[u] = pc[u] /\ arg'[u] = arg[u]
             /\ \A c \in Clients : c # d => pc'[c] = pc[c]
  <2>1. ~(alive[d] /\ pc[d] = "idle") /\ (Return(d) \/ \E step : Goto(d, step))
    BY <1>1 DEF DeliverDeath, DeathStep, UserspaceStep, CheckStarted, TakeUserspace,
       JoinUserspace, DeathLeavesOthers, DeathOfLast, DeathKillsVm, DeathLockState, DeathShutsDown
  <2>. QED  BY <2>1 DEF Return, Goto
<1>2. ASSUME \/ \E w \in Workers : WorkerStep(w)
             \/ \E b \in Boots : StopperStep(b) \/ GuestStep(b)
      PROVE  UNCHANGED <<pc, arg>>
  BY <1>2 DEF WorkerStep, ConnectSucceeds, ConnectFails, UserspaceGivesUp, StoreClient,
     ReportReady, MonitorPolls, MonitorChecks, MonitorClearsClient, MonitorReportsLost,
     StopperStep, GuestStep, TakeVirtmgr, DestroyVm, ReportStop, GuestPowersOff, VmExits,
     GuestServiceRestarts
<1>. QED  BY <1>1, <1>2

(* Whatever the manager does, the main thread stays at its call until it returns. *)
LEMMA ManagerKeepsMain ==
    ASSUME IndInv, SelectsOwn, MainAtCall, ManagerStep PROVE MainAtCall'
<1>. USE TestClientAssumption, ActorsAssumption DEF IndInv, MainAtCall, Connected
<1>1. ASSUME CallStep(Main) PROVE MainAtCall'
  <2>1. main \in Ops /\ pc[Main] \in StepsOf[main] /\ arg[Main] = selected
    BY <1>1, CallMoves
  <2>2. pc'[Main] \in StepsOf[main] \cup {"idle"}
    BY <1>1, <2>1, CallStaysInOp
  <2>3. IF pc'[Main] = "idle" THEN main' \in {"menu", "stopped"} /\ arg'[Main] = None
        ELSE main' = main /\ arg'[Main] = arg[Main]
    BY <1>1, <2>1, CallMoves DEF ManagerStep, CallGoesOn
  <2>4. \A u \in Callers : u # Main => arg'[u] = arg[u]
    BY <1>1, CallMoves
  <2>5. selected' = selected /\ kept' = kept
    BY DEF ManagerStep
  <2>. QED  BY <2>1, <2>2, <2>3, <2>4, <2>5 DEF Ops
<1>2. ASSUME NEW t \in Callers, CallStep(t), t # Main PROVE MainAtCall'
  <2>1. /\ pc'[Main] = pc[Main] /\ arg'[Main] = arg[Main]
        /\ \A u \in Callers : arg'[u] = arg[u] \/ arg'[u] = None
    BY <1>2, CallMoves, ActorValues
  <2>2. main' = main /\ selected' = selected /\ kept' = kept
    BY <2>1 DEF ManagerStep, CallGoesOn
  <2>. QED  BY <2>1, <2>2
<1>3. ASSUME \A u \in Callers : pc'[u] = pc[u] /\ arg'[u] = arg[u] PROVE MainAtCall'
  <2>1. main' = main /\ selected' = selected /\ kept' = kept
    BY <1>3 DEF ManagerStep, CallGoesOn
  <2>. QED  BY <1>3, <2>1
<1>. QED  BY <1>1, <1>2, <1>3, ThreadsMoveNoCall DEF ManagerStep

(* The manager learns of a callback through the call it is the argument of, and hears of
   its death after the client has exited. *)
LEMMA ManagerKeepsCallbacks ==
    ASSUME IndInv, SelectsOwn, MainAtCall, OwnCallbacks, process = "up", ManagerStep
    PROVE  OwnCallbacks'
<1>. USE TestClientAssumption, ActorsAssumption, ActorValues DEF IndInv
<1>1. UNCHANGED <<used, selected, kept>> /\ (main' = "exited" <=> main = "exited")
  BY DEF ManagerStep, CallGoesOn, MainAtCall, Ops
<1>2. alive' = alive
  BY AliveStays DEF ManagerStep
<1>3. \A c \in Own : alive[c] /\ pc[c] = "idle" => pc'[c] = "idle"
  BY CallMoves, ThreadsMoveNoCall DEF ManagerStep
<1>4. ASSUME main # "exited", NEW c \in Own, c \notin used \/ ~Connected
      PROVE Unknown(c)'
  <2>1. /\ Unknown(c)
        /\ alive[c] /\ pc[c] = "idle"
        /\ c # selected \/ ~Connected
    BY <1>4 DEF OwnCallbacks, SelectsOwn
  <2>2. \A t \in Callers : arg[t] # c
    BY <2>1 DEF MainAtCall
  <2>3. Kept(c)
    BY <2>1, <2>2, CallKeeps, ThreadsKeep DEF ManagerStep
  <2>. QED  BY <2>1, <2>3 DEF Kept, Unknown
<1>. QED  BY <1>1, <1>2, <1>3, <1>4 DEF OwnCallbacks, Connected

(* Whoever was last told that the VM runs is on the list. *)
Informed(c) == SaysRunning(c) => Registered(c)

(* A callback that other calls and the threads touch stays informed, if it was. *)
LEMMA KeptStaysInformed ==
    ASSUME NEW c, Kept(c), Informed(c) PROVE Informed(c)'
BY DEF Kept, Informed, SaysRunning

(* With its call under way or not, the selected callback is none of the other calls'. *)
LEMMA SelectedIsKept ==
    ASSUME IndInv, SelectsOwn, MainAtCall, OwnCallbacks, ManagerStep, ~CallStep(Main),
           main # "exited", NEW c \in Own
    PROVE  Kept(c)
<1>1. alive[c] /\ pc[c] = "idle"
  BY DEF OwnCallbacks
<1>2. \A t \in Callers : t # Main => arg[t] # c
  BY DEF MainAtCall
<1>. QED
  BY <1>1, <1>2, CallKeeps, ThreadsKeep, TestClientAssumption DEF ManagerStep

(* stop checks the list under vm_instance and then tells every client on it. *)
LEMMA ManagerKeepsStopInformed ==
    ASSUME IndInv, ClientInv, ManagerStep PROVE StopIsInformed'
<1>. USE TestClientAssumption DEF ClientInv, IndInv
<1>1. main' = "stop" => selected' \in Own
  <2>1. MainAtCall'
    BY ManagerKeepsMain
  <2>. QED  BY <2>1 DEF MainAtCall, SelectsOwn, ManagerStep, Ops
<1>. SUFFICES ASSUME NEW c \in Own, c = selected', main' = "stop",
                     pc'[Main] \in {"stop_lock_state", "stop_join"}
              PROVE  Informed(c)'
  BY <1>1 DEF StopIsInformed, Informed, SaysRunning
<1>2. main = "stop" /\ selected = c /\ pc[Main] \in StopSteps /\ arg[Main] = c
  <2>1. main = "stop" /\ selected = c
    BY DEF ManagerStep, CallGoesOn, MainAtCall, Ops
  <2>. QED  BY <2>1 DEF MainAtCall, Ops, StepsOf
<1>3. CASE CallStep(Main)
  <2>1. StopStep(Main)
    BY <1>2, <1>3 DEF CallStep, StopSteps, StartStep, UserspaceStep, RequestStep,
       StartRegister, StartLockState, StartReturns, StartProceeds, StartVmFails,
       StartVmAborts, CreateVm, StartFinish, CheckStarted, TakeUserspace, JoinUserspace,
       RequestLockInstance, RequestNothingToDo, RequestDeparts, RequestLeavesOthers,
       RequestHasNoGuest, RequestRefused, RequestAccepted, RequestJoinStop
  <2>2. CASE StopLockInstance(Main)
    <3>1. Registered(c) /\ clients' = clients
      BY <1>2, <2>2, ActorValues DEF StopLockInstance, Return, TypeOK, clientVars
    <3>. QED  BY <3>1 DEF Informed, Registered
  <2>3. CASE StopKillsVm(Main)
    <3>1. Informed(c)
      BY <1>2, <2>3 DEF StopKillsVm, StopIsInformed, Informed
    <3>2. clients' = clients /\ (told'[c] = told[c] \/ told'[c] = "ShuttingDown")
      BY <2>3 DEF StopKillsVm, Notify
    <3>. QED  BY <3>1, <3>2 DEF Informed, SaysRunning, Registered
  <2>4. CASE StopNothingToDo(Main) \/ StopCannotNotify(Main) \/ StopJoin(Main)
    <3>1. pc'[Main] = "idle"
      BY <2>4, ActorValues DEF StopNothingToDo, StopCannotNotify, StopJoin, Return, TypeOK
    <3>. QED  BY <3>1
  <2>. QED  BY <2>1, <2>2, <2>3, <2>4 DEF StopStep
<1>4. CASE ~CallStep(Main)
  <2>1. pc'[Main] = pc[Main]
    BY <1>4, CallMoves, ThreadsMoveNoCall, ActorValues DEF ManagerStep
  <2>2. Informed(c)
    BY <1>2, <2>1 DEF StopIsInformed, Informed
  <2>3. Kept(c)
    BY <1>2, <1>4, SelectedIsKept
  <2>. QED  BY <2>2, <2>3, KeptStaysInformed
<1>. QED  BY <1>3, <1>4

(* The other steps of the client and of its manager's restart. *)
LEMMA ClientKeepsInv ==
    ASSUME IndInv, ClientInv, [ClientNext]_allVars PROVE ClientInv'
<1>. USE TestClientAssumption, ActorsAssumption, ActorValues DEF ClientInv
<1>1. SelectsOwn'
  BY ClientKeepsSelection
<1>2. CASE process = "up" /\ ManagerStep
  BY <1>1, <1>2, ManagerKeepsMain, ManagerKeepsCallbacks, ManagerKeepsStopInformed
<1>3. CASE ManagerRestarts
  <2>1. kept' # "none"
    BY <1>3 DEF ManagerRestarts, Connected, SelectsOwn, IndInv, TypeOK, States
  <2>. QED
    BY <1>1, <1>3, <2>1 DEF ManagerRestarts, ServiceRestarts, MainAtCall, OwnCallbacks, Unknown,
       StopIsInformed, Ops, Registered, Contains, SelectsOwn
<1>4. CASE SelectVm \/ DropVm \/ StartOver \/ UNCHANGED allVars
  BY <1>1, <1>4 DEF SelectVm, DropVm, StartOver, allVars, vars, MainAtCall, OwnCallbacks, Unknown,
     StopIsInformed, Ops, SelectsOwn, Registered, SaysRunning, Connected
<1>5. CASE Exit
  BY <1>1, <1>5 DEF Exit, MainAtCall, OwnCallbacks, StopIsInformed, Ops
<1>6. CASE MarkStopped
  <2>1. selected \in used \cap Own /\ main' = "menu" /\ UNCHANGED <<clients, alive, pc, arg>>
    BY <1>6 DEF MarkStopped, MainAtCall, SelectsOwn, callVars
  <2>2. OwnCallbacks'
    <3>1. CASE Connected
      <4>1. kept' = kept /\ \A c \in Own : c # selected => told'[c] = told[c]
        BY <1>6, <2>1, <3>1 DEF MarkStopped, IndInv, TypeOK
      <4>. QED
        BY <2>1, <3>1, <4>1, <1>6 DEF MarkStopped, OwnCallbacks, Unknown, Registered, Connected
    <3>2. CASE ~Connected
      BY <1>6, <2>1, <3>2 DEF MarkStopped, OwnCallbacks, Unknown, Registered, Connected
    <3>. QED  BY <3>1, <3>2
  <2>3. MainAtCall' /\ StopIsInformed'
    BY <1>6, <2>1 DEF MarkStopped, MainAtCall, StopIsInformed, Ops
  <2>. QED  BY <1>1, <2>2, <2>3
<1>7. ASSUME NEW op \in Ops, Call(op) PROVE ClientInv'
  <2>1. /\ UNCHANGED <<clients, alive, told, selected, used, kept>>
        /\ main' = op /\ pc' = [pc EXCEPT ![Main] = FirstStep[op]]
        /\ arg' = [arg EXCEPT ![Main] = selected]
        /\ selected # None /\ main = "menu" /\ Connected
    BY <1>7 DEF Call, Begin, clientVars
  <2>2. FirstStep[op] \in StepsOf[op] \ {"stop_lock_state", "stop_join"}
    BY DEF Ops, FirstStep, StepsOf, StartSteps, StopSteps, RequestSteps
  <2>3. MainAtCall'
    BY <2>1, <2>2 DEF MainAtCall, Connected, IndInv, TypeOK
  <2>4. OwnCallbacks'
    BY <2>1 DEF OwnCallbacks, Unknown, Connected, Registered, IndInv, TypeOK
  <2>5. StopIsInformed'
    BY <2>1, <2>2 DEF StopIsInformed, IndInv, TypeOK
  <2>. QED  BY <1>1, <2>3, <2>4, <2>5
<1>8. CASE OtherClients
  <2>1. UNCHANGED <<clients, told, clientProcess>>
    BY <1>8 DEF OtherClients, Begin, ClientDies, clientVars
  <2>2. /\ pc'[Main] = pc[Main] /\ arg'[Main] = arg[Main]
        /\ \A t \in Callers : arg'[t] = arg[t] \/ arg'[t] \notin Own
        /\ \A c \in Own : pc'[c] = pc[c] /\ alive'[c] = alive[c]
    BY <1>8 DEF OtherClients, Begin, ClientDies, clientVars, callVars, IndInv, TypeOK
  <2>3. MainAtCall'
    BY <2>1, <2>2 DEF MainAtCall, Connected, clientProcess
  <2>4. OwnCallbacks'
    BY <2>1, <2>2 DEF OwnCallbacks, Unknown, Connected, Registered, clientProcess
  <2>5. StopIsInformed'
    BY <2>1, <2>2 DEF StopIsInformed, SaysRunning, Registered, clientProcess
  <2>. QED  BY <1>1, <2>3, <2>4, <2>5
<1>. QED
  BY <1>2, <1>3, <1>4, <1>5, <1>6, <1>7, <1>8 DEF ClientNext

(* The object's invariant and the client's hold together. *)
LEMMA ClientInvHolds == ClientSpec => [](IndInv /\ ClientInv)
<1>1. ClientInit => ClientInv
  BY TestClientAssumption, ActorsAssumption, ActorValues
  DEF ClientInit, Init, ClientInv, SelectsOwn, MainAtCall, OwnCallbacks, Unknown, StopIsInformed,
      Ops, Registered, Contains, Connected
<1>2. IndInv /\ ClientInv /\ [ClientNext]_allVars => ClientInv'
  BY ClientKeepsInv
<1>. QED  BY <1>1, <1>2, ObjectOrderedBesideClient, PTL DEF ClientSpec

(* No end of a VM, no departure, no late callback, no Ok that stands for a failure and no
   state that a dead manager left behind has the menu offer to stop a VM to a callback that
   is not on the list of the manager it calls; only a start can that finds the list cleared
   between its two critical sections (lines 214 to 243 and 267 to 278). *)
THEOREM OnlyAStartMisleads == ClientSpec => OnlyStartMisleads
<1>1. ASSUME IndInv, ClientInv, ClientNext, ~Misled, Misled', main # "start" PROVE FALSE
  <2>. USE TestClientAssumption, ActorsAssumption, ActorValues
       DEF ClientInv, Misled, SaysRunning, Connected, vm_state
  <2>1. /\ process' = "up" /\ kept' = "none" /\ main' = "menu" /\ selected' # None
        /\ told'[selected'] \in {"Started", "UserspaceReady"} /\ ~Registered(selected)'
    BY <1>1
  <2>2. CASE ManagerRestarts
    BY <1>1, <2>1, <2>2 DEF ManagerRestarts, SelectsOwn, IndInv, TypeOK, States
  <2>3. CASE SelectVm
    BY <1>1, <2>1, <2>3 DEF SelectVm, vars, OwnCallbacks, Unknown
  <2>4. CASE DropVm \/ Exit \/ StartOver \/ (\E op \in Ops : Call(op))
    BY <2>1, <2>4 DEF DropVm, Exit, StartOver, Call, Ops
  <2>5. CASE OtherClients /\ process = "up"
    BY <1>1, <2>1, <2>5
    DEF OtherClients, Begin, ClientDies, clientProcess, clientVars, Registered
  <2>6. CASE MarkStopped
    BY <1>1, <2>1, <2>6 DEF MarkStopped, SelectsOwn, IndInv, TypeOK
  <2>7. CASE process = "up" /\ ManagerStep
    <3>. PICK c \in Own : c = selected /\ selected' = c
      BY <1>1, <2>1, <2>7 DEF ManagerStep, SelectsOwn
    <3>. SUFFICES Informed(c)'
      BY <2>1 DEF Informed
    <3>1. CASE CallStep(Main)
      <4>1. main \in Ops /\ pc[Main] \in StepsOf[main]
        BY <1>1, <3>1, CallMoves DEF MainAtCall, IndInv
      <4>2. AnswersErr
        BY <1>1, <2>1, <2>7, <4>1 DEF ManagerStep, CallGoesOn, Ops
      <4>3. main = "stop" /\ pc[Main] \in {"stop_lock_state", "stop_join"}
        BY <4>1, <4>2 DEF AnswersErr, StopCannotNotify, StopJoin, Ops, StepsOf, StartSteps,
           RequestSteps, UserspaceSteps
      <4>4. Informed(c)
        BY <1>1, <4>3 DEF StopIsInformed, Informed
      <4>5. clients' = clients /\ (told'[c] = told[c] \/ told'[c] = "ShuttingDown")
        BY <4>2 DEF AnswersErr, StopCannotNotify, StopJoin, Notify, clientVars
      <4>. QED  BY <4>4, <4>5 DEF Informed, Registered
    <3>2. CASE ~CallStep(Main)
      <4>1. pc'[Main] = pc[Main]
        BY <1>1, <2>7, <3>2, CallMoves, ThreadsMoveNoCall DEF ManagerStep, IndInv
      <4>2. main = "menu"
        BY <2>1, <2>7, <4>1 DEF ManagerStep, CallGoesOn
      <4>3. Informed(c)
        <5>1. kept = "none" /\ c # None
          BY <2>1, <2>7 DEF ManagerStep
        <5>. QED  BY <1>1, <2>7, <4>2, <5>1 DEF Informed
      <4>4. Kept(c)
        BY <1>1, <2>7, <3>2, <4>2, SelectedIsKept
      <4>. QED  BY <4>3, <4>4, KeptStaysInformed
    <3>. QED  BY <3>1, <3>2
  <2>. QED  BY <1>1, <2>2, <2>3, <2>4, <2>5, <2>6, <2>7 DEF ClientNext
<1>2. IndInv /\ ClientInv /\ [ClientNext]_allVars
        => [~Misled /\ Misled' => main = "start"]_allVars
  BY <1>1
<1>. QED  BY <1>2, ClientInvHolds, PTL DEF ClientSpec, OnlyStartMisleads
=============================================================================
