------------------------------ MODULE CallProofs ------------------------------
(***************************************************************************)
(* What the calls of the virtual machine object may rely on while they     *)
(* hold vm_instance: the list of clients is free of duplicates, the stop   *)
(* thread that request_stop joins is that of the newest VM, whose end      *)
(* finds no client that could be dead, and the registered clients know the *)
(* state as long as none of them has died.                                 *)
(***************************************************************************)
EXTENDS VirtualMachineProofs

-----------------------------------------------------------------------------
(* The list of clients *)

ListStep ==
    \/ clients' = clients
    \/ clients' = <<>>
    \/ \E c \in Clients : Free("instance") /\ ~Registered(c) /\ clients' = Append(clients, c)
    \/ \E c : clients' = Without(c)

(* A client that is not registered is pushed at the end of the list. *)
LEMMA PushKeepsInjective ==
    ASSUME clients \in Seq(Clients), NoDuplicateClients, NEW c \in Clients,
           NEW longer, longer = Append(clients, c), ~Registered(c)
    PROVE  IsInjective(longer)
<1>1. /\ Len(clients) \in Nat
      /\ DOMAIN clients = 1..Len(clients)
  BY LenProperties
<1>2. /\ longer \in Seq(Clients)
      /\ Len(longer) = Len(clients) + 1
      /\ \A i \in 1..Len(clients) : longer[i] = clients[i]
      /\ longer[Len(clients) + 1] = c
  BY AppendProperties
<1>3. DOMAIN longer = 1..(Len(clients) + 1)
  BY <1>2, LenProperties
<1>4. \A i \in 1..Len(clients) : clients[i] # c
  BY DEF Registered, Contains
<1>5. \A i, j \in 1..Len(clients) : clients[i] = clients[j] => i = j
  BY <1>1 DEF NoDuplicateClients, IsInjective
<1>6. ASSUME NEW i \in 1..(Len(clients) + 1), NEW j \in 1..(Len(clients) + 1),
             longer[i] = longer[j]
      PROVE  i = j
  <2>1. i \in 1..Len(clients) \/ i = Len(clients) + 1
    BY <1>1
  <2>2. j \in 1..Len(clients) \/ j = Len(clients) + 1
    BY <1>1
  <2>3. CASE i \in 1..Len(clients) /\ j \in 1..Len(clients)
    <3>1. clients[i] = clients[j]
      BY <1>2, <1>6, <2>3
    <3>. QED  BY <1>5, <2>3, <3>1
  <2>4. CASE i \in 1..Len(clients) /\ j = Len(clients) + 1
    <3>1. clients[i] = c
      BY <1>2, <1>6, <2>4
    <3>. QED  BY <1>4, <2>4, <3>1
  <2>5. CASE i = Len(clients) + 1 /\ j \in 1..Len(clients)
    <3>1. clients[j] = c
      BY <1>2, <1>6, <2>5
    <3>. QED  BY <1>4, <2>5, <3>1
  <2>. QED  BY <2>1, <2>2, <2>3, <2>4, <2>5
<1>. QED  BY <1>3, <1>6 DEF IsInjective

(* Taking a client off leaves the others where they are or one place further down. *)
LEMMA LeavingShifts ==
    ASSUME clients \in Seq(Clients), NEW c, Registered(c)
    PROVE  /\ Position(c) \in 1..Len(clients) /\ clients[Position(c)] = c
           /\ DOMAIN Without(c) = 1..(Len(clients) - 1)
           /\ \A i \in 1..(Len(clients) - 1) :
                 Without(c)[i] = clients[IF i < Position(c) THEN i ELSE i + 1]
<1>. DEFINE n == Len(clients)
            p == Position(c)
            s == SubSeq(clients, 1, p - 1)
            e == SubSeq(clients, p + 1, n)
<1>1. n \in Nat /\ DOMAIN clients = 1..n /\ \A i \in 1..n : clients[i] \in Clients
  BY LenProperties
<1>2. p \in 1..n /\ clients[p] = c
  BY <1>1 DEF Registered, Contains, Position
<1>3. /\ s \in Seq(Clients) /\ Len(s) = p - 1
      /\ \A i \in 1..(p - 1) : s[i] = clients[i]
  <2>. DEFINE m == p - 1
  <2>1. m \in Int /\ \A i \in 1..m : clients[i] \in Clients
    BY <1>1, <1>2
  <2>2. /\ s \in Seq(Clients)
        /\ Len(s) = IF 1 <= m THEN m - 1 + 1 ELSE 0
        /\ \A i \in 1..(m - 1 + 1) : s[i] = clients[1 + i - 1]
    BY <2>1, SubSeqProperties
  <2>. QED  BY <1>1, <1>2, <2>2
<1>4. /\ e \in Seq(Clients) /\ Len(e) = n - p
      /\ \A i \in 1..(n - p) : e[i] = clients[p + i]
  <2>. DEFINE m == p + 1
  <2>1. m \in Int /\ \A i \in m..n : clients[i] \in Clients
    BY <1>1, <1>2
  <2>2. /\ e \in Seq(Clients)
        /\ Len(e) = IF m <= n THEN n - m + 1 ELSE 0
        /\ \A i \in 1..(n - m + 1) : e[i] = clients[m + i - 1]
    BY <1>1, <2>1, SubSeqProperties
  <2>. QED  BY <1>1, <1>2, <2>2
<1>. HIDE DEF n, p, s, e
<1>5. /\ Without(c) = s \o e
      /\ DOMAIN (s \o e) = 1..(n - 1)
      /\ \A i \in 1..(n - 1) : (s \o e)[i] = clients[IF i < p THEN i ELSE i + 1]
  <2>1. Without(c) = s \o e
    BY DEF Without, RemoveAt, n, p, s, e
  <2>2. /\ s \o e \in Seq(Clients)
        /\ Len(s \o e) = Len(s) + Len(e)
        /\ \A i \in 1..(Len(s) + Len(e)) :
              (s \o e)[i] = IF i <= Len(s) THEN s[i] ELSE e[i - Len(s)]
    BY <1>3, <1>4, ConcatProperties
  <2>3. Len(s) + Len(e) = n - 1
    BY <1>1, <1>2, <1>3, <1>4
  <2>4. DOMAIN (s \o e) = 1..(n - 1)
    BY <2>2, <2>3, LenProperties
  <2>5. ASSUME NEW i \in 1..(n - 1)
        PROVE (s \o e)[i] = clients[IF i < p THEN i ELSE i + 1]
    <3>1. CASE i < p
      BY <1>1, <1>2, <1>3, <2>2, <2>3, <3>1
    <3>2. CASE ~(i < p)
      <4>1. i - (p - 1) \in 1..(n - p) /\ p + (i - (p - 1)) = i + 1
        BY <1>1, <1>2, <3>2
      <4>2. (s \o e)[i] = e[i - (p - 1)]
        BY <1>1, <1>2, <1>3, <2>2, <2>3, <3>2
      <4>. QED  BY <1>4, <3>2, <4>1, <4>2
    <3>. QED  BY <3>1, <3>2
  <2>. QED  BY <2>1, <2>4, <2>5
<1>. QED  BY <1>2, <1>5 DEF n, p

(* The list without one of its clients has no duplicates either. *)
LEMMA LeavingKeepsInjective ==
    ASSUME clients \in Seq(Clients), NoDuplicateClients, NEW c
    PROVE  IsInjective(Without(c))
<1>1. CASE Registered(c)
  <2>. DEFINE n == Len(clients)
              p == Position(c)
              w == Without(c)
  <2>1. n \in Nat /\ DOMAIN clients = 1..n
    BY LenProperties
  <2>2. /\ p \in 1..n
        /\ DOMAIN w = 1..(n - 1)
        /\ \A i \in 1..(n - 1) : w[i] = clients[IF i < p THEN i ELSE i + 1]
    BY <1>1, LeavingShifts
  <2>3. \A i, j \in 1..n : clients[i] = clients[j] => i = j
    BY <2>1 DEF NoDuplicateClients, IsInjective
  <2>. HIDE DEF n, p, w
  <2>4. ASSUME NEW i \in 1..(n - 1), NEW j \in 1..(n - 1), w[i] = w[j]
        PROVE  i = j
    <3>. DEFINE at(k) == IF k < p THEN k ELSE k + 1
    <3>1. at(i) \in 1..n /\ at(j) \in 1..n
      BY <2>1, <2>2
    <3>2. at(i) = at(j)
      BY <2>2, <2>3, <2>4, <3>1
    <3>. QED  BY <2>1, <2>2, <3>2
  <2>5. IsInjective(w)
    BY <2>2, <2>4 DEF IsInjective
  <2>. QED  BY <2>5 DEF w
<1>2. CASE ~Registered(c)
  BY <1>2 DEF Without, NoDuplicateClients
<1>. QED  BY <1>1, <1>2

(* Only create_client, a departure, a death and the stop thread change the list. *)
LEMMA StepsOfList == ASSUME TypeOK, CallsOwnState, Next PROVE ListStep
<1>1. ASSUME NEW t \in Callers, StartRegister(t) PROVE ListStep
  BY <1>1 DEF StartRegister, CallsOwnState, ListStep
<1>2. ASSUME NEW t \in Callers, CallStep(t), ~StartRegister(t)
      PROVE clients' = clients \/ clients' = Without(arg[t])
  BY <1>2 DEF CallStep, StartStep, StopStep, UserspaceStep, RequestStep, clientVars,
     StartLockState, StartReturns, StartProceeds, StartVmFails, StartVmAborts, CreateVm,
     StartFinish, StopLockInstance, StopNothingToDo, StopCannotNotify, StopKillsVm, StopJoin,
     CheckStarted, TakeUserspace, JoinUserspace, RequestLockInstance, RequestNothingToDo,
     RequestDeparts, RequestLeavesOthers, RequestHasNoGuest, RequestRefused, RequestAccepted,
     RequestJoinStop
<1>3. ASSUME NEW c \in Clients, DeliverDeath(c) \/ DeathStep(c) \/ ClientDies(c)
      PROVE clients' = clients \/ clients' = Without(c)
  BY <1>3 DEF DeliverDeath, DeathStep, UserspaceStep, ClientDies, clientVars, CheckStarted,
     TakeUserspace, JoinUserspace, DeathLeavesOthers, DeathOfLast, DeathKillsVm,
     DeathLockState, DeathShutsDown
<1>4. ASSUME NEW w \in Workers, WorkerStep(w) PROVE clients' = clients
  BY <1>4 DEF WorkerStep, clientVars, ConnectSucceeds, ConnectFails, UserspaceGivesUp,
     StoreClient, ReportReady, MonitorPolls, MonitorChecks, MonitorClearsClient,
     MonitorReportsLost
<1>5. ASSUME NEW b \in Boots, StopperStep(b) \/ GuestStep(b)
      PROVE clients' = clients \/ clients' = <<>>
  BY <1>5 DEF StopperStep, GuestStep, clientVars, TakeVirtmgr, DestroyVm, ReportStop,
     GuestPowersOff, VmExits, GuestServiceRestarts
<1>6. ASSUME NEW t \in Callers, NEW c \in Clients, NEW op \in Ops, Begin(t, c, op)
      PROVE clients' = clients
  BY <1>6 DEF Begin, clientVars
<1>. QED
  BY <1>1, <1>2, <1>3, <1>4, <1>5, <1>6 DEF Next, Running, ServiceRestarts, ListStep

(* No client is told everything twice (create_client, lines 823 to 910), whatever joins
   and leaves the list meanwhile. *)
THEOREM ClientsListedOnce == Spec => []NoDuplicateClients
<1>1. Init => NoDuplicateClients
  BY DEF Init, NoDuplicateClients, IsInjective
<1>2. IndInv /\ NoDuplicateClients /\ [Next]_vars => NoDuplicateClients'
  <2>. SUFFICES ASSUME IndInv, NoDuplicateClients, [Next]_vars PROVE NoDuplicateClients'
    OBVIOUS
  <2>1. clients' = clients \/ ListStep
    BY StepsOfList DEF IndInv, BootInv, vars
  <2>2. clients \in Seq(Clients)
    BY DEF IndInv, TypeOK
  <2>3. IsInjective(<<>>)
    BY DEF IsInjective
  <2>4. CASE clients' = clients
    BY <2>4 DEF NoDuplicateClients
  <2>5. CASE clients' = <<>>
    BY <2>3, <2>5 DEF NoDuplicateClients
  <2>6. ASSUME NEW c \in Clients, ~Registered(c), clients' = Append(clients, c)
        PROVE  NoDuplicateClients'
    <3>1. IsInjective(clients')
      BY <2>2, <2>6, PushKeepsInjective
    <3>. QED  BY <3>1 DEF NoDuplicateClients
  <2>7. ASSUME NEW c, clients' = Without(c) PROVE NoDuplicateClients'
    <3>1. IsInjective(Without(c))
      BY <2>2, LeavingKeepsInjective
    <3>. QED  BY <2>7, <3>1 DEF NoDuplicateClients
  <2>. QED  BY <2>1, <2>4, <2>5, <2>6, <2>7 DEF ListStep
<1>. QED  BY <1>1, <1>2, Invariance, PTL DEF Spec
-----------------------------------------------------------------------------
(* Who owns vm_instance, and the stop thread that request_stop joins *)

InstanceSteps == {"start_vm", "start_finish", "stop_lock_state", "stop_join",
                  "request_lock_state", "request_join_stop"} \cup UserspaceSteps

(* A call keeps vm_instance from the moment it has decided to act until it returns,
   through its joins. *)
InstanceHeld == \A t \in Callers : pc[t] \in InstanceSteps => lock["instance"] = t

(* A connection that is up leads to a VM. *)
ConnectionsNamed ==
    /\ guest_client.up => guest_client.boot \in Boots
    /\ \A w \in Workers : conn[w].up => conn[w].boot \in Boots

Joining(t) == pc[t] = "request_join_stop"

(* wait_for_stop_thread is that of the newest VM, and as long as this VM answers, it is
   either there or with the call that joins it, for which no client is left. *)
JoinsInOrder ==
    /\ Creating \/ stop_thread \in {0, boot}
    /\ boot # 0 /\ stop_thread = 0 /\ ~Creating
          => ~Answering(boot) \/ \E t \in Callers : Joining(t)
    /\ \A t \in Callers : Joining(t) =>
          target[t] = boot /\ boot \in Boots /\ clients = <<>> /\ stopper[boot] # "failed"

JoinInv == InstanceHeld /\ ConnectionsNamed /\ JoinsInOrder

(* A call that ends gives up only what it owned. *)
LEMMA ReturnHolds ==
    ASSUME CallsTyped, InstanceHeld, NEW t \in Actors, Return(t) PROVE InstanceHeld'
BY ActorsAssumption, ActorValues
DEF CallsTyped, InstanceHeld, InstanceSteps, UserspaceSteps, Return, Release, Locks

(* A call that goes on needs vm_instance for the steps that act on the VM. *)
LEMMA GotoHolds ==
    ASSUME CallsTyped, InstanceHeld, NEW t \in Actors, NEW step, Goto(t, step),
           lock'["instance"] = lock["instance"] \/ Free("instance"),
           t \in Callers /\ step \in InstanceSteps => lock'["instance"] = t
    PROVE  InstanceHeld'
BY ActorsAssumption, ActorValues DEF CallsTyped, InstanceHeld, Goto, Free

(* Every step keeps the ownership of vm_instance. *)
LEMMA StepKeepsInstanceHeld == ASSUME TypeOK, InstanceHeld, Next PROVE InstanceHeld'
<1>. USE ActorValues DEF TypeOK, CallsTyped
<1>1. ASSUME callVars' = callVars PROVE InstanceHeld'
  BY <1>1 DEF InstanceHeld, callVars
<1>2. ASSUME NEW t \in Callers, NEW c \in Clients, NEW op \in Ops, Begin(t, c, op)
      PROVE InstanceHeld'
  BY <1>2 DEF Begin, Ops, FirstStep, InstanceHeld, InstanceSteps, UserspaceSteps
<1>3. ASSUME NEW t \in Callers, StartStep(t) PROVE InstanceHeld'
  <2>1. CASE StartRegister(t) \/ StartLockState(t)
    BY <2>1, ReturnHolds, GotoHolds
    DEF StartRegister, StartLockState, Acquire, Locks, InstanceSteps, UserspaceSteps
  <2>2. CASE StartProceeds(t)
    BY <2>2, GotoHolds DEF StartProceeds, Acquire, Locks
  <2>3. CASE CreateVm(t)
    BY <2>3, GotoHolds DEF CreateVm, InstanceHeld, InstanceSteps
  <2>4. CASE StartReturns(t) \/ StartVmFails(t) \/ StartFinish(t)
    BY <2>4, ReturnHolds DEF StartReturns, StartVmFails, StartFinish
  <2>5. CASE StartVmAborts(t)
    BY <1>1, <2>5 DEF StartVmAborts
  <2>. QED  BY <1>3, <2>1, <2>2, <2>3, <2>4, <2>5 DEF StartStep
<1>4. ASSUME NEW t \in Callers, StopStep(t) PROVE InstanceHeld'
  <2>1. CASE StopLockInstance(t)
    BY <2>1, ReturnHolds, GotoHolds DEF StopLockInstance, Acquire, Locks
  <2>2. CASE StopKillsVm(t)
    BY <2>2, GotoHolds DEF StopKillsVm, InstanceHeld, InstanceSteps
  <2>3. CASE StopNothingToDo(t) \/ StopCannotNotify(t) \/ StopJoin(t)
    BY <2>3, ReturnHolds DEF StopNothingToDo, StopCannotNotify, StopJoin
  <2>. QED  BY <1>4, <2>1, <2>2, <2>3 DEF StopStep
<1>5. ASSUME NEW u \in Actors, UserspaceStep(u) PROVE InstanceHeld'
  <2>1. lock'["instance"] = lock["instance"]
    BY <1>5 DEF UserspaceStep, CheckStarted, TakeUserspace, JoinUserspace, Acquire, Locks
  <2>2. u \in Callers => lock["instance"] = u
    BY <1>5 DEF UserspaceStep, CheckStarted, TakeUserspace, JoinUserspace, InstanceHeld,
       InstanceSteps, UserspaceSteps
  <2>. QED
    BY <1>5, <2>1, <2>2, GotoHolds DEF UserspaceStep, CheckStarted, TakeUserspace, JoinUserspace
<1>6. ASSUME NEW t \in Callers, RequestStep(t) PROVE InstanceHeld'
  <2>. USE DEF RequestDeparts
  <2>1. CASE RequestLockInstance(t)
    BY <2>1, ReturnHolds, GotoHolds DEF RequestLockInstance, Acquire, Locks
  <2>2. CASE RequestAccepted(t)
    BY <2>2, GotoHolds DEF RequestAccepted, Acquire, Locks, InstanceHeld, InstanceSteps
  <2>3. CASE RequestNothingToDo(t) \/ RequestLeavesOthers(t) \/ RequestRefused(t)
             \/ RequestJoinStop(t)
    BY <2>3, ReturnHolds
    DEF RequestNothingToDo, RequestLeavesOthers, RequestRefused, RequestJoinStop
  <2>4. CASE RequestHasNoGuest(t)
    BY <1>1, <2>4 DEF RequestHasNoGuest
  <2>. QED  BY <1>6, <2>1, <2>2, <2>3, <2>4 DEF RequestStep
<1>7. ASSUME NEW c \in Clients, DeliverDeath(c) \/ DeathStep(c) \/ ClientDies(c)
      PROVE InstanceHeld'
  <2>1. CASE DeliverDeath(c) \/ DeathOfLast(c) \/ DeathLockState(c)
    BY <2>1, GotoHolds, ActorsAssumption
    DEF DeliverDeath, DeathOfLast, DeathLockState, Acquire, Locks
  <2>2. CASE DeathLeavesOthers(c) \/ DeathKillsVm(c) \/ DeathShutsDown(c)
    BY <2>2, ReturnHolds DEF DeathLeavesOthers, DeathKillsVm, DeathShutsDown
  <2>. QED  BY <1>1, <1>5, <1>7, <2>1, <2>2 DEF DeathStep, ClientDies
<1>8. ASSUME NEW w \in Workers, WorkerStep(w) PROVE InstanceHeld'
  BY <1>1, <1>8
  DEF WorkerStep, ConnectSucceeds, ConnectFails, UserspaceGivesUp, StoreClient, ReportReady,
      MonitorPolls, MonitorChecks, MonitorClearsClient, MonitorReportsLost
<1>9. ASSUME NEW b \in Boots, StopperStep(b) \/ GuestStep(b) PROVE InstanceHeld'
  BY <1>1, <1>9
  DEF StopperStep, GuestStep, TakeVirtmgr, DestroyVm, ReportStop, GuestPowersOff, VmExits,
      GuestServiceRestarts
<1>10. CASE ServiceRestarts
  BY <1>10 DEF ServiceRestarts, InstanceHeld, InstanceSteps, UserspaceSteps
<1>11. ASSUME NEW t \in Callers, CallStep(t) PROVE InstanceHeld'
  BY <1>3, <1>4, <1>5, <1>6, <1>11 DEF CallStep
<1>. QED  BY <1>2, <1>7, <1>8, <1>9, <1>10, <1>11 DEF Next, Running

(* Every step keeps connections to VMs. *)
LEMMA StepKeepsConnectionsNamed == ASSUME TypeOK, ConnectionsNamed, Next PROVE ConnectionsNamed'
<1>1. ASSUME UNCHANGED <<guest_client, conn>> PROVE ConnectionsNamed'
  BY <1>1 DEF ConnectionsNamed
<1>2. ASSUME NEW t \in Callers, CallStep(t) PROVE UNCHANGED <<guest_client, conn>>
  BY <1>2 DEF CallStep, StartStep, StopStep, UserspaceStep, RequestStep, guestVars,
     StartRegister, StartLockState, StartReturns, StartProceeds, StartVmFails, StartVmAborts,
     CreateVm, StartFinish, StopLockInstance, StopNothingToDo, StopCannotNotify, StopKillsVm,
     StopJoin, CheckStarted, TakeUserspace, JoinUserspace, RequestLockInstance,
     RequestNothingToDo, RequestLeavesOthers, RequestHasNoGuest, RequestRefused,
     RequestAccepted, RequestJoinStop
<1>3. ASSUME NEW c \in Clients, DeliverDeath(c) \/ DeathStep(c) \/ ClientDies(c)
      PROVE UNCHANGED <<guest_client, conn>>
  BY <1>3 DEF DeliverDeath, DeathStep, UserspaceStep, ClientDies, guestVars, CheckStarted,
     TakeUserspace, JoinUserspace, DeathLeavesOthers, DeathOfLast, DeathKillsVm,
     DeathLockState, DeathShutsDown
<1>4. ASSUME NEW w \in Workers, WorkerStep(w) PROVE ConnectionsNamed'
  <2>1. CASE ConnectSucceeds(w)
    BY <2>1 DEF ConnectSucceeds, ConnectionsNamed, TypeOK
  <2>2. CASE StoreClient(w)
    BY <2>2 DEF StoreClient, ConnectionsNamed, NoConnection, TypeOK
  <2>3. CASE UserspaceGivesUp(w) \/ MonitorClearsClient(w)
    BY <2>3 DEF UserspaceGivesUp, MonitorClearsClient, ConnectionsNamed, NoConnection
  <2>. QED
    BY <1>1, <1>4, <2>1, <2>2, <2>3
    DEF WorkerStep, ConnectFails, ReportReady, MonitorPolls, MonitorChecks, MonitorReportsLost
<1>5. ASSUME NEW b \in Boots, GuestServiceRestarts(b) PROVE ConnectionsNamed'
  BY <1>5 DEF GuestServiceRestarts, Close, ConnectionsNamed, TypeOK, Connections
<1>6. ASSUME NEW b \in Boots, StopperStep(b) \/ GuestPowersOff(b) \/ VmExits(b)
      PROVE UNCHANGED <<guest_client, conn>>
  BY <1>6 DEF StopperStep, guestVars, TakeVirtmgr, DestroyVm, ReportStop, GuestPowersOff, VmExits
<1>7. ASSUME NEW t \in Callers, NEW c \in Clients, NEW op \in Ops, Begin(t, c, op)
      PROVE UNCHANGED <<guest_client, conn>>
  BY <1>7 DEF Begin, guestVars
<1>8. CASE ServiceRestarts
  BY <1>8 DEF ServiceRestarts, ConnectionsNamed, NoConnection
<1>. QED
  BY <1>1, <1>2, <1>3, <1>4, <1>5, <1>6, <1>7, <1>8 DEF Next, Running, GuestStep
(* A step that leaves alone the threads of the VM, the joins and the list of a joiner. *)
SameCalls ==
    /\ \A t \in Callers : Joining(t)' <=> Joining(t)
    /\ \A t \in Callers : Joining(t) => target'[t] = target[t]
    /\ Creating' <=> Creating
SameVm ==
    /\ UNCHANGED <<boot, stop_thread, stopper>>
    /\ \A b \in Boots : Answering(b)' => Answering(b)
SameList == clients = <<>> /\ (\E t \in Callers : Joining(t)) => clients' = <<>>

(* Such a step keeps the order of the joins. *)
LEMMA UndisturbedKeeps ==
    ASSUME TypeOK, JoinsInOrder, SameCalls, SameVm, SameList PROVE JoinsInOrder'
<1>1. boot # 0 => boot \in Boots
  BY BoundAssumption DEF TypeOK, Handles, Boots
<1>. QED  BY <1>1 DEF JoinsInOrder, SameCalls, SameVm, SameList

(* A call that neither creates a VM nor joins its stop thread, before or after, goes on. *)
LEMMA GotoSameCalls ==
    ASSUME TypeOK, NEW t \in Actors, NEW step, Goto(t, step),
           {pc[t], step} \cap {"start_finish", "request_join_stop"} = {},
           \A u \in Actors : u # t => target'[u] = target[u]
    PROVE  SameCalls
BY ActorValues DEF TypeOK, SameCalls, Joining, Creating, Goto

(* Such a call returns. *)
LEMMA ReturnSameCalls ==
    ASSUME TypeOK, NEW t \in Actors, Return(t), pc[t] \notin {"start_finish", "request_join_stop"}
    PROVE  SameCalls
BY ActorValues DEF TypeOK, SameCalls, Joining, Creating, Return

(* vm_instance is held by one call at a time. *)
LEMMA OneHolder ==
    ASSUME InstanceHeld, NEW t \in Callers,
           pc[t] \in InstanceSteps \/ Free("instance")
    PROVE  \A u \in Callers : u # t => ~Joining(u) /\ pc[u] # "start_finish"
BY ActorsAssumption DEF InstanceHeld, InstanceSteps, Free, Joining

(* The steps of start. *)
LEMMA StartKeepsJoins ==
    ASSUME IndInv, InstanceHeld, JoinsInOrder, NEW t \in Callers, StartStep(t)
    PROVE  JoinsInOrder'
<1>. USE ActorValues DEF IndInv
<1>1. CASE StartRegister(t)
  <2>1. SameCalls /\ SameVm
    BY <1>1, GotoSameCalls, ReturnSameCalls
    DEF StartRegister, SameVm, vmVars, handleVars, Answering
  <2>2. ~Joining(t)
    BY <1>1 DEF StartRegister, Joining
  <2>3. SameList
    BY <1>1, <2>2, OneHolder DEF StartRegister, SameList
  <2>. QED  BY <2>1, <2>3, UndisturbedKeeps
<1>2. CASE StartLockState(t) \/ StartProceeds(t)
  BY <1>2, GotoSameCalls, UndisturbedKeeps
  DEF StartLockState, StartProceeds, SameVm, SameList, vmVars, handleVars, clientVars, Answering
<1>3. CASE StartReturns(t) \/ StartVmFails(t)
  BY <1>3, ReturnSameCalls, UndisturbedKeeps
  DEF StartReturns, StartVmFails, SameVm, SameList, vmVars, handleVars, clientVars, Answering
<1>4. CASE StartVmAborts(t)
  BY <1>4, UndisturbedKeeps
  DEF StartVmAborts, SameCalls, SameVm, SameList, vmVars, handleVars, clientVars, callVars,
      Joining, Creating, Answering
<1>5. CASE CreateVm(t)
  <2>1. \A u \in Callers : ~Joining(u)'
    BY <1>5, OneHolder DEF CreateVm, Goto, InstanceSteps, Joining, TypeOK
  <2>2. Creating'
    BY <1>5 DEF CreateVm, Goto, Creating, TypeOK
  <2>. QED  BY <2>1, <2>2 DEF JoinsInOrder
<1>6. CASE StartFinish(t)
  <2>1. \A u \in Callers : ~Joining(u)'
    BY <1>6, OneHolder DEF StartFinish, Return, InstanceSteps, Joining, TypeOK
  <2>2. boot' = boot /\ stop_thread' = boot
    BY <1>6 DEF StartFinish
  <2>. QED  BY <2>1, <2>2 DEF JoinsInOrder
<1>. QED  BY <1>1, <1>2, <1>3, <1>4, <1>5, <1>6 DEF StartStep

(* The steps of stop. *)
LEMMA StopKeepsJoins ==
    ASSUME IndInv, InstanceHeld, JoinsInOrder, NEW t \in Callers, StopStep(t)
    PROVE  JoinsInOrder'
<1>. USE ActorValues DEF IndInv
<1>1. CASE StopLockInstance(t)
  BY <1>1, GotoSameCalls, ReturnSameCalls, UndisturbedKeeps
  DEF StopLockInstance, SameVm, SameList, vmVars, handleVars, clientVars, Answering
<1>2. CASE StopNothingToDo(t) \/ StopCannotNotify(t) \/ StopJoin(t)
  BY <1>2, ReturnSameCalls, UndisturbedKeeps
  DEF StopNothingToDo, StopCannotNotify, StopJoin, SameVm, SameList, vmVars, handleVars,
      clientVars, Answering
<1>3. CASE StopKillsVm(t)
  <2>1. \A u \in Callers : ~Joining(u)'
    BY <1>3, OneHolder DEF StopKillsVm, Goto, InstanceSteps, Joining, TypeOK
  <2>2. boot' = boot /\ stop_thread' = 0
    BY <1>3 DEF StopKillsVm
  <2>3. boot # 0 => ~Answering(boot)'
    BY <1>3, BoundAssumption DEF StopKillsVm, Kill, Answering, TypeOK, Handles, Boots
  <2>. QED  BY <2>1, <2>2, <2>3 DEF JoinsInOrder
<1>. QED  BY <1>1, <1>2, <1>3 DEF StopStep

(* The wait for the userspace thread. *)
LEMMA UserspaceKeepsJoins ==
    ASSUME IndInv, JoinsInOrder, NEW u \in Actors, UserspaceStep(u) PROVE JoinsInOrder'
<1>. USE DEF IndInv
<1>1. SameCalls
  BY GotoSameCalls
  DEF UserspaceStep, CheckStarted, TakeUserspace, JoinUserspace, ThenLockState, TypeOK
<1>2. SameVm /\ SameList
  BY DEF UserspaceStep, CheckStarted, TakeUserspace, JoinUserspace, SameVm, SameList, vmVars,
     handleVars, clientVars, Answering
<1>. QED  BY <1>1, <1>2, UndisturbedKeeps

(* Taking a client off an empty list leaves it empty. *)
LEMMA WithoutOfEmpty == ASSUME clients = <<>>, NEW c PROVE Without(c) = <<>>
BY DEF Without, Registered, Contains

(* The steps of request_stop. *)
LEMMA RequestKeepsJoins ==
    ASSUME IndInv, InstanceHeld, ConnectionsNamed, JoinsInOrder, NEW t \in Callers, RequestStep(t)
    PROVE  JoinsInOrder'
<1>. USE ActorValues DEF IndInv
<1>1. CASE RequestLockInstance(t)
  BY <1>1, GotoSameCalls, ReturnSameCalls, UndisturbedKeeps
  DEF RequestLockInstance, SameVm, SameList, vmVars, handleVars, clientVars, Answering
<1>2. CASE RequestNothingToDo(t) \/ RequestLeavesOthers(t) \/ RequestRefused(t)
  BY <1>2, ReturnSameCalls, UndisturbedKeeps, WithoutOfEmpty
  DEF RequestNothingToDo, RequestLeavesOthers, RequestRefused, RequestDeparts, SameVm,
      SameList, vmVars, handleVars, Answering
<1>3. CASE RequestHasNoGuest(t)
  BY <1>3, UndisturbedKeeps, WithoutOfEmpty
  DEF RequestHasNoGuest, RequestDeparts, SameCalls, SameVm, SameList, vmVars, handleVars,
      callVars, Joining, Creating, Answering
<1>4. CASE RequestAccepted(t)
  <2>1. pc[t] = "request_lock_state" /\ ~Joining(t)
    BY <1>4 DEF RequestAccepted, RequestDeparts, Joining
  <2>2. \A u \in Callers : ~Joining(u) /\ pc[u] # "start_finish"
    BY <2>1, OneHolder DEF InstanceSteps
  <2>3. guest_client.boot \in Boots /\ Answering(guest_client.boot)
    BY <1>4 DEF RequestAccepted, Open, ConnectionsNamed
  <2>4. guest_client.boot = boot
    <3>1. guest_client.boot \in Int /\ boot \in Int
      BY <2>3, BoundAssumption DEF Boots, TypeOK, Handles
    <3>2. ~(guest_client.boot < boot) /\ ~(guest_client.boot > boot)
      BY <2>3 DEF BootInv, StoppersInOrder, Finished, Answering
    <3>. QED  BY <3>1, <3>2
  <2>5. boot \in Boots /\ boot # 0 /\ stopper[boot] \notin Finished
    BY <2>3, <2>4 DEF BootInv, StoppersInOrder, Finished, Answering, Boots
  <2>6. stop_thread = boot
    BY <2>2, <2>3, <2>4, <2>5 DEF JoinsInOrder, Creating
  <2>7. clients' = <<>> /\ boot' = boot /\ stop_thread' = 0 /\ stopper' = stopper
    BY <1>4 DEF RequestAccepted, RequestDeparts
  <2>8. target'[t] = boot /\ \A u \in Callers : Joining(u)' <=> u = t
    BY <1>4, <2>2, <2>6 DEF RequestAccepted, Goto, Joining, TypeOK
  <2>. QED  BY <2>5, <2>7, <2>8 DEF JoinsInOrder, Finished
<1>5. CASE RequestJoinStop(t)
  <2>1. Joining(t) /\ target[t] = boot /\ boot \in Boots /\ stopper[boot] \in Finished
    BY <1>5 DEF RequestJoinStop, Joining, JoinsInOrder
  <2>2. ~Answering(boot)
    BY <2>1 DEF BootInv, StoppersInOrder, Finished, Answering
  <2>3. \A u \in Callers : pc[u] # "start_finish"
    BY <2>1, OneHolder DEF InstanceSteps, Joining
  <2>4. \A u \in Callers : ~Joining(u)'
    BY <1>5, <2>1, OneHolder DEF RequestJoinStop, Return, InstanceSteps, Joining, TypeOK
  <2>5. boot' = boot /\ vm' = vm /\ stop_thread' = stop_thread
    BY <1>5 DEF RequestJoinStop, vmVars, handleVars
  <2>. QED  BY <2>2, <2>3, <2>4, <2>5 DEF JoinsInOrder, Creating, Answering
<1>. QED  BY <1>1, <1>2, <1>3, <1>4, <1>5 DEF RequestStep

(* The steps of a death recipient: it may stop the VM, or ask its guest, never start one. *)
LEMMA DeathKeepsJoins ==
    ASSUME IndInv, JoinsInOrder, NEW c \in Clients,
           DeliverDeath(c) \/ DeathStep(c) \/ ClientDies(c)
    PROVE  JoinsInOrder'
<1>. USE ActorValues DEF IndInv
<1>1. CASE DeliverDeath(c) \/ DeathOfLast(c) \/ DeathLockState(c)
  BY <1>1, GotoSameCalls, UndisturbedKeeps, WithoutOfEmpty
  DEF DeliverDeath, DeathOfLast, DeathLockState, SameVm, SameList, vmVars, handleVars,
      clientVars, Answering
<1>2. CASE DeathLeavesOthers(c)
  BY <1>2, ReturnSameCalls, UndisturbedKeeps, WithoutOfEmpty
  DEF DeathLeavesOthers, SameVm, SameList, vmVars, handleVars, Answering
<1>3. CASE DeathKillsVm(c)
  <2>1. SameCalls /\ SameList
    BY <1>3, ReturnSameCalls, WithoutOfEmpty DEF DeathKillsVm, SameList
  <2>2. SameVm
    BY <1>3 DEF DeathKillsVm, SameVm, handleVars, Kill, Answering, TypeOK
  <2>. QED  BY <2>1, <2>2, UndisturbedKeeps
<1>4. CASE DeathShutsDown(c)
  <2>1. SameCalls /\ SameList
    BY <1>4, ReturnSameCalls DEF DeathShutsDown, SameList, clientVars
  <2>2. SameVm
    BY <1>4 DEF DeathShutsDown, SameVm, handleVars, Halt, Open, Answering, TypeOK
  <2>. QED  BY <2>1, <2>2, UndisturbedKeeps
<1>5. CASE ClientDies(c)
  BY <1>5, UndisturbedKeeps
  DEF ClientDies, SameCalls, SameVm, SameList, vmVars, handleVars, callVars, Joining, Creating,
      Answering
<1>. QED  BY <1>1, <1>2, <1>3, <1>4, <1>5, UserspaceKeepsJoins DEF DeathStep

(* The userspace and monitor threads touch neither the VM nor the calls. *)
LEMMA WorkerKeepsJoins ==
    ASSUME IndInv, JoinsInOrder, NEW w \in Workers, WorkerStep(w) PROVE JoinsInOrder'
<1>1. UNCHANGED <<boot, vm, stopper, stop_thread, pc, target, clients>>
  BY DEF WorkerStep, vmVars, handleVars, callVars, clientVars, ConnectSucceeds, ConnectFails,
     UserspaceGivesUp, StoreClient, ReportReady, MonitorPolls, MonitorChecks,
     MonitorClearsClient, MonitorReportsLost
<1>2. SameCalls /\ SameVm /\ SameList
  BY <1>1 DEF SameCalls, SameVm, SameList, Joining, Creating, Answering
<1>. QED  BY <1>2, UndisturbedKeeps DEF IndInv

(* The stop thread of the newest VM, joined or not, and the guests. *)
LEMMA StopperKeepsJoins ==
    ASSUME IndInv, JoinsInOrder, NEW b \in Boots, StopperStep(b) \/ GuestStep(b)
    PROVE  JoinsInOrder'
<1>. USE DEF IndInv
<1>1. CASE GuestStep(b)
  <2>1. UNCHANGED <<boot, stopper, stop_thread, pc, target, clients>>
    BY <1>1 DEF GuestStep, GuestPowersOff, VmExits, GuestServiceRestarts, vmVars, handleVars,
       callVars, clientVars
  <2>2. SameVm
    BY <1>1, <2>1 DEF GuestStep, GuestPowersOff, VmExits, GuestServiceRestarts, SameVm, vmVars,
       Answering, TypeOK
  <2>3. SameCalls /\ SameList
    BY <2>1 DEF SameCalls, SameList, Joining, Creating
  <2>. QED  BY <2>2, <2>3, UndisturbedKeeps
<1>2. CASE StopperStep(b)
  <2>1. /\ UNCHANGED <<boot, stop_thread, pc, target>>
        /\ clients = <<>> => clients' = <<>>
        /\ \A d \in Boots : Answering(d)' => Answering(d)
    BY <1>2 DEF StopperStep, TakeVirtmgr, DestroyVm, ReportStop, callVars, clientVars,
       handleVars, Answering, TypeOK
  <2>2. ASSUME NEW t \in Callers, Joining(t) PROVE stopper'[boot] # "failed"
    <3>1. clients = <<>> /\ stopper[boot] # "failed" /\ boot \in Boots
      BY <2>2 DEF JoinsInOrder
    <3>2. AllReached
      BY <3>1 DEF AllReached
    <3>3. \E step \in StopperSteps \ {"failed"} : stopper' = [stopper EXCEPT ![b] = step]
      <4>1. CASE TakeVirtmgr(b)
        BY <4>1 DEF TakeVirtmgr, MoveStopper, StopperSteps
      <4>2. CASE DestroyVm(b)
        BY <4>2 DEF DestroyVm, MoveStopper, StopperSteps
      <4>3. CASE ReportStop(b)
        BY <3>2, <4>3 DEF ReportStop, MoveStopper, StopperSteps
      <4>. QED  BY <1>2, <4>1, <4>2, <4>3 DEF StopperStep
    <3>. QED  BY <3>1, <3>3 DEF TypeOK
  <2>3. boot # 0 => boot \in Boots
    BY BoundAssumption DEF TypeOK, Handles, Boots
  <2>. QED  BY <2>1, <2>2, <2>3 DEF JoinsInOrder, Joining, Creating
<1>. QED  BY <1>1, <1>2

(* Every step keeps the three parts, and the first state has them. *)
LEMMA StepKeepsJoins == ASSUME IndInv, JoinInv, Next PROVE JoinsInOrder'
<1>. USE DEF JoinInv
<1>1. ASSUME NEW t \in Callers, NEW c \in Clients, NEW op \in Ops, Begin(t, c, op)
      PROVE JoinsInOrder'
  BY <1>1, ActorValues, UndisturbedKeeps
  DEF IndInv, TypeOK, Begin, Ops, FirstStep, SameCalls, SameVm, SameList, Joining, Creating,
      vmVars, handleVars, clientVars, Answering
<1>2. ASSUME NEW t \in Callers, CallStep(t) PROVE JoinsInOrder'
  BY <1>2, StartKeepsJoins, StopKeepsJoins, UserspaceKeepsJoins, RequestKeepsJoins, ActorValues
  DEF CallStep
<1>3. CASE ServiceRestarts
  BY <1>3, ActorValues DEF ServiceRestarts, JoinsInOrder, Joining, Creating
<1>. QED
  BY <1>1, <1>2, <1>3, DeathKeepsJoins, WorkerKeepsJoins, StopperKeepsJoins DEF Next, Running

(* The three parts hold in every reachable state. *)
LEMMA JoinInvHolds == Spec => []JoinInv
<1>1. Init => JoinInv
  BY ActorValues DEF Init, JoinInv, InstanceHeld, InstanceSteps, UserspaceSteps,
     ConnectionsNamed, NoConnection, JoinsInOrder, Joining, Creating
<1>2. IndInv /\ JoinInv /\ [Next]_vars => JoinInv'
  <2>1. CASE Next
    BY <2>1, StepKeepsInstanceHeld, StepKeepsConnectionsNamed, StepKeepsJoins
    DEF IndInv, JoinInv
  <2>2. CASE UNCHANGED vars
    BY <2>2 DEF vars, JoinInv, InstanceHeld, ConnectionsNamed, JoinsInOrder, Joining, Creating,
       Answering
  <2>. QED  BY <2>1, <2>2
<1>. QED  BY <1>1, <1>2, Invariance, PTL DEF Spec

(* When request_stop joins the stop thread, the VM is down to its last client and the
   thread is that VM's own, whatever other calls, deaths and boots have done meanwhile:
   the join never finds it failed (lines 1142 to 1147). *)
THEOREM JoinedStopsSucceed == Spec => []JoinedStopSucceeds
<1>1. JoinInv => JoinedStopSucceeds
  BY DEF JoinInv, JoinsInOrder, JoinedStopSucceeds, Joining
<1>. QED  BY <1>1, JoinInvHolds, PTL

-----------------------------------------------------------------------------
(* What the registered clients have been told, as long as all of them are alive *)

(* No death recipient is at work before the first death. *)
NoDeathYet == AllAlive => \A c \in Clients : pc[c] = "idle"

(* Nobody joins the list when a client leaves it, and nobody else leaves. *)
LEMMA LeavingKeepsOthers ==
    ASSUME clients \in Seq(Clients), NEW c, clients' = Without(c)
    PROVE  \A d \in Clients : /\ Registered(d)' => Registered(d)
                              /\ d # c /\ Registered(d) => Registered(d)'
<1>1. CASE Registered(c)
  <2>. DEFINE n == Len(clients)
              p == Position(c)
  <2>1. n \in Nat /\ DOMAIN clients = 1..n
    BY LenProperties
  <2>2. /\ p \in 1..n /\ clients[p] = c
        /\ DOMAIN clients' = 1..(n - 1)
        /\ \A i \in 1..(n - 1) : clients'[i] = clients[IF i < p THEN i ELSE i + 1]
    BY <1>1, LeavingShifts
  <2>3. \A i : i \in 1..Len(clients') <=> i \in 1..(n - 1)
    BY <2>2, WithoutType, LenProperties
  <2>. HIDE DEF n, p
  <2>4. ASSUME NEW d \in Clients, Registered(d)' PROVE Registered(d)
    <3>1. PICK i \in 1..(n - 1) : clients'[i] = d
      BY <2>3, <2>4 DEF Registered, Contains
    <3>2. (IF i < p THEN i ELSE i + 1) \in 1..n
      BY <2>1, <2>2
    <3>. QED  BY <2>2, <3>1, <3>2 DEF Registered, Contains, n
  <2>5. ASSUME NEW d \in Clients, d # c, Registered(d) PROVE Registered(d)'
    <3>1. PICK i \in 1..n : clients[i] = d
      BY <2>5 DEF Registered, Contains, n
    <3>2. i # p
      BY <2>2, <2>5, <3>1
    <3>3. PICK j \in 1..(n - 1) : (IF j < p THEN j ELSE j + 1) = i
      <4>1. CASE i < p
        BY <2>1, <2>2, <4>1
      <4>2. CASE i > p
        <5>1. i - 1 \in 1..(n - 1) /\ ~(i - 1 < p) /\ (i - 1) + 1 = i
          BY <2>1, <2>2, <4>2
        <5>. QED  BY <5>1
      <4>. QED  BY <2>1, <2>2, <3>2, <4>1, <4>2
    <3>4. clients'[j] = d
      BY <2>2, <3>1, <3>3
    <3>. QED  BY <2>3, <3>4 DEF Registered, Contains
  <2>. QED  BY <2>4, <2>5
<1>2. CASE ~Registered(c)
  BY <1>2 DEF Without, Registered
<1>. QED  BY <1>1, <1>2

(* A client that joins the list joins those that are on it. *)
LEMMA JoiningKeepsOthers ==
    ASSUME clients \in Seq(Clients), NEW c \in Clients, clients' = Append(clients, c)
    PROVE  \A d \in Clients : Registered(d)' <=> Registered(d) \/ d = c
<1>1. /\ Len(clients') = Len(clients) + 1 /\ Len(clients) \in Nat
      /\ \A i \in 1..Len(clients) : clients'[i] = clients[i]
      /\ clients'[Len(clients) + 1] = c
  BY AppendProperties, LenProperties
<1>2. \A i \in 1..Len(clients') : i \in 1..Len(clients) \/ i = Len(clients) + 1
  BY <1>1
<1>. QED  BY <1>1, <1>2 DEF Registered, Contains

(* The walk over a list of living clients reaches all of them. *)
LEMMA NotifyReachesAll ==
    ASSUME TypeOK, AllAlive
    PROVE  /\ AllReached
           /\ \A s : Notify(s) => \A c \in Clients : Registered(c) => told'[c] = s
<1>1. \A i \in DOMAIN clients : alive[clients[i]]
  BY LenProperties DEF TypeOK, AllAlive
<1>2. \A c \in Clients : Registered(c) => c \in Reached
  <2>. SUFFICES ASSUME NEW i \in 1..Len(clients) PROVE clients[i] \in Reached
    BY DEF Registered, Contains
  <2>1. i \in DOMAIN clients /\ \A k \in 1..i : k \in DOMAIN clients
    BY LenProperties DEF TypeOK
  <2>. QED  BY <1>1, <2>1 DEF Reached
<1>. QED  BY <1>1, <1>2 DEF AllReached, Notify

(* A step that may take clients off the list and tell some the state there is. *)
TellsState ==
    /\ state' = state
    /\ \A c \in Clients : Registered(c)' => Registered(c)
    /\ \A c \in Clients : told'[c] = told[c] \/ told'[c] = state
    /\ \A c \in Clients : MidStart(c) => MidStart(c)' \/ told'[c] = state

(* Such a step keeps the clients in step. *)
LEMMA TellingKeepsInStep ==
    ASSUME ClientsInStep, AllAlive, TellsState PROVE ClientsInStep'
BY DEF ClientsInStep, TellsState

(* A call that goes on or returns leaves the starts of the others where they are. *)
LEMMA OtherStartsStay ==
    ASSUME TypeOK, NEW t \in Actors,
           Return(t) \/ (\E step : Goto(t, step)),
           pc[t] \notin {"start_lock_state", "start_lock_instance"}
    PROVE  \A c \in Clients : MidStart(c) => MidStart(c)'
BY ActorValues DEF TypeOK, MidStart, Return, Goto

(* The steps of start. *)
LEMMA StartKeepsInStep ==
    ASSUME IndInv, ClientsInStep, AllAlive, AllAlive', NEW t \in Callers, StartStep(t)
    PROVE  ClientsInStep'
<1>. USE ActorValues DEF IndInv, clientVars, callVars
<1>1. CASE StartRegister(t)
  <2>1. arg[t] \in Clients /\ alive[arg[t]]
    BY <1>1 DEF StartRegister, BootInv, CallsOwnState, AllAlive
  <2>2. Goto(t, "start_lock_state") /\ state' = state /\ told' = told
    BY <1>1, <2>1 DEF StartRegister
  <2>3. \A c \in Clients : Registered(c)' => Registered(c) \/ c = arg[t]
    BY <1>1, <2>1, JoiningKeepsOthers DEF StartRegister, Registered, TypeOK
  <2>4. \A c \in Clients : c = arg[t] => MidStart(c)'
    BY <2>2 DEF Goto, MidStart, TypeOK
  <2>5. \A c \in Clients : MidStart(c) => MidStart(c)'
    BY <1>1, <2>2, OtherStartsStay DEF StartRegister
  <2>. QED  BY <2>2, <2>3, <2>4, <2>5 DEF ClientsInStep
<1>2. CASE StartLockState(t)
  <2>1. \A c \in Clients : MidStart(c) => MidStart(c)'
    BY <1>2 DEF StartLockState, Goto, MidStart, TypeOK
  <2>. QED  BY <1>2, <2>1, TellingKeepsInStep DEF StartLockState, TellsState, Registered
<1>3. CASE StartReturns(t)
  <2>1. arg[t] \in Clients /\ told'[arg[t]] = state
    BY <1>3 DEF StartReturns, Tell, AllAlive, BootInv, CallsOwnState, TypeOK
  <2>2. \A c \in Clients : c # arg[t] => told'[c] = told[c]
    BY <1>3 DEF StartReturns, Tell, TypeOK
  <2>3. \A c \in Clients : MidStart(c) => MidStart(c)' \/ c = arg[t]
    BY <1>3 DEF StartReturns, Return, MidStart, TypeOK
  <2>. QED
    BY <1>3, <2>1, <2>2, <2>3, TellingKeepsInStep DEF StartReturns, TellsState, Registered
<1>4. CASE StartProceeds(t) \/ StartVmFails(t) \/ StartVmAborts(t) \/ CreateVm(t)
  <2>1. state \in {"Stopped", "Crashed"} /\ state' = state
    BY <1>4 DEF StartProceeds, StartVmFails, StartVmAborts, CreateVm, BootInv, CreationInOrder
  <2>. QED  BY <2>1 DEF ClientsInStep
<1>5. CASE StartFinish(t)
  BY <1>5, NotifyReachesAll DEF StartFinish, ClientsInStep, Registered
<1>. QED  BY <1>1, <1>2, <1>3, <1>4, <1>5 DEF StartStep

(* The steps of stop and request_stop. *)
LEMMA StopsKeepInStep ==
    ASSUME IndInv, JoinInv, ClientsInStep, AllAlive, AllAlive', NEW t \in Callers,
           StopStep(t) \/ UserspaceStep(t) \/ RequestStep(t)
    PROVE  ClientsInStep'
<1>. USE ActorValues DEF IndInv, clientVars
<1>1. CASE StopLockInstance(t) \/ StopJoin(t) \/ UserspaceStep(t) \/ RequestLockInstance(t)
  <2>1. \A c \in Clients : MidStart(c) => MidStart(c)'
    BY <1>1, OtherStartsStay DEF StopLockInstance, StopJoin, UserspaceStep, CheckStarted,
       TakeUserspace, JoinUserspace, RequestLockInstance
  <2>. QED
    BY <1>1, <2>1, TellingKeepsInStep DEF StopLockInstance, StopJoin, UserspaceStep,
       CheckStarted, TakeUserspace, JoinUserspace, RequestLockInstance, TellsState, Registered
<1>2. CASE StopNothingToDo(t) \/ RequestNothingToDo(t)
  <2>1. \A c \in Clients : MidStart(c) => MidStart(c)'
    BY <1>2, OtherStartsStay DEF StopNothingToDo, RequestNothingToDo
  <2>2. \A c \in Clients : told'[c] = told[c] \/ told'[c] = state
    BY <1>2 DEF StopNothingToDo, RequestNothingToDo, Tell, TypeOK
  <2>. QED
    BY <1>2, <2>1, <2>2, TellingKeepsInStep
    DEF StopNothingToDo, RequestNothingToDo, TellsState, Registered
<1>3. CASE StopCannotNotify(t)
  BY <1>3, NotifyReachesAll DEF StopCannotNotify
<1>4. CASE StopKillsVm(t)
  BY <1>4, NotifyReachesAll DEF StopKillsVm, ClientsInStep, Registered
<1>5. CASE RequestLeavesOthers(t) \/ RequestRefused(t) \/ RequestHasNoGuest(t)
  <2>1. clients' = Without(arg[t]) /\ told' = told /\ state' = state
    BY <1>5 DEF RequestLeavesOthers, RequestRefused, RequestHasNoGuest, RequestDeparts
  <2>2. \A c \in Clients : Registered(c)' => Registered(c)
    BY <2>1, LeavingKeepsOthers DEF TypeOK
  <2>3. \A c \in Clients : MidStart(c) => MidStart(c)'
    BY <1>5, OtherStartsStay
    DEF RequestLeavesOthers, RequestRefused, RequestHasNoGuest, RequestDeparts, callVars, MidStart
  <2>. QED  BY <2>1, <2>2, <2>3, TellingKeepsInStep DEF TellsState
<1>6. CASE RequestAccepted(t)
  BY <1>6 DEF RequestAccepted, RequestDeparts, ClientsInStep, Registered, Contains
<1>7. CASE RequestJoinStop(t)
  <2>1. clients' = <<>>
    BY <1>7 DEF RequestJoinStop, JoinInv, JoinsInOrder, Joining
  <2>. QED  BY <2>1 DEF ClientsInStep, Registered, Contains
<1>. QED
  BY <1>1, <1>2, <1>3, <1>4, <1>5, <1>6, <1>7 DEF StopStep, RequestStep

(* The threads of the VMs, the guests and the processes of the clients. *)
LEMMA ThreadsKeepInStep ==
    ASSUME IndInv, NoDeathYet, ClientsInStep, AllAlive, AllAlive',
           \/ \E c \in Clients : DeliverDeath(c) \/ DeathStep(c) \/ ClientDies(c)
           \/ \E w \in Workers : WorkerStep(w)
           \/ \E b \in Boots : StopperStep(b) \/ GuestStep(b)
    PROVE  ClientsInStep'
<1>. USE DEF IndInv, clientVars, callVars
<1>1. ASSUME NEW c \in Clients, DeliverDeath(c) \/ DeathStep(c) \/ ClientDies(c) PROVE FALSE
  BY <1>1 DEF DeliverDeath, DeathStep, UserspaceStep, ClientDies, CheckStarted, TakeUserspace,
     JoinUserspace, DeathLeavesOthers, DeathOfLast, DeathKillsVm, DeathLockState,
     DeathShutsDown, NoDeathYet, AllAlive, TypeOK
<1>2. ASSUME NEW w \in Workers, WorkerStep(w) PROVE ClientsInStep'
  <2>1. CASE ReportReady(w)
    BY <2>1, NotifyReachesAll DEF ReportReady, ClientsInStep, Registered
  <2>2. CASE MonitorReportsLost(w)
    BY <2>2, NotifyReachesAll DEF MonitorReportsLost, ClientsInStep, Registered
  <2>3. CASE UNCHANGED <<state, clients, told, pc, arg>>
    BY <2>3, TellingKeepsInStep DEF TellsState, Registered, MidStart
  <2>. QED
    BY <1>2, <2>1, <2>2, <2>3 DEF WorkerStep, ConnectSucceeds, ConnectFails,
       UserspaceGivesUp, StoreClient, MonitorPolls, MonitorChecks, MonitorClearsClient
<1>3. ASSUME NEW b \in Boots, StopperStep(b) \/ GuestStep(b) PROVE ClientsInStep'
  <2>1. CASE ReportStop(b)
    BY <2>1 DEF ReportStop, ClientsInStep
  <2>2. CASE UNCHANGED <<state, clients, told, pc, arg>>
    BY <2>2, TellingKeepsInStep DEF TellsState, Registered, MidStart
  <2>. QED
    BY <1>3, <2>1, <2>2 DEF StopperStep, TakeVirtmgr, DestroyVm, GuestStep, GuestPowersOff,
       VmExits, GuestServiceRestarts
<1>. QED  BY <1>1, <1>2, <1>3

(* The object ends the process of no client. *)
LEMMA AliveStays ==
    ASSUME \/ \E t \in Callers : CallStep(t)
           \/ \E c \in Clients : DeliverDeath(c) \/ DeathStep(c)
           \/ \E w \in Workers : WorkerStep(w)
           \/ \E b \in Boots : StopperStep(b) \/ GuestStep(b)
    PROVE  alive' = alive
<1>1. ASSUME NEW t \in Callers, CallStep(t) PROVE alive' = alive
  BY <1>1 DEF CallStep, StartStep, StopStep, UserspaceStep, RequestStep, clientVars,
     StartRegister, StartLockState, StartReturns, StartProceeds, StartVmFails, StartVmAborts,
     CreateVm, StartFinish, StopLockInstance, StopNothingToDo, StopCannotNotify, StopKillsVm,
     StopJoin, CheckStarted, TakeUserspace, JoinUserspace, RequestLockInstance,
     RequestNothingToDo, RequestLeavesOthers, RequestHasNoGuest, RequestRefused,
     RequestAccepted, RequestJoinStop
<1>2. ASSUME NEW c \in Clients, DeliverDeath(c) \/ DeathStep(c) PROVE alive' = alive
  BY <1>2 DEF DeliverDeath, DeathStep, UserspaceStep, clientVars, CheckStarted, TakeUserspace,
     JoinUserspace, DeathLeavesOthers, DeathOfLast, DeathKillsVm, DeathLockState, DeathShutsDown
<1>3. ASSUME NEW w \in Workers, WorkerStep(w) PROVE alive' = alive
  BY <1>3 DEF WorkerStep, clientVars, ConnectSucceeds, ConnectFails, UserspaceGivesUp,
     StoreClient, ReportReady, MonitorPolls, MonitorChecks, MonitorClearsClient,
     MonitorReportsLost
<1>4. ASSUME NEW b \in Boots, StopperStep(b) \/ GuestStep(b) PROVE alive' = alive
  BY <1>4 DEF StopperStep, GuestStep, clientVars, TakeVirtmgr, DestroyVm, ReportStop,
     GuestPowersOff, VmExits, GuestServiceRestarts
<1>. QED  BY <1>1, <1>2, <1>3, <1>4

(* A client that has died stays dead, so that clients alive after a step were before it. *)
LEMMA DeadStayDead == ASSUME TypeOK, Next, AllAlive' PROVE AllAlive
<1>1. \A c \in Clients : ~ClientDies(c)
  BY DEF ClientDies, AllAlive, TypeOK
<1>2. alive' = alive
  BY <1>1, AliveStays DEF Next, Running, ServiceRestarts, Begin, clientVars
<1>. QED  BY <1>2 DEF AllAlive

(* Only a death sets a recipient going. *)
LEMMA StepKeepsNoDeathYet == ASSUME IndInv, NoDeathYet, Next, AllAlive' PROVE NoDeathYet'
<1>. USE ActorsAssumption, ActorValues DEF IndInv, TypeOK
<1>1. AllAlive /\ \A c \in Clients : pc[c] = "idle"
  BY DeadStayDead DEF NoDeathYet
<1>2. ASSUME NEW t \in Callers, CallStep(t) PROVE \A c \in Clients : pc'[c] = pc[c]
  BY <1>2 DEF CallStep, StartStep, StopStep, UserspaceStep, RequestStep, callVars, Goto, Return,
     StartRegister, StartLockState, StartReturns, StartProceeds, StartVmFails, StartVmAborts,
     CreateVm, StartFinish, StopLockInstance, StopNothingToDo, StopCannotNotify, StopKillsVm,
     StopJoin, CheckStarted, TakeUserspace, JoinUserspace, RequestLockInstance,
     RequestNothingToDo, RequestLeavesOthers, RequestHasNoGuest, RequestRefused,
     RequestAccepted, RequestJoinStop
<1>3. ASSUME NEW c \in Clients PROVE ~DeliverDeath(c) /\ ~DeathStep(c)
  BY <1>1 DEF DeliverDeath, DeathStep, UserspaceStep, CheckStarted, TakeUserspace,
     JoinUserspace, DeathLeavesOthers, DeathOfLast, DeathKillsVm, DeathLockState,
     DeathShutsDown, AllAlive
<1>4. ASSUME NEW w \in Workers, WorkerStep(w) PROVE pc' = pc
  BY <1>4 DEF WorkerStep, callVars, ConnectSucceeds, ConnectFails, UserspaceGivesUp,
     StoreClient, ReportReady, MonitorPolls, MonitorChecks, MonitorClearsClient,
     MonitorReportsLost
<1>5. ASSUME NEW b \in Boots, StopperStep(b) \/ GuestStep(b) PROVE pc' = pc
  BY <1>5 DEF StopperStep, GuestStep, callVars, TakeVirtmgr, DestroyVm, ReportStop,
     GuestPowersOff, VmExits, GuestServiceRestarts
<1>6. ASSUME NEW t \in Callers, NEW c \in Clients, NEW op \in Ops, Begin(t, c, op)
      PROVE \A d \in Clients : pc'[d] = pc[d]
  BY <1>6 DEF Begin
<1>7. ASSUME NEW c \in Clients, ClientDies(c) PROVE pc' = pc
  BY <1>7 DEF ClientDies, callVars
<1>8. CASE ServiceRestarts
  BY <1>8 DEF ServiceRestarts, NoDeathYet
<1>. QED
  BY <1>1, <1>2, <1>3, <1>4, <1>5, <1>6, <1>7, <1>8 DEF Next, Running, NoDeathYet

(* Every registered client knows the state, for as long as none has died: the notifications
   of the threads, taken under main_state, and the answers of the calls leave nobody out. *)
LEMMA InStepHolds == Spec => [](NoDeathYet /\ ClientsInStep)
<1>1. Init => NoDeathYet /\ ClientsInStep
  BY ActorValues DEF Init, NoDeathYet, ClientsInStep
<1>2. IndInv /\ JoinInv /\ NoDeathYet /\ ClientsInStep /\ [Next]_vars
        => (NoDeathYet /\ ClientsInStep)'
  <2>1. ASSUME IndInv, JoinInv, NoDeathYet, ClientsInStep, Next, AllAlive'
        PROVE  NoDeathYet' /\ ClientsInStep'
    <3>1. AllAlive
      BY <2>1, DeadStayDead DEF IndInv
    <3>2. NoDeathYet'
      BY <2>1, StepKeepsNoDeathYet
    <3>3. ASSUME NEW t \in Callers, NEW c \in Clients, NEW op \in Ops, Begin(t, c, op)
          PROVE ClientsInStep'
      <4>1. UNCHANGED <<state, clients, told>> /\ \A d \in Clients : MidStart(d) => MidStart(d)'
        BY <3>3, ActorValues DEF Begin, clientVars, MidStart, IndInv, TypeOK
      <4>. QED  BY <2>1, <3>1, <4>1, TellingKeepsInStep DEF TellsState, Registered
    <3>4. ASSUME NEW t \in Callers, CallStep(t) PROVE ClientsInStep'
      BY <2>1, <3>1, <3>4, StartKeepsInStep, StopsKeepInStep DEF CallStep
    <3>5. ASSUME ServiceRestarts PROVE ClientsInStep'
      BY <3>5 DEF ServiceRestarts, ClientsInStep
    <3>. QED  BY <2>1, <3>1, <3>2, <3>3, <3>4, <3>5, ThreadsKeepInStep DEF Next, Running
  <2>2. ~AllAlive' => NoDeathYet' /\ ClientsInStep'
    BY DEF NoDeathYet, ClientsInStep
  <2>3. ASSUME NoDeathYet, ClientsInStep, UNCHANGED vars PROVE NoDeathYet' /\ ClientsInStep'
    BY <2>3 DEF vars, NoDeathYet, ClientsInStep, AllAlive, Registered, MidStart
  <2>. QED  BY <2>1, <2>2, <2>3
<1>. QED  BY <1>1, <1>2, Invariance, JoinInvHolds, PTL DEF Spec

(* The same as a property of its own (notify_clients and notify_client, from line 920). *)
THEOREM ClientsKnowTheState == Spec => []ClientsInStep
BY InStepHolds, PTL
=============================================================================
