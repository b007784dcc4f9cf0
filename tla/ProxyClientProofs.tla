-------------------------- MODULE ProxyClientProofs --------------------------
(***************************************************************************)
(* Theorems of the proxy client, for any VMs, values of the stop property  *)
(* and faults: RUNNING_VMS against the VMs of the manager.                 *)
(***************************************************************************)
EXTENDS ProxyClient, TLAPS

(* Every step keeps the types. *)
LEMMA TypeStep == ASSUME TypeOK, ChangesInOrder, Next PROVE TypeOK'
<1>. USE ProxyAssumption DEF TypeOK, Processes, MainSteps, StarterSteps, StopSteps, States,
             Ended, Changes, Connections, OtherStartSteps, OtherStopSteps, RecipientSteps,
             stateVars, listVars, otherVars
<1>1. ASSUME NEW v \in Vms, SetUp(v) PROVE TypeOK'
  BY <1>1 DEF SetUp, callbackVars, monitorVars, deviceVars, vmVars
<1>2. ASSUME StartMonitor PROVE TypeOK'
  BY <1>2 DEF StartMonitor, proxyVars, callbackVars, deviceVars, vmVars
<1>3. ASSUME SeeSameValue PROVE TypeOK'
  BY <1>3 DEF SeeSameValue, SeeChange, proxyVars, callbackVars, deviceVars, vmVars
<1>4. ASSUME StopVms PROVE TypeOK'
  <2>1. handled + 1 \in Changes /\ handled + 1 \in 0..writes
    BY <1>4 DEF StopVms, SeeChange, ChangesInOrder
  <2>2. stop_thread' \in [Changes -> [Vms -> StopSteps]]
    <3>1. [v \in Vms |-> IF v \in Names(property) THEN "spawned" ELSE "none"]
             \in [Vms -> StopSteps]
      OBVIOUS
    <3>. QED  BY <1>4, <2>1, <3>1 DEF StopVms
  <2>3. main' \in MainSteps
    BY <1>4 DEF StopVms
  <2>. QED  BY <1>4, <2>1, <2>2, <2>3 DEF StopVms, SeeChange, callbackVars, deviceVars, vmVars
<1>5. ASSUME ExitAfterAll PROVE TypeOK'
  BY <1>5 DEF ExitAfterAll, proxyVars, monitorVars, deviceVars, vmVars
<1>6. ASSUME NEW v \in Vms, SeeBootCompleted(v) PROVE TypeOK'
  BY <1>6 DEF SeeBootCompleted, MoveStarter, callbackVars, monitorVars, deviceVars,
    vmVars
<1>7. ASSUME NEW v \in Vms, BootWaitTimesOut(v) PROVE TypeOK'
  BY <1>7 DEF BootWaitTimesOut, MoveStarter, callbackVars, monitorVars, deviceVars,
    vmVars
<1>8. ASSUME NEW v \in Vms, StartRegisters(v) PROVE TypeOK'
  BY <1>8 DEF StartRegisters, MoveStarter, InstanceFree, callbackVars, monitorVars,
    deviceVars
<1>9. ASSUME NEW v \in Vms, StartTakesState(v) PROVE TypeOK'
  BY <1>9 DEF StartTakesState, MoveStarter, callbackVars, monitorVars, deviceVars,
    vmVars
<1>10. ASSUME NEW v \in Vms, StartBootsVm(v) PROVE TypeOK'
  BY <1>10 DEF StartBootsVm, MoveStarter, Told, InstanceFree, callbackVars, monitorVars,
    deviceVars, vmVars
<1>11. ASSUME NEW v \in Vms, StartTellsStarting(v) PROVE TypeOK'
  BY <1>11 DEF StartTellsStarting, MoveStarter, Boots, Notified, Told, callbackVars,
    monitorVars, deviceVars
<1>12. ASSUME NEW v \in Vms, StartFindsVm(v) PROVE TypeOK'
  BY <1>12 DEF StartFindsVm, MoveStarter, Told, InstanceFree, monitorVars, deviceVars,
    vmVars
<1>13. ASSUME NEW v \in Vms, StartFails(v) PROVE TypeOK'
  BY <1>13 DEF StartFails, MoveStarter, callbackVars, monitorVars, deviceVars, vmVars
<1>14. ASSUME NEW k \in Changes, NEW v \in Vms, LookUp(k, v) PROVE TypeOK'
  BY <1>14 DEF LookUp, MoveStop, callbackVars, monitorVars, deviceVars, vmVars
<1>15. ASSUME NEW k \in Changes, NEW v \in Vms, RequestFindsClient(k, v) PROVE TypeOK'
  BY <1>15 DEF RequestFindsClient, MoveStop, callbackVars, monitorVars, deviceVars,
    vmVars
<1>16. ASSUME NEW k \in Changes, NEW v \in Vms, RequestErrs(k, v) PROVE TypeOK'
  BY <1>16 DEF RequestErrs, MoveStop, callbackVars, monitorVars, deviceVars, vmVars
<1>17. ASSUME NEW k \in Changes, NEW v \in Vms, RequestTellsState(k, v) PROVE TypeOK'
  BY <1>17 DEF RequestTellsState, MoveStop, Told, monitorVars, deviceVars, vmVars
<1>18. ASSUME NEW k \in Changes, NEW v \in Vms, RequestDeparts(k, v) PROVE TypeOK'
  BY <1>18 DEF RequestDeparts, MoveStop, RequestLeaves, callbackVars, monitorVars,
    deviceVars
<1>19. ASSUME NEW k \in Changes, NEW v \in Vms, RequestShutsDown(k, v) PROVE TypeOK'
  BY <1>19 DEF RequestShutsDown, MoveStop, RequestLeaves, callbackVars, monitorVars,
    deviceVars
<1>20. ASSUME NEW k \in Changes, NEW v \in Vms, RequestTellsStopped(k, v) PROVE TypeOK'
  BY <1>20 DEF RequestTellsStopped, MoveStop, Told, monitorVars, deviceVars, vmVars
<1>21. ASSUME NEW k \in Changes, NEW v \in Vms, RequestFails(k, v) PROVE TypeOK'
  BY <1>21 DEF RequestFails, callbackVars, monitorVars, deviceVars, vmVars
<1>22. ASSUME NEW k \in Changes, NEW v \in Vms, Forget(k, v) PROVE TypeOK'
  BY <1>22 DEF Forget, MoveStop, callbackVars, monitorVars, deviceVars, vmVars
<1>23. ASSUME CompleteBoot PROVE TypeOK'
  BY <1>23 DEF CompleteBoot, proxyVars, callbackVars, monitorVars, vmVars
<1>24. ASSUME NEW value \in StopValues, WriteStopProperty(value) PROVE TypeOK'
  BY <1>24 DEF WriteStopProperty, proxyVars, callbackVars, vmVars
<1>25. ASSUME NEW v \in Vms, UserspaceComes(v) PROVE TypeOK'
  BY <1>25 DEF UserspaceComes, MoveVm, Notified, Told, callbackVars, proxyVars,
    monitorVars, deviceVars
<1>26. ASSUME NEW v \in Vms, UserspaceFails(v) PROVE TypeOK'
  BY <1>26 DEF UserspaceFails, proxyVars, callbackVars, monitorVars, deviceVars
<1>27. ASSUME NEW v \in Vms, UserspaceIsLost(v) PROVE TypeOK'
  BY <1>27 DEF UserspaceIsLost, MoveVm, Notified, Told, callbackVars, proxyVars,
    monitorVars, deviceVars
<1>28. ASSUME NEW v \in Vms, EndVm(v) PROVE TypeOK'
  <2>1. PICK from \in States, to \in Ended : MoveVm(v, from, to)
    BY <1>28 DEF EndVm
  <2>2. state' \in [Vms -> States] /\ running' \subseteq Vms /\ process' \in Processes
    BY <2>1 DEF MoveVm, Notified, Told, callbackVars
  <2>3. CASE others[v] \subseteq alive
    <3>1. registered' \subseteq Vms /\ left' \subseteq Vms
      BY <1>28, <2>3 DEF EndVm, ClearList
    <3>2. others' = [others EXCEPT ![v] = {}] /\ ahead' = [ahead EXCEPT ![v] = {}]
      BY <1>28, <2>3 DEF EndVm, ClearList
    <3>3. others' \in [Vms -> SUBSET Others] /\ ahead' \in [Vms -> SUBSET Others]
      BY <3>2
    <3>. QED  BY <1>28, <2>2, <3>1, <3>3 DEF EndVm, proxyVars, monitorVars, deviceVars
  <2>4. CASE ~(others[v] \subseteq alive)
    BY <1>28, <2>2, <2>4 DEF EndVm, ClearList, proxyVars, monitorVars, deviceVars
  <2>. QED  BY <2>3, <2>4
<1>29. ASSUME NEW v \in Vms, OtherRegisters(v) PROVE TypeOK'
  BY <1>29 DEF OtherRegisters, MoveOther, proxyVars, callbackVars, monitorVars,
    deviceVars
<1>30. ASSUME NEW v \in Vms, OtherTakesState(v) PROVE TypeOK'
  BY <1>30 DEF OtherTakesState, MoveOther, proxyVars, callbackVars, monitorVars,
    deviceVars
<1>31. ASSUME NEW v \in Vms, OtherDecides(v) PROVE TypeOK'
  BY <1>31 DEF OtherDecides, MoveOther, proxyVars, callbackVars, monitorVars, deviceVars
<1>32. ASSUME NEW v \in Vms, OtherBoots(v) PROVE TypeOK'
  BY <1>32 DEF OtherBoots, MoveOther, Boots, Notified, Told, proxyVars, callbackVars,
    monitorVars, deviceVars
<1>33. ASSUME NEW v \in Vms, OtherStops(v) PROVE TypeOK'
  BY <1>33 DEF OtherStops, MoveOther, proxyVars, callbackVars, monitorVars, deviceVars
<1>34. ASSUME NEW v \in Vms, OtherLeaves(v) PROVE TypeOK'
  BY <1>34 DEF OtherLeaves, MoveOther, Without, proxyVars, callbackVars, monitorVars,
    deviceVars
<1>35. ASSUME NEW v \in Vms, OtherKills(v) PROVE TypeOK'
  BY <1>35 DEF OtherKills, MoveOther, Notified, Told, proxyVars, callbackVars,
    monitorVars, deviceVars
<1>36. ASSUME NEW v \in Vms, OtherReturns(v) PROVE TypeOK'
  BY <1>36 DEF OtherReturns, MoveOther, proxyVars, callbackVars, monitorVars, deviceVars
<1>37. ASSUME NEW c \in Others, OtherDies(c) PROVE TypeOK'
  BY <1>37 DEF OtherDies, proxyVars, callbackVars, monitorVars, deviceVars
<1>38. ASSUME NEW c \in Others, NEW v \in Vms, DeathReported(c, v) PROVE TypeOK'
  BY <1>38 DEF DeathReported, MoveOther, Without, proxyVars, callbackVars, monitorVars,
    deviceVars
<1>39. ASSUME NEW v \in Vms, RecipientTakesState(v) PROVE TypeOK'
  BY <1>39 DEF RecipientTakesState, MoveOther, proxyVars, callbackVars, monitorVars,
    deviceVars
<1>40. ASSUME NEW v \in Vms, RecipientAsksGuest(v) PROVE TypeOK'
  BY <1>40 DEF RecipientAsksGuest, MoveOther, proxyVars, callbackVars, monitorVars,
    deviceVars
<1>41. ASSUME ManagerDies PROVE TypeOK'
  BY <1>41 DEF ManagerDies, proxyVars, callbackVars, monitorVars, deviceVars
<1>. QED
  <2>1. ASSUME MainStep PROVE TypeOK'
    BY <2>1, <1>1, <1>2, <1>3, <1>4, <1>5 DEF MainStep
  <2>2. ASSUME NEW v \in Vms, StarterStep(v) PROVE TypeOK'
    BY <2>2, <1>6, <1>7, <1>8, <1>9, <1>10, <1>11, <1>12, <1>13 DEF StarterStep
  <2>3. ASSUME NEW k \in Changes, NEW v \in Vms, StopThreadStep(k, v) PROVE TypeOK'
    BY <2>3, <1>14, <1>15, <1>16, <1>17, <1>18, <1>19, <1>20, <1>21, <1>22 DEF
      StopThreadStep
  <2>4. ASSUME DeviceStep PROVE TypeOK'
    BY <2>4, <1>23, <1>24 DEF DeviceStep
  <2>5. ASSUME NEW v \in Vms, VmStep(v) PROVE TypeOK'
    BY <2>5, <1>25, <1>26, <1>27, <1>28 DEF VmStep, ConnectStep
  <2>6. ASSUME NEW v \in Vms, OtherStep(v) PROVE TypeOK'
    BY <2>6, <1>29, <1>30, <1>31, <1>32, <1>33, <1>34, <1>35, <1>36, <1>38, <1>39, <1>40
      DEF OtherStep, OtherStartStep, OtherStopStep, RecipientStep
  <2>. QED
    BY <2>1, <2>2, <2>3, <2>4, <2>5, <2>6, <1>37, <1>41 DEF Next

(* The inductive invariant: what the proxy believes to run, with the order in which it
   starts VMs and acts on the stop property. *)
IndInv == TypeOK /\ ProxyInv /\ StartedIsRunning /\ RunningHasNotEnded

(* Every step keeps the invariant. *)
LEMMA InvStep == ASSUME IndInv, TypeOK', Next PROVE IndInv'
<1>. USE ProxyAssumption DEF IndInv, TypeOK, ProxyInv, SetUpOnce, ChangesInOrder,
             DeadHasNoList, AheadOnList, StartKeepsList, LeftEarly, StartedIsRunning,
             RunningHasNotEnded, AllAlive, Ended, Changes,
             stateVars, listVars, otherVars
<1>1. ASSUME NEW v \in Vms, SetUp(v) PROVE IndInv'
  BY <1>1 DEF SetUp, callbackVars, monitorVars, deviceVars, vmVars
<1>2. ASSUME StartMonitor PROVE IndInv'
  BY <1>2 DEF StartMonitor, proxyVars, callbackVars, deviceVars, vmVars
<1>3. ASSUME SeeSameValue PROVE IndInv'
  BY <1>3 DEF SeeSameValue, SeeChange, proxyVars, callbackVars, deviceVars, vmVars
<1>4. ASSUME StopVms PROVE IndInv'
  BY <1>4 DEF StopVms, SeeChange, Names, callbackVars, deviceVars, vmVars
<1>5. ASSUME ExitAfterAll PROVE IndInv'
  BY <1>5 DEF ExitAfterAll, proxyVars, monitorVars, deviceVars, vmVars
<1>6. ASSUME NEW v \in Vms, SeeBootCompleted(v) PROVE IndInv'
  BY <1>6 DEF SeeBootCompleted, MoveStarter, callbackVars, monitorVars, deviceVars,
    vmVars
<1>7. ASSUME NEW v \in Vms, BootWaitTimesOut(v) PROVE IndInv'
  BY <1>7 DEF BootWaitTimesOut, MoveStarter, callbackVars, monitorVars, deviceVars,
    vmVars
<1>8. ASSUME NEW v \in Vms, StartRegisters(v) PROVE IndInv'
  BY <1>8 DEF StartRegisters, MoveStarter, InstanceFree, callbackVars, monitorVars,
    deviceVars
<1>9. ASSUME NEW v \in Vms, StartTakesState(v) PROVE IndInv'
  BY <1>9 DEF StartTakesState, MoveStarter, callbackVars, monitorVars, deviceVars,
    vmVars
<1>10. ASSUME NEW v \in Vms, StartBootsVm(v) PROVE IndInv'
  BY <1>10 DEF StartBootsVm, MoveStarter, Told, InstanceFree, callbackVars, monitorVars,
    deviceVars, vmVars
<1>11. ASSUME NEW v \in Vms, StartTellsStarting(v) PROVE IndInv'
  BY <1>11 DEF StartTellsStarting, MoveStarter, Boots, Notified, Told, callbackVars,
    monitorVars, deviceVars
<1>12. ASSUME NEW v \in Vms, StartFindsVm(v) PROVE IndInv'
  BY <1>12 DEF StartFindsVm, MoveStarter, Told, InstanceFree, monitorVars, deviceVars,
    vmVars
<1>13. ASSUME NEW v \in Vms, StartFails(v) PROVE IndInv'
  BY <1>13 DEF StartFails, MoveStarter, callbackVars, monitorVars, deviceVars, vmVars
<1>14. ASSUME NEW k \in Changes, NEW v \in Vms, LookUp(k, v) PROVE IndInv'
  BY <1>14 DEF LookUp, MoveStop, callbackVars, monitorVars, deviceVars, vmVars
<1>15. ASSUME NEW k \in Changes, NEW v \in Vms, RequestFindsClient(k, v) PROVE IndInv'
  BY <1>15 DEF RequestFindsClient, MoveStop, callbackVars, monitorVars, deviceVars,
    vmVars
<1>16. ASSUME NEW k \in Changes, NEW v \in Vms, RequestErrs(k, v) PROVE IndInv'
  BY <1>16 DEF RequestErrs, MoveStop, callbackVars, monitorVars, deviceVars, vmVars
<1>17. ASSUME NEW k \in Changes, NEW v \in Vms, RequestTellsState(k, v) PROVE IndInv'
  BY <1>17 DEF RequestTellsState, MoveStop, Told, monitorVars, deviceVars, vmVars
<1>18. ASSUME NEW k \in Changes, NEW v \in Vms, RequestDeparts(k, v) PROVE IndInv'
  BY <1>18 DEF RequestDeparts, MoveStop, RequestLeaves, callbackVars, monitorVars,
    deviceVars
<1>19. ASSUME NEW k \in Changes, NEW v \in Vms, RequestShutsDown(k, v) PROVE IndInv'
  BY <1>19 DEF RequestShutsDown, MoveStop, RequestLeaves, callbackVars, monitorVars,
    deviceVars
<1>20. ASSUME NEW k \in Changes, NEW v \in Vms, RequestTellsStopped(k, v) PROVE IndInv'
  BY <1>20 DEF RequestTellsStopped, MoveStop, Told, monitorVars, deviceVars, vmVars
<1>21. ASSUME NEW k \in Changes, NEW v \in Vms, RequestFails(k, v) PROVE IndInv'
  BY <1>21 DEF RequestFails, callbackVars, monitorVars, deviceVars, vmVars
<1>22. ASSUME NEW k \in Changes, NEW v \in Vms, Forget(k, v) PROVE IndInv'
  BY <1>22 DEF Forget, MoveStop, callbackVars, monitorVars, deviceVars, vmVars
<1>23. ASSUME CompleteBoot PROVE IndInv'
  BY <1>23 DEF CompleteBoot, proxyVars, callbackVars, monitorVars, vmVars
<1>24. ASSUME NEW value \in StopValues, WriteStopProperty(value) PROVE IndInv'
  BY <1>24 DEF WriteStopProperty, proxyVars, callbackVars, vmVars
<1>25. ASSUME NEW v \in Vms, UserspaceComes(v) PROVE IndInv'
  BY <1>25 DEF UserspaceComes, MoveVm, Notified, Told, callbackVars, proxyVars,
    monitorVars, deviceVars
<1>26. ASSUME NEW v \in Vms, UserspaceFails(v) PROVE IndInv'
  BY <1>26 DEF UserspaceFails, proxyVars, callbackVars, monitorVars, deviceVars
<1>27. ASSUME NEW v \in Vms, UserspaceIsLost(v) PROVE IndInv'
  BY <1>27 DEF UserspaceIsLost, MoveVm, Notified, Told, callbackVars, proxyVars,
    monitorVars, deviceVars
<1>28. ASSUME NEW v \in Vms, EndVm(v) PROVE IndInv'
  <2>1. PICK from \in States, to \in Ended : MoveVm(v, from, to)
    BY <1>28 DEF EndVm, States
  <2>2. /\ starter[v] # "deciding"
        /\ state'[v] \in Ended /\ \A u \in Vms \ {v} : state'[u] = state[u]
        /\ running' \subseteq running
        /\ v \in registered /\ ahead[v] \subseteq alive => v \notin running'
        /\ \A u \in running : u # v => u \in running'
    BY <2>1 DEF MoveVm, StateFree, Notified, Told, callbackVars
  <2>3. /\ manager /\ manager' = manager /\ alive' = alive
        /\ UNCHANGED <<todo, starter, stop_thread, handled, writes, changed>>
    BY <1>28, <2>1 DEF EndVm, MoveVm, StateFree, proxyVars, monitorVars, deviceVars
  <2>4. SetUpOnce' /\ ChangesInOrder' /\ DeadHasNoList'
    BY <2>3
  <2>5. CASE others[v] \subseteq alive
    <3>1. /\ registered' = registered \ {v} /\ ahead[v] \subseteq alive
          /\ left \subseteq left' /\ (starter[v] = "registered" => v \in left')
      BY <1>28, <2>5 DEF EndVm, ClearList
    <3>2. AheadOnList'
      BY <1>28, <2>5 DEF EndVm, ClearList
    <3>3. StartKeepsList' /\ LeftEarly'
      BY <2>2, <2>3, <3>1
    <3>4. StartedIsRunning' /\ RunningHasNotEnded'
      BY <2>2, <2>3, <3>1
    <3>. QED  BY <2>4, <3>2, <3>3, <3>4
  <2>6. CASE ~(others[v] \subseteq alive)
    <3>1. UNCHANGED <<registered, others, ahead, left>> /\ alive # Others
      BY <1>28, <2>6 DEF EndVm, ClearList
    <3>2. AheadOnList' /\ StartKeepsList' /\ LeftEarly'
      BY <2>2, <2>3, <3>1
    <3>3. StartedIsRunning' /\ RunningHasNotEnded'
      BY <2>3, <3>1
    <3>. QED  BY <2>4, <3>2, <3>3
  <2>. QED  BY <2>5, <2>6
<1>29. ASSUME NEW v \in Vms, OtherRegisters(v) PROVE IndInv'
  BY <1>29 DEF OtherRegisters, MoveOther, proxyVars, callbackVars, monitorVars,
    deviceVars
<1>30. ASSUME NEW v \in Vms, OtherTakesState(v) PROVE IndInv'
  BY <1>30 DEF OtherTakesState, MoveOther, proxyVars, callbackVars, monitorVars,
    deviceVars
<1>31. ASSUME NEW v \in Vms, OtherDecides(v) PROVE IndInv'
  BY <1>31 DEF OtherDecides, MoveOther, proxyVars, callbackVars, monitorVars, deviceVars
<1>32. ASSUME NEW v \in Vms, OtherBoots(v) PROVE IndInv'
  BY <1>32 DEF OtherBoots, MoveOther, Boots, Notified, Told, proxyVars, callbackVars,
    monitorVars, deviceVars
<1>33. ASSUME NEW v \in Vms, OtherStops(v) PROVE IndInv'
  BY <1>33 DEF OtherStops, MoveOther, proxyVars, callbackVars, monitorVars, deviceVars
<1>34. ASSUME NEW v \in Vms, OtherLeaves(v) PROVE IndInv'
  BY <1>34 DEF OtherLeaves, MoveOther, Without, proxyVars, callbackVars, monitorVars,
    deviceVars
<1>35. ASSUME NEW v \in Vms, OtherKills(v) PROVE IndInv'
  BY <1>35 DEF OtherKills, MoveOther, Notified, Told, proxyVars, callbackVars,
    monitorVars, deviceVars
<1>36. ASSUME NEW v \in Vms, OtherReturns(v) PROVE IndInv'
  BY <1>36 DEF OtherReturns, MoveOther, proxyVars, callbackVars, monitorVars, deviceVars
<1>37. ASSUME NEW c \in Others, OtherDies(c) PROVE IndInv'
  BY <1>37 DEF OtherDies, proxyVars, callbackVars, monitorVars, deviceVars
<1>38. ASSUME NEW c \in Others, NEW v \in Vms, DeathReported(c, v) PROVE IndInv'
  BY <1>38 DEF DeathReported, MoveOther, Without, proxyVars, callbackVars, monitorVars,
    deviceVars
<1>39. ASSUME NEW v \in Vms, RecipientTakesState(v) PROVE IndInv'
  BY <1>39 DEF RecipientTakesState, MoveOther, proxyVars, callbackVars, monitorVars,
    deviceVars
<1>40. ASSUME NEW v \in Vms, RecipientAsksGuest(v) PROVE IndInv'
  BY <1>40 DEF RecipientAsksGuest, MoveOther, proxyVars, callbackVars, monitorVars,
    deviceVars
<1>41. ASSUME ManagerDies PROVE IndInv'
  BY <1>41 DEF ManagerDies, proxyVars, callbackVars, monitorVars, deviceVars
<1>. QED
  <2>1. ASSUME MainStep PROVE IndInv'
    BY <2>1, <1>1, <1>2, <1>3, <1>4, <1>5 DEF MainStep
  <2>2. ASSUME NEW v \in Vms, StarterStep(v) PROVE IndInv'
    BY <2>2, <1>6, <1>7, <1>8, <1>9, <1>10, <1>11, <1>12, <1>13 DEF StarterStep
  <2>3. ASSUME NEW k \in Changes, NEW v \in Vms, StopThreadStep(k, v) PROVE IndInv'
    BY <2>3, <1>14, <1>15, <1>16, <1>17, <1>18, <1>19, <1>20, <1>21, <1>22 DEF
      StopThreadStep
  <2>4. ASSUME DeviceStep PROVE IndInv'
    BY <2>4, <1>23, <1>24 DEF DeviceStep
  <2>5. ASSUME NEW v \in Vms, VmStep(v) PROVE IndInv'
    BY <2>5, <1>25, <1>26, <1>27, <1>28 DEF VmStep, ConnectStep
  <2>6. ASSUME NEW v \in Vms, OtherStep(v) PROVE IndInv'
    BY <2>6, <1>29, <1>30, <1>31, <1>32, <1>33, <1>34, <1>35, <1>36, <1>38, <1>39, <1>40
      DEF OtherStep, OtherStartStep, OtherStopStep, RecipientStep
  <2>. QED
    BY <2>1, <2>2, <2>3, <2>4, <2>5, <2>6, <1>37, <1>41 DEF Next

(* It holds when the proxy has just been started. *)
LEMMA InitHolds == Init => IndInv
<1>. SUFFICES ASSUME Init PROVE IndInv
  OBVIOUS
<1>1. TypeOK
  <2>1. /\ todo \subseteq Autostart /\ instances \subseteq Autostart
        /\ running \subseteq Vms /\ registered \subseteq Vms /\ left \subseteq Vms
        /\ alive \subseteq Others
    BY DEF Init
  <2>2. /\ starter \in [Vms -> StarterSteps] /\ state \in [Vms -> States]
        /\ stop_thread \in [Changes -> [Vms -> StopSteps]]
        /\ connection \in [Vms -> Connections] /\ recipient \in [Vms -> RecipientSteps]
        /\ others \in [Vms -> SUBSET Others] /\ ahead \in [Vms -> SUBSET Others]
        /\ other_start \in [Vms -> OtherStartSteps] /\ other_stop \in [Vms -> OtherStopSteps]
    BY DEF Init, StarterSteps, StopSteps, States, Connections, RecipientSteps,
       OtherStartSteps, OtherStopSteps
  <2>3. handled \in 0..writes /\ writes \in 0..MaxWrites
    BY ProxyAssumption DEF Init
  <2>. QED  BY <2>1, <2>2, <2>3 DEF Init, TypeOK, Processes, MainSteps
<1>2. ProxyInv
  BY ProxyAssumption DEF Init, ProxyInv, SetUpOnce, ChangesInOrder, DeadHasNoList,
     AheadOnList, StartKeepsList, LeftEarly
<1>3. StartedIsRunning /\ RunningHasNotEnded
  BY DEF Init, StartedIsRunning, RunningHasNotEnded
<1>. QED  BY <1>1, <1>2, <1>3 DEF IndInv

(* A step of no thread keeps it. *)
LEMMA StutterHolds == IndInv /\ UNCHANGED vars => IndInv'
BY DEF IndInv, TypeOK, ProxyInv, SetUpOnce, ChangesInOrder, DeadHasNoList, AheadOnList,
       StartKeepsList, LeftEarly,
       StartedIsRunning, RunningHasNotEnded, AllAlive, vars, proxyVars, callbackVars,
       monitorVars, deviceVars, vmVars, stateVars, listVars, otherVars

(* The invariant holds in every reachable state. *)
THEOREM Invariance == Spec => []IndInv
<1>1. IndInv /\ Next => IndInv'
  BY TypeStep, InvStep DEF IndInv, ProxyInv
<1>2. IndInv /\ [Next]_vars => IndInv'
  BY <1>1, StutterHolds
<1>. QED  BY <1>2, InitHolds, PTL DEF Spec

(* Every variable keeps to its type, with any VMs, other clients and number of writes. *)
THEOREM TypeCorrect == Spec => []TypeOK
<1>1. IndInv => TypeOK
  BY DEF IndInv
<1>. QED  BY <1>1, Invariance, PTL

(* While no other client has died, no order of starts, requests and losses leaves a VM
   that has started outside RUNNING_VMS of a proxy on its list. *)
THEOREM StartedVmsAreRunning == Spec => []StartedIsRunning
<1>1. IndInv => StartedIsRunning
  BY DEF IndInv
<1>. QED  BY <1>1, Invariance, PTL

(* A VM that ended stays in RUNNING_VMS only where the proxy had left its list early, or
   another client has died. *)
THEOREM RunningVmsHaveNotEnded == Spec => []RunningHasNotEnded
<1>1. IndInv => RunningHasNotEnded
  BY DEF IndInv
<1>. QED  BY <1>1, Invariance, PTL

-----------------------------------------------------------------------------
(* Deadlocks *)

(* Every step leaves main_state with one holder. *)
LEMMA HeldStep == ASSUME TypeOK, SetUpOnce, StateHeldOnce, Next PROVE StateHeldOnce'
<1>. USE DEF TypeOK, SetUpOnce, StateHeldOnce, StateFree, MoveStarter, MoveOther
<1>1. ASSUME UNCHANGED <<starter, other_start, recipient>> PROVE StateHeldOnce'
  BY <1>1
<1>2. ASSUME NEW v \in Vms, SetUp(v) PROVE StateHeldOnce'
  BY <1>2 DEF SetUp, proxyVars, stateVars, otherVars, vmVars
<1>3. ASSUME NEW v \in Vms, SeeBootCompleted(v) PROVE StateHeldOnce'
  BY <1>3 DEF SeeBootCompleted, proxyVars, stateVars, otherVars, vmVars
<1>4. ASSUME NEW v \in Vms, BootWaitTimesOut(v) PROVE StateHeldOnce'
  BY <1>4 DEF BootWaitTimesOut, proxyVars, stateVars, otherVars, vmVars
<1>5. ASSUME NEW v \in Vms, StartRegisters(v) PROVE StateHeldOnce'
  BY <1>5 DEF StartRegisters, proxyVars, stateVars, otherVars, vmVars
<1>6. ASSUME NEW v \in Vms, StartTakesState(v) PROVE StateHeldOnce'
  BY <1>6 DEF StartTakesState, proxyVars, stateVars, otherVars, vmVars
<1>7. ASSUME NEW v \in Vms, StartBootsVm(v) PROVE StateHeldOnce'
  BY <1>7 DEF StartBootsVm, proxyVars, stateVars, otherVars, vmVars
<1>8. ASSUME NEW v \in Vms, StartTellsStarting(v) PROVE StateHeldOnce'
  BY <1>8 DEF StartTellsStarting, Boots, proxyVars, stateVars, otherVars, vmVars
<1>9. ASSUME NEW v \in Vms, StartFindsVm(v) PROVE StateHeldOnce'
  BY <1>9 DEF StartFindsVm, proxyVars, stateVars, otherVars, vmVars
<1>10. ASSUME NEW v \in Vms, StartFails(v) PROVE StateHeldOnce'
  BY <1>10 DEF StartFails, proxyVars, stateVars, otherVars, vmVars
<1>11. ASSUME NEW v \in Vms, OtherRegisters(v) PROVE StateHeldOnce'
  BY <1>11 DEF OtherRegisters, proxyVars, stateVars, otherVars, vmVars
<1>12. ASSUME NEW v \in Vms, OtherTakesState(v) PROVE StateHeldOnce'
  BY <1>12 DEF OtherTakesState, proxyVars, stateVars, otherVars, vmVars
<1>13. ASSUME NEW v \in Vms, OtherDecides(v) PROVE StateHeldOnce'
  BY <1>13 DEF OtherDecides, proxyVars, stateVars, otherVars, vmVars
<1>14. ASSUME NEW v \in Vms, OtherBoots(v) PROVE StateHeldOnce'
  BY <1>14 DEF OtherBoots, Boots, proxyVars, stateVars, otherVars, vmVars
<1>15. ASSUME NEW c \in Others, NEW v \in Vms, DeathReported(c, v) PROVE StateHeldOnce'
  BY <1>15 DEF DeathReported, Without, proxyVars, stateVars, otherVars, vmVars
<1>16. ASSUME NEW v \in Vms, RecipientTakesState(v) PROVE StateHeldOnce'
  BY <1>16 DEF RecipientTakesState, proxyVars, stateVars, otherVars, vmVars
<1>17. ASSUME NEW v \in Vms, RecipientAsksGuest(v) PROVE StateHeldOnce'
  BY <1>17 DEF RecipientAsksGuest, proxyVars, stateVars, otherVars, vmVars
<1>18. ASSUME ManagerDies PROVE StateHeldOnce'
  BY <1>18 DEF ManagerDies, proxyVars, stateVars, otherVars, vmVars
<1>. QED
  <2>1. ASSUME MainStep PROVE StateHeldOnce'
    BY <2>1, <1>1, <1>2 DEF MainStep, StartMonitor, SeeSameValue, SeeChange, StopVms,
      ExitAfterAll, proxyVars, stateVars, otherVars, vmVars
  <2>2. ASSUME NEW v \in Vms, StarterStep(v) PROVE StateHeldOnce'
    BY <2>2, <1>3, <1>4, <1>5, <1>6, <1>7, <1>8, <1>9, <1>10 DEF StarterStep, proxyVars,
      stateVars, otherVars, vmVars
  <2>3. ASSUME NEW k \in Changes, NEW v \in Vms, StopThreadStep(k, v) PROVE StateHeldOnce'
    BY <2>3, <1>1 DEF StopThreadStep, MoveStop, RequestLeaves, LookUp,
      RequestFindsClient, RequestErrs, RequestTellsState, RequestDeparts,
      RequestShutsDown, RequestTellsStopped, RequestFails, Forget, proxyVars, stateVars,
      otherVars, vmVars
  <2>4. ASSUME DeviceStep PROVE StateHeldOnce'
    BY <2>4, <1>1 DEF DeviceStep, CompleteBoot, WriteStopProperty, proxyVars, stateVars,
      otherVars, vmVars
  <2>5. ASSUME NEW v \in Vms, VmStep(v) PROVE StateHeldOnce'
    BY <2>5, <1>1 DEF VmStep, ConnectStep, UserspaceComes, UserspaceFails,
      UserspaceIsLost, EndVm, proxyVars, stateVars, otherVars, vmVars
  <2>6. ASSUME NEW v \in Vms, OtherStep(v) PROVE StateHeldOnce'
    BY <2>6, <1>1, <1>11, <1>12, <1>13, <1>14, <1>15, <1>16, <1>17 DEF OtherStep,
      OtherStartStep, OtherStopStep, RecipientStep, OtherStops, OtherLeaves, OtherKills,
      OtherReturns, proxyVars, stateVars, otherVars, vmVars
  <2>7. ASSUME NEW c \in Others, OtherDies(c) PROVE StateHeldOnce'
    BY <2>7, <1>1 DEF OtherDies, proxyVars, stateVars, otherVars, vmVars
  <2>. QED  BY <2>1, <2>2, <2>3, <2>4, <2>5, <2>6, <2>7, <1>18 DEF Next

(* The state of a VM with a deadlock stays, as do the calls that wait for each other. *)
LEMMA DeadlockStep == ASSUME IndInv, StateHeldOnce, Next PROVE DeadlockLasts
<1>. USE DEF IndInv, TypeOK, ProxyInv, SetUpOnce, ChangesInOrder, StateHeldOnce, StateFree,
             InstanceFree, GuestClientFree, DeadlockLasts, Deadlocked, AwaitsEnd, Ended,
             MoveStarter, MoveStop, MoveOther
<1>1. ASSUME UNCHANGED <<state, starter, other_start, other_stop, stop_thread, recipient>>
      PROVE  DeadlockLasts
  BY <1>1
<1>2. ASSUME NEW v \in Vms, SetUp(v) PROVE DeadlockLasts
  BY <1>2 DEF SetUp, proxyVars, stateVars, otherVars, vmVars
<1>3. ASSUME StopVms PROVE DeadlockLasts
  BY <1>3 DEF StopVms, SeeChange, proxyVars, stateVars, otherVars, vmVars
<1>4. ASSUME NEW v \in Vms, SeeBootCompleted(v) PROVE DeadlockLasts
  BY <1>4 DEF SeeBootCompleted, proxyVars, stateVars, otherVars, vmVars
<1>5. ASSUME NEW v \in Vms, BootWaitTimesOut(v) PROVE DeadlockLasts
  BY <1>5 DEF BootWaitTimesOut, proxyVars, stateVars, otherVars, vmVars
<1>6. ASSUME NEW v \in Vms, StartRegisters(v) PROVE DeadlockLasts
  BY <1>6 DEF StartRegisters, proxyVars, stateVars, otherVars, vmVars
<1>7. ASSUME NEW v \in Vms, StartTakesState(v) PROVE DeadlockLasts
  BY <1>7 DEF StartTakesState, proxyVars, stateVars, otherVars, vmVars
<1>8. ASSUME NEW v \in Vms, StartBootsVm(v) PROVE DeadlockLasts
  BY <1>8 DEF StartBootsVm, proxyVars, stateVars, otherVars, vmVars
<1>9. ASSUME NEW v \in Vms, StartTellsStarting(v) PROVE DeadlockLasts
  BY <1>9 DEF StartTellsStarting, Boots, proxyVars, stateVars, otherVars, vmVars
<1>10. ASSUME NEW v \in Vms, StartFindsVm(v) PROVE DeadlockLasts
  BY <1>10 DEF StartFindsVm, proxyVars, stateVars, otherVars, vmVars
<1>11. ASSUME NEW v \in Vms, StartFails(v) PROVE DeadlockLasts
  BY <1>11 DEF StartFails, proxyVars, stateVars, otherVars, vmVars
<1>12. ASSUME NEW k \in Changes, NEW v \in Vms, LookUp(k, v) PROVE DeadlockLasts
  BY <1>12 DEF LookUp, proxyVars, stateVars, otherVars, vmVars
<1>13. ASSUME NEW k \in Changes, NEW v \in Vms, RequestFindsClient(k, v) PROVE DeadlockLasts
  BY <1>13 DEF RequestFindsClient, proxyVars, stateVars, otherVars, vmVars
<1>14. ASSUME NEW k \in Changes, NEW v \in Vms, RequestErrs(k, v) PROVE DeadlockLasts
  BY <1>14 DEF RequestErrs, proxyVars, stateVars, otherVars, vmVars
<1>15. ASSUME NEW k \in Changes, NEW v \in Vms, RequestTellsState(k, v) PROVE DeadlockLasts
  BY <1>15 DEF RequestTellsState, proxyVars, stateVars, otherVars, vmVars
<1>16. ASSUME NEW k \in Changes, NEW v \in Vms, RequestDeparts(k, v) PROVE DeadlockLasts
  BY <1>16 DEF RequestDeparts, RequestLeaves, proxyVars, stateVars, otherVars, vmVars
<1>17. ASSUME NEW k \in Changes, NEW v \in Vms, RequestShutsDown(k, v) PROVE DeadlockLasts
  BY <1>17 DEF RequestShutsDown, RequestLeaves, proxyVars, stateVars, otherVars, vmVars
<1>18. ASSUME NEW k \in Changes, NEW v \in Vms, RequestTellsStopped(k, v) PROVE DeadlockLasts
  BY <1>18 DEF RequestTellsStopped, proxyVars, stateVars, otherVars, vmVars
<1>19. ASSUME NEW k \in Changes, NEW v \in Vms, RequestFails(k, v) PROVE DeadlockLasts
  BY <1>19 DEF RequestFails, proxyVars, stateVars, otherVars, vmVars
<1>20. ASSUME NEW k \in Changes, NEW v \in Vms, Forget(k, v) PROVE DeadlockLasts
  BY <1>20 DEF Forget, proxyVars, stateVars, otherVars, vmVars
<1>21. ASSUME NEW v \in Vms, UserspaceComes(v) PROVE DeadlockLasts
  BY <1>21 DEF UserspaceComes, MoveVm, proxyVars, stateVars, otherVars, vmVars
<1>22. ASSUME NEW v \in Vms, UserspaceIsLost(v) PROVE DeadlockLasts
  BY <1>22 DEF UserspaceIsLost, MoveVm, proxyVars, stateVars, otherVars, vmVars
<1>23. ASSUME NEW v \in Vms, EndVm(v) PROVE DeadlockLasts
  BY <1>23 DEF EndVm, MoveVm, proxyVars, stateVars, otherVars, vmVars
<1>24. ASSUME NEW v \in Vms, OtherRegisters(v) PROVE DeadlockLasts
  BY <1>24 DEF OtherRegisters, proxyVars, stateVars, otherVars, vmVars
<1>25. ASSUME NEW v \in Vms, OtherTakesState(v) PROVE DeadlockLasts
  BY <1>25 DEF OtherTakesState, proxyVars, stateVars, otherVars, vmVars
<1>26. ASSUME NEW v \in Vms, OtherDecides(v) PROVE DeadlockLasts
  BY <1>26 DEF OtherDecides, proxyVars, stateVars, otherVars, vmVars
<1>27. ASSUME NEW v \in Vms, OtherBoots(v) PROVE DeadlockLasts
  BY <1>27 DEF OtherBoots, Boots, proxyVars, stateVars, otherVars, vmVars
<1>28. ASSUME NEW v \in Vms, OtherStops(v) PROVE DeadlockLasts
  BY <1>28 DEF OtherStops, proxyVars, stateVars, otherVars, vmVars
<1>29. ASSUME NEW v \in Vms, OtherLeaves(v) PROVE DeadlockLasts
  BY <1>29 DEF OtherLeaves, Without, proxyVars, stateVars, otherVars, vmVars
<1>30. ASSUME NEW v \in Vms, OtherKills(v) PROVE DeadlockLasts
  BY <1>30 DEF OtherKills, proxyVars, stateVars, otherVars, vmVars
<1>31. ASSUME NEW v \in Vms, OtherReturns(v) PROVE DeadlockLasts
  BY <1>31 DEF OtherReturns, proxyVars, stateVars, otherVars, vmVars
<1>32. ASSUME NEW c \in Others, NEW v \in Vms, DeathReported(c, v) PROVE DeadlockLasts
  BY <1>32 DEF DeathReported, Without, proxyVars, stateVars, otherVars, vmVars
<1>33. ASSUME NEW v \in Vms, RecipientTakesState(v) PROVE DeadlockLasts
  BY <1>33 DEF RecipientTakesState, proxyVars, stateVars, otherVars, vmVars
<1>34. ASSUME NEW v \in Vms, RecipientAsksGuest(v) PROVE DeadlockLasts
  BY <1>34 DEF RecipientAsksGuest, proxyVars, stateVars, otherVars, vmVars
<1>. QED
  <2>1. ASSUME MainStep PROVE DeadlockLasts
    BY <2>1, <1>1, <1>2, <1>3 DEF MainStep, StartMonitor, SeeSameValue, ExitAfterAll,
      proxyVars, stateVars, otherVars, vmVars
  <2>2. ASSUME NEW v \in Vms, StarterStep(v) PROVE DeadlockLasts
    BY <2>2, <1>4, <1>5, <1>6, <1>7, <1>8, <1>9, <1>10, <1>11 DEF StarterStep
  <2>3. ASSUME NEW k \in Changes, NEW v \in Vms, StopThreadStep(k, v) PROVE DeadlockLasts
    BY <2>3, <1>12, <1>13, <1>14, <1>15, <1>16, <1>17, <1>18, <1>19, <1>20 DEF
      StopThreadStep
  <2>4. ASSUME DeviceStep PROVE DeadlockLasts
    BY <2>4, <1>1 DEF DeviceStep, CompleteBoot, WriteStopProperty, proxyVars, stateVars,
      otherVars, vmVars
  <2>5. ASSUME NEW v \in Vms, VmStep(v) PROVE DeadlockLasts
    BY <2>5, <1>1, <1>21, <1>22, <1>23 DEF VmStep, ConnectStep, UserspaceFails,
      proxyVars, stateVars, otherVars, vmVars
  <2>6. ASSUME NEW v \in Vms, OtherStep(v) PROVE DeadlockLasts
    BY <2>6, <1>24, <1>25, <1>26, <1>27, <1>28, <1>29, <1>30, <1>31, <1>32, <1>33, <1>34
      DEF OtherStep, OtherStartStep, OtherStopStep, RecipientStep
  <2>7. ASSUME NEW c \in Others, OtherDies(c) PROVE DeadlockLasts
    BY <2>7, <1>1 DEF OtherDies, proxyVars, stateVars, otherVars, vmVars
  <2>8. ASSUME ManagerDies PROVE DeadlockLasts
    BY <2>8 DEF ManagerDies
  <2>. QED  BY <2>1, <2>2, <2>3, <2>4, <2>5, <2>6, <2>7, <2>8 DEF Next

(* No start holds main_state beside another one or a death recipient. *)
THEOREM OneHolder == Spec => []StateHeldOnce
<1>1. Init => StateHeldOnce
  BY DEF Init, StateHeldOnce
<1>2. IndInv /\ StateHeldOnce /\ [Next]_vars => StateHeldOnce'
  <2>1. ASSUME UNCHANGED vars, StateHeldOnce PROVE StateHeldOnce'
    BY <2>1 DEF StateHeldOnce, vars, proxyVars, vmVars, otherVars
  <2>. QED  BY <2>1, HeldStep DEF IndInv, ProxyInv
<1>. QED  BY <1>1, <1>2, Invariance, PTL DEF Spec

(* Calls of a VM that block each other do so for as long as the manager lives. *)
THEOREM DeadlocksAreFinal == Spec => DeadlocksStay
<1>1. IndInv /\ StateHeldOnce /\ [Next]_vars => [DeadlockLasts]_vars
  BY DeadlockStep
<1>. QED  BY <1>1, Invariance, OneHolder, PTL DEF Spec, DeadlocksStay
=============================================================================
