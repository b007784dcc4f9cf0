------------------------- MODULE GuestConnectionProofs -------------------------
(***************************************************************************)
(* Theorems of the guest connection, for any number of opens and attempts. *)
(* IndInv, the types with ConnectionInv, is inductive; the properties      *)
(* follow from it, and so does that each step maps to one of UserspaceLink *)
(* or to none.                                                             *)
(***************************************************************************)
EXTENDS GuestConnection, TLAPS

IndInv == TypeOK /\ ConnectionInv

(* Every step keeps the types; OpenFails needs the attempts that are left. *)
LEMMA StepKeepsTypes ==
    ASSUME IndInv, Next PROVE TypeOK'
<1>. USE RetryAssumption, TriesAssumption DEF IndInv, ConnectionInv, TypeOK, Threads, Tries,
    guestVars, threadVars, linkVars, storedVars, Steps, Connecting, Attaching, Storing, Polling,
    States, AttemptsAreFresh
<1>1. ASSUME NEW t \in Threads, StartTimerEnds(t) PROVE TypeOK'
  BY <1>1 DEF StartTimerEnds, Go
<1>2. ASSUME NEW t \in Threads, ConnectHub(t) PROVE TypeOK'
  BY <1>2 DEF ConnectHub, Go, Failed
<1>3. ASSUME NEW t \in Threads, OpenSucceeds(t) PROVE TypeOK'
  BY <1>3 DEF OpenSucceeds, Go
<1>4. ASSUME NEW t \in Threads, OpenFails(t) PROVE TypeOK'
  BY <1>4 DEF OpenFails, Go, Failed
<1>5. ASSUME NEW t \in Threads, SetAvailable(t) PROVE TypeOK'
  BY <1>5 DEF SetAvailable, Go
<1>6. ASSUME NEW t \in Threads, NewNotifier(t) PROVE TypeOK'
  BY <1>6 DEF NewNotifier, Go
<1>7. ASSUME NEW t \in Threads, BindPort(t) PROVE TypeOK'
  BY <1>7 DEF BindPort, Go, Failed
<1>8. ASSUME NEW t \in Threads, SelectAccepts(t) PROVE TypeOK'
  BY <1>8 DEF SelectAccepts, Go
<1>9. ASSUME NEW t \in Threads, SelectTimesOut(t) PROVE TypeOK'
  BY <1>9 DEF SelectTimesOut, Go, Failed
<1>10. ASSUME NEW t \in Threads, StoreCallback(t) PROVE TypeOK'
  BY <1>10 DEF StoreCallback, Go
<1>11. ASSUME NEW t \in Threads, StoreClient(t) PROVE TypeOK'
  BY <1>11 DEF StoreClient, Go, Drop
<1>12. ASSUME NEW t \in Threads, ReportReady(t) PROVE TypeOK'
  BY <1>12 DEF ReportReady, Go
<1>13. ASSUME NEW t \in Threads, GiveUp(t) PROVE TypeOK'
  BY <1>13 DEF GiveUp, Go, Drop
<1>14. ASSUME MonitorLooks PROVE TypeOK'
  BY <1>14 DEF MonitorLooks, Go
<1>15. ASSUME MonitorChecks PROVE TypeOK'
  BY <1>15 DEF MonitorChecks, Go, HandleLost
<1>16. ASSUME MonitorClearsClient PROVE TypeOK'
  BY <1>16 DEF MonitorClearsClient, Go, Drop
<1>17. ASSUME MonitorReportsLost PROVE TypeOK'
  BY <1>17 DEF MonitorReportsLost, Go
<1>18. ASSUME NEW n \in Tries, OnClose(n) PROVE TypeOK'
  BY <1>18 DEF OnClose
<1>19. ASSUME GuestServiceComes PROVE TypeOK'
  BY <1>19 DEF GuestServiceComes
<1>20. ASSUME GuestServiceGoes PROVE TypeOK'
  BY <1>20 DEF GuestServiceGoes, Closed
<1>21. ASSUME ShutDown PROVE TypeOK'
  BY <1>21 DEF ShutDown
<1>22. ASSUME VmEnds PROVE TypeOK'
  BY <1>22 DEF VmEnds, Closed
<1>. QED
  <2>1. ASSUME NEW t \in Threads, ThreadStep(t) PROVE TypeOK'
    BY <2>1, <1>1, <1>2, <1>3, <1>4, <1>5, <1>6, <1>7, <1>8, <1>9, <1>10, <1>11, <1>12, <1>13,
        <1>14, <1>15, <1>16, <1>17
    DEF ThreadStep, ConnectStep, StoreStep, MonitorStep
  <2>. QED  BY <2>1, <1>18, <1>19, <1>20, <1>21, <1>22 DEF Next

(* Only one of the two threads connects or stores. *)
LEMMA StepKeepsOneAtATime ==
    ASSUME IndInv, Next PROVE OneAtATime'
<1>. USE RetryAssumption, TriesAssumption DEF IndInv, ConnectionInv, TypeOK, Threads, Tries,
    guestVars, threadVars, linkVars, storedVars, OneAtATime, Connecting, Attaching, Storing,
    Polling
<1>1. ASSUME NEW t \in Threads, StartTimerEnds(t) PROVE OneAtATime'
  BY <1>1 DEF StartTimerEnds, Go
<1>2. ASSUME NEW t \in Threads, ConnectHub(t) PROVE OneAtATime'
  BY <1>2 DEF ConnectHub, Go, Failed
<1>3. ASSUME NEW t \in Threads, OpenSucceeds(t) PROVE OneAtATime'
  BY <1>3 DEF OpenSucceeds, Go
<1>4. ASSUME NEW t \in Threads, OpenFails(t) PROVE OneAtATime'
  BY <1>4 DEF OpenFails, Go, Failed
<1>5. ASSUME NEW t \in Threads, SetAvailable(t) PROVE OneAtATime'
  BY <1>5 DEF SetAvailable, Go
<1>6. ASSUME NEW t \in Threads, NewNotifier(t) PROVE OneAtATime'
  BY <1>6 DEF NewNotifier, Go
<1>7. ASSUME NEW t \in Threads, BindPort(t) PROVE OneAtATime'
  BY <1>7 DEF BindPort, Go, Failed
<1>8. ASSUME NEW t \in Threads, SelectAccepts(t) PROVE OneAtATime'
  BY <1>8 DEF SelectAccepts, Go
<1>9. ASSUME NEW t \in Threads, SelectTimesOut(t) PROVE OneAtATime'
  BY <1>9 DEF SelectTimesOut, Go, Failed
<1>10. ASSUME NEW t \in Threads, StoreCallback(t) PROVE OneAtATime'
  BY <1>10 DEF StoreCallback, Go
<1>11. ASSUME NEW t \in Threads, StoreClient(t) PROVE OneAtATime'
  BY <1>11 DEF StoreClient, Go, Drop
<1>12. ASSUME NEW t \in Threads, ReportReady(t) PROVE OneAtATime'
  BY <1>12 DEF ReportReady, Go
<1>13. ASSUME NEW t \in Threads, GiveUp(t) PROVE OneAtATime'
  BY <1>13 DEF GiveUp, Go, Drop
<1>14. ASSUME MonitorLooks PROVE OneAtATime'
  BY <1>14 DEF MonitorLooks, Go
<1>15. ASSUME MonitorChecks PROVE OneAtATime'
  BY <1>15 DEF MonitorChecks, Go, HandleLost
<1>16. ASSUME MonitorClearsClient PROVE OneAtATime'
  BY <1>16 DEF MonitorClearsClient, Go, Drop
<1>17. ASSUME MonitorReportsLost PROVE OneAtATime'
  BY <1>17 DEF MonitorReportsLost, Go
<1>18. ASSUME NEW n \in Tries, OnClose(n) PROVE OneAtATime'
  BY <1>18 DEF OnClose
<1>19. ASSUME GuestServiceComes PROVE OneAtATime'
  BY <1>19 DEF GuestServiceComes
<1>20. ASSUME GuestServiceGoes PROVE OneAtATime'
  BY <1>20 DEF GuestServiceGoes, Closed
<1>21. ASSUME ShutDown PROVE OneAtATime'
  BY <1>21 DEF ShutDown
<1>22. ASSUME VmEnds PROVE OneAtATime'
  BY <1>22 DEF VmEnds, Closed
<1>. QED
  <2>1. ASSUME NEW t \in Threads, ThreadStep(t) PROVE OneAtATime'
    BY <2>1, <1>1, <1>2, <1>3, <1>4, <1>5, <1>6, <1>7, <1>8, <1>9, <1>10, <1>11, <1>12, <1>13,
        <1>14, <1>15, <1>16, <1>17
    DEF ThreadStep, ConnectStep, StoreStep, MonitorStep
  <2>. QED  BY <2>1, <1>18, <1>19, <1>20, <1>21, <1>22 DEF Next

(* A new attempt is new to the callback and the notifier. *)
LEMMA StepKeepsFresh ==
    ASSUME IndInv, Next PROVE AttemptsAreFresh'
<1>. USE RetryAssumption, TriesAssumption DEF IndInv, ConnectionInv, TypeOK, Threads, Tries,
    guestVars, threadVars, linkVars, storedVars, OneAtATime, AttemptsAreFresh, Connecting, Attaching, Storing, Polling
<1>1. ASSUME NEW t \in Threads, StartTimerEnds(t) PROVE AttemptsAreFresh'
  BY <1>1 DEF StartTimerEnds, Go
<1>2. ASSUME NEW t \in Threads, ConnectHub(t) PROVE AttemptsAreFresh'
  BY <1>2 DEF ConnectHub, Go, Failed
<1>3. ASSUME NEW t \in Threads, OpenSucceeds(t) PROVE AttemptsAreFresh'
  BY <1>3 DEF OpenSucceeds, Go
<1>4. ASSUME NEW t \in Threads, OpenFails(t) PROVE AttemptsAreFresh'
  BY <1>4 DEF OpenFails, Go, Failed
<1>5. ASSUME NEW t \in Threads, SetAvailable(t) PROVE AttemptsAreFresh'
  BY <1>5 DEF SetAvailable, Go
<1>6. ASSUME NEW t \in Threads, NewNotifier(t) PROVE AttemptsAreFresh'
  BY <1>6 DEF NewNotifier, Go
<1>7. ASSUME NEW t \in Threads, BindPort(t) PROVE AttemptsAreFresh'
  BY <1>7 DEF BindPort, Go, Failed
<1>8. ASSUME NEW t \in Threads, SelectAccepts(t) PROVE AttemptsAreFresh'
  BY <1>8 DEF SelectAccepts, Go
<1>9. ASSUME NEW t \in Threads, SelectTimesOut(t) PROVE AttemptsAreFresh'
  BY <1>9 DEF SelectTimesOut, Go, Failed
<1>10. ASSUME NEW t \in Threads, StoreCallback(t) PROVE AttemptsAreFresh'
  BY <1>10 DEF StoreCallback, Go
<1>11. ASSUME NEW t \in Threads, StoreClient(t) PROVE AttemptsAreFresh'
  BY <1>11 DEF StoreClient, Go, Drop
<1>12. ASSUME NEW t \in Threads, ReportReady(t) PROVE AttemptsAreFresh'
  BY <1>12 DEF ReportReady, Go
<1>13. ASSUME NEW t \in Threads, GiveUp(t) PROVE AttemptsAreFresh'
  BY <1>13 DEF GiveUp, Go, Drop
<1>14. ASSUME MonitorLooks PROVE AttemptsAreFresh'
  BY <1>14 DEF MonitorLooks, Go
<1>15. ASSUME MonitorChecks PROVE AttemptsAreFresh'
  BY <1>15 DEF MonitorChecks, Go, HandleLost
<1>16. ASSUME MonitorClearsClient PROVE AttemptsAreFresh'
  BY <1>16 DEF MonitorClearsClient, Go, Drop
<1>17. ASSUME MonitorReportsLost PROVE AttemptsAreFresh'
  BY <1>17 DEF MonitorReportsLost, Go
<1>18. ASSUME NEW n \in Tries, OnClose(n) PROVE AttemptsAreFresh'
  BY <1>18 DEF OnClose
<1>19. ASSUME GuestServiceComes PROVE AttemptsAreFresh'
  BY <1>19 DEF GuestServiceComes
<1>20. ASSUME GuestServiceGoes PROVE AttemptsAreFresh'
  BY <1>20 DEF GuestServiceGoes, Closed
<1>21. ASSUME ShutDown PROVE AttemptsAreFresh'
  BY <1>21 DEF ShutDown
<1>22. ASSUME VmEnds PROVE AttemptsAreFresh'
  BY <1>22 DEF VmEnds, Closed
<1>. QED
  <2>1. ASSUME NEW t \in Threads, ThreadStep(t) PROVE AttemptsAreFresh'
    BY <2>1, <1>1, <1>2, <1>3, <1>4, <1>5, <1>6, <1>7, <1>8, <1>9, <1>10, <1>11, <1>12, <1>13,
        <1>14, <1>15, <1>16, <1>17
    DEF ThreadStep, ConnectStep, StoreStep, MonitorStep
  <2>. QED  BY <2>1, <1>18, <1>19, <1>20, <1>21, <1>22 DEF Next

(* Stores happen in their order. *)
LEMMA StepKeepsStored ==
    ASSUME IndInv, Next PROVE StoredInOrder'
<1>. USE RetryAssumption, TriesAssumption DEF IndInv, ConnectionInv, TypeOK, Threads, Tries,
    guestVars, threadVars, linkVars, storedVars, OneAtATime, AttemptsAreFresh, StoredInOrder, Connecting, Attaching, Storing, Polling
<1>1. ASSUME NEW t \in Threads, StartTimerEnds(t) PROVE StoredInOrder'
  BY <1>1 DEF StartTimerEnds, Go
<1>2. ASSUME NEW t \in Threads, ConnectHub(t) PROVE StoredInOrder'
  BY <1>2 DEF ConnectHub, Go, Failed
<1>3. ASSUME NEW t \in Threads, OpenSucceeds(t) PROVE StoredInOrder'
  BY <1>3 DEF OpenSucceeds, Go
<1>4. ASSUME NEW t \in Threads, OpenFails(t) PROVE StoredInOrder'
  BY <1>4 DEF OpenFails, Go, Failed
<1>5. ASSUME NEW t \in Threads, SetAvailable(t) PROVE StoredInOrder'
  BY <1>5 DEF SetAvailable, Go
<1>6. ASSUME NEW t \in Threads, NewNotifier(t) PROVE StoredInOrder'
  BY <1>6 DEF NewNotifier, Go
<1>7. ASSUME NEW t \in Threads, BindPort(t) PROVE StoredInOrder'
  BY <1>7 DEF BindPort, Go, Failed
<1>8. ASSUME NEW t \in Threads, SelectAccepts(t) PROVE StoredInOrder'
  BY <1>8 DEF SelectAccepts, Go
<1>9. ASSUME NEW t \in Threads, SelectTimesOut(t) PROVE StoredInOrder'
  BY <1>9 DEF SelectTimesOut, Go, Failed
<1>10. ASSUME NEW t \in Threads, StoreCallback(t) PROVE StoredInOrder'
  BY <1>10 DEF StoreCallback, Go
<1>11. ASSUME NEW t \in Threads, StoreClient(t) PROVE StoredInOrder'
  BY <1>11 DEF StoreClient, Go, Drop
<1>12. ASSUME NEW t \in Threads, ReportReady(t) PROVE StoredInOrder'
  BY <1>12 DEF ReportReady, Go
<1>13. ASSUME NEW t \in Threads, GiveUp(t) PROVE StoredInOrder'
  BY <1>13 DEF GiveUp, Go, Drop
<1>14. ASSUME MonitorLooks PROVE StoredInOrder'
  BY <1>14 DEF MonitorLooks, Go
<1>15. ASSUME MonitorChecks PROVE StoredInOrder'
  BY <1>15 DEF MonitorChecks, Go, HandleLost
<1>16. ASSUME MonitorClearsClient PROVE StoredInOrder'
  BY <1>16 DEF MonitorClearsClient, Go, Drop
<1>17. ASSUME MonitorReportsLost PROVE StoredInOrder'
  BY <1>17 DEF MonitorReportsLost, Go
<1>18. ASSUME NEW n \in Tries, OnClose(n) PROVE StoredInOrder'
  BY <1>18 DEF OnClose
<1>19. ASSUME GuestServiceComes PROVE StoredInOrder'
  BY <1>19 DEF GuestServiceComes
<1>20. ASSUME GuestServiceGoes PROVE StoredInOrder'
  BY <1>20 DEF GuestServiceGoes, Closed
<1>21. ASSUME ShutDown PROVE StoredInOrder'
  BY <1>21 DEF ShutDown
<1>22. ASSUME VmEnds PROVE StoredInOrder'
  BY <1>22 DEF VmEnds, Closed
<1>. QED
  <2>1. ASSUME NEW t \in Threads, ThreadStep(t) PROVE StoredInOrder'
    BY <2>1, <1>1, <1>2, <1>3, <1>4, <1>5, <1>6, <1>7, <1>8, <1>9, <1>10, <1>11, <1>12, <1>13,
        <1>14, <1>15, <1>16, <1>17
    DEF ThreadStep, ConnectStep, StoreStep, MonitorStep
  <2>. QED  BY <2>1, <1>18, <1>19, <1>20, <1>21, <1>22 DEF Next

(* A recorded loss stays recorded, and comes from a closed connection. *)
LEMMA StepKeepsLoss ==
    ASSUME IndInv, Next PROVE (LossIsRecorded /\ LossMeansClosed)'
<1>. USE RetryAssumption, TriesAssumption DEF IndInv, ConnectionInv, TypeOK, Threads, Tries,
    guestVars, threadVars, linkVars, storedVars, OneAtATime, AttemptsAreFresh, StoredInOrder, LossIsRecorded, LossMeansClosed,
            Connecting, Attaching, Storing, Polling
<1>1. ASSUME NEW t \in Threads, StartTimerEnds(t) PROVE (LossIsRecorded /\ LossMeansClosed)'
  BY <1>1 DEF StartTimerEnds, Go
<1>2. ASSUME NEW t \in Threads, ConnectHub(t) PROVE (LossIsRecorded /\ LossMeansClosed)'
  BY <1>2 DEF ConnectHub, Go, Failed
<1>3. ASSUME NEW t \in Threads, OpenSucceeds(t) PROVE (LossIsRecorded /\ LossMeansClosed)'
  BY <1>3 DEF OpenSucceeds, Go
<1>4. ASSUME NEW t \in Threads, OpenFails(t) PROVE (LossIsRecorded /\ LossMeansClosed)'
  BY <1>4 DEF OpenFails, Go, Failed
<1>5. ASSUME NEW t \in Threads, SetAvailable(t) PROVE (LossIsRecorded /\ LossMeansClosed)'
  BY <1>5 DEF SetAvailable, Go
<1>6. ASSUME NEW t \in Threads, NewNotifier(t) PROVE (LossIsRecorded /\ LossMeansClosed)'
  BY <1>6 DEF NewNotifier, Go
<1>7. ASSUME NEW t \in Threads, BindPort(t) PROVE (LossIsRecorded /\ LossMeansClosed)'
  BY <1>7 DEF BindPort, Go, Failed
<1>8. ASSUME NEW t \in Threads, SelectAccepts(t) PROVE (LossIsRecorded /\ LossMeansClosed)'
  BY <1>8 DEF SelectAccepts, Go
<1>9. ASSUME NEW t \in Threads, SelectTimesOut(t) PROVE (LossIsRecorded /\ LossMeansClosed)'
  BY <1>9 DEF SelectTimesOut, Go, Failed
<1>10. ASSUME NEW t \in Threads, StoreCallback(t) PROVE (LossIsRecorded /\ LossMeansClosed)'
  BY <1>10 DEF StoreCallback, Go
<1>11. ASSUME NEW t \in Threads, StoreClient(t) PROVE (LossIsRecorded /\ LossMeansClosed)'
  BY <1>11 DEF StoreClient, Go, Drop
<1>12. ASSUME NEW t \in Threads, ReportReady(t) PROVE (LossIsRecorded /\ LossMeansClosed)'
  BY <1>12 DEF ReportReady, Go
<1>13. ASSUME NEW t \in Threads, GiveUp(t) PROVE (LossIsRecorded /\ LossMeansClosed)'
  BY <1>13 DEF GiveUp, Go, Drop
<1>14. ASSUME MonitorLooks PROVE (LossIsRecorded /\ LossMeansClosed)'
  BY <1>14 DEF MonitorLooks, Go
<1>15. ASSUME MonitorChecks PROVE (LossIsRecorded /\ LossMeansClosed)'
  BY <1>15 DEF MonitorChecks, Go, HandleLost
<1>16. ASSUME MonitorClearsClient PROVE (LossIsRecorded /\ LossMeansClosed)'
  BY <1>16 DEF MonitorClearsClient, Go, Drop
<1>17. ASSUME MonitorReportsLost PROVE (LossIsRecorded /\ LossMeansClosed)'
  BY <1>17 DEF MonitorReportsLost, Go
<1>18. ASSUME NEW n \in Tries, OnClose(n) PROVE (LossIsRecorded /\ LossMeansClosed)'
  BY <1>18 DEF OnClose
<1>19. ASSUME GuestServiceComes PROVE (LossIsRecorded /\ LossMeansClosed)'
  BY <1>19 DEF GuestServiceComes
<1>20. ASSUME GuestServiceGoes PROVE (LossIsRecorded /\ LossMeansClosed)'
  BY <1>20 DEF GuestServiceGoes, Closed
<1>21. ASSUME ShutDown PROVE (LossIsRecorded /\ LossMeansClosed)'
  BY <1>21 DEF ShutDown
<1>22. ASSUME VmEnds PROVE (LossIsRecorded /\ LossMeansClosed)'
  BY <1>22 DEF VmEnds, Closed
<1>. QED
  <2>1. ASSUME NEW t \in Threads, ThreadStep(t) PROVE (LossIsRecorded /\ LossMeansClosed)'
    BY <2>1, <1>1, <1>2, <1>3, <1>4, <1>5, <1>6, <1>7, <1>8, <1>9, <1>10, <1>11, <1>12, <1>13,
        <1>14, <1>15, <1>16, <1>17
    DEF ThreadStep, ConnectStep, StoreStep, MonitorStep
  <2>. QED  BY <2>1, <1>18, <1>19, <1>20, <1>21, <1>22 DEF Next

(* The inductive invariant. *)
THEOREM Invariance == Spec => []IndInv
<1>1. Init => IndInv
  <2>. SUFFICES ASSUME Init PROVE IndInv
    OBVIOUS
  <2>. USE RetryAssumption, TriesAssumption DEF Init, Threads, Tries, Connecting, Attaching,
           Storing, Polling
  <2>1. TypeOK
    <3>1. step \in [Threads -> Steps]
      BY DEF Steps
    <3>2. tries \in Tries /\ try \in [Threads -> 0..tries] /\ attempts \in [Threads -> 0..Retry]
      OBVIOUS
    <3>3. /\ link \in [Tries -> {"none", "open", "closed"}]
          /\ available \in [Tries -> {"none", "true", "false"}]
          /\ notifier \in [Tries -> {"none", "set", "failed", "fired", "dropped"}]
      OBVIOUS
    <3>. QED  BY <3>1, <3>2, <3>3 DEF TypeOK, States
  <2>2. OneAtATime /\ StoredInOrder
    BY DEF OneAtATime, StoredInOrder
  <2>3. LossIsRecorded /\ LossMeansClosed
    BY DEF LossIsRecorded, LossMeansClosed
  <2>4. AttemptsAreFresh
    BY DEF AttemptsAreFresh
  <2>. QED  BY <2>1, <2>2, <2>3, <2>4 DEF IndInv, ConnectionInv
<1>2. IndInv /\ Next => IndInv'
  BY StepKeepsTypes, StepKeepsOneAtATime, StepKeepsFresh, StepKeepsStored, StepKeepsLoss
  DEF IndInv, ConnectionInv
<1>3. IndInv /\ UNCHANGED vars => IndInv'
  BY DEF vars, IndInv, ConnectionInv, TypeOK, OneAtATime, AttemptsAreFresh, StoredInOrder,
         LossIsRecorded, LossMeansClosed
<1>. QED  BY <1>1, <1>2, <1>3, PTL DEF Spec

(* Every variable keeps to its type: no attempt opens the service more often than configured. *)
THEOREM TypeCorrect == Spec => []TypeOK
<1>1. IndInv => TypeOK
  BY DEF IndInv
<1>. QED  BY <1>1, Invariance, PTL

(* The monitor judges the stored client by its own callback. *)
THEOREM CallbackOfClient == Spec => []CallbackMatchesClient
<1>1. IndInv => CallbackMatchesClient
  BY DEF IndInv, ConnectionInv, StoredInOrder, CallbackMatchesClient
<1>. QED  BY <1>1, Invariance, PTL

(* A close event is not overwritten. *)
THEOREM LossStaysRecorded == Spec => []LossIsRecorded
<1>1. IndInv => LossIsRecorded
  BY DEF IndInv, ConnectionInv
<1>. QED  BY <1>1, Invariance, PTL

(* Only a client whose connection closed is dropped, by whichever thread. *)
THEOREM LiveClientStays == Spec => LiveConnectionKept
<1>1. ASSUME IndInv, [Next]_vars, guest_client # 0, guest_client' = 0
      PROVE  link[guest_client] = "closed"
  <2>. USE DEF IndInv, ConnectionInv, TypeOK, guestVars, threadVars, linkVars, storedVars
  <2>1. guest_client \in Tries
    BY <1>1, TriesAssumption DEF Tries
  <2>2. CASE MonitorClearsClient
    BY <1>1, <2>1, <2>2 DEF MonitorClearsClient, Go, StoredInOrder, LossMeansClosed
  <2>3. ASSUME NEW t \in Threads, GiveUp(t) PROVE FALSE
    BY <1>1, <2>3 DEF GiveUp, Go, OneAtATime, StoredInOrder, Threads
  <2>4. ASSUME NEW t \in Threads, StoreClient(t) PROVE FALSE
    BY <1>1, <2>4 DEF StoreClient, Go, AttemptsAreFresh, Storing
  <2>5. ASSUME NEW t \in Threads, ConnectStep(t) \/ StoreCallback(t) \/ ReportReady(t) PROVE FALSE
    BY <1>1, <2>5
    DEF ConnectStep, StartTimerEnds, ConnectHub, OpenSucceeds, OpenFails, SetAvailable,
        NewNotifier, BindPort, SelectAccepts, SelectTimesOut, StoreCallback, ReportReady
  <2>6. CASE MonitorLooks \/ MonitorChecks \/ MonitorReportsLost
    BY <1>1, <2>6 DEF MonitorLooks, MonitorChecks, MonitorReportsLost
  <2>7. CASE GuestServiceComes \/ GuestServiceGoes \/ ShutDown \/ VmEnds
             \/ (\E n \in Tries : OnClose(n)) \/ UNCHANGED vars
    BY <1>1, <2>7 DEF GuestServiceComes, GuestServiceGoes, ShutDown, VmEnds, OnClose, vars
  <2>. QED  BY <1>1, <2>2, <2>3, <2>4, <2>5, <2>6, <2>7
            DEF Next, ThreadStep, StoreStep, MonitorStep
<1>2. IndInv /\ [Next]_vars =>
        [guest_client # 0 /\ guest_client' = 0 => link[guest_client] = "closed"]_vars
  BY <1>1
<1>. QED  BY <1>2, Invariance, PTL DEF Spec, LiveConnectionKept
-----------------------------------------------------------------------------
(* The attempts and the monitor implement UserspaceLink *)

Mapped == <<state, LinkStep, Made, Status(Callback), Status(guest_client)>>
Maps == Link!Next \/ UNCHANGED Mapped

(* A thread's own step, as the other components see it. *)
LEMMA ThreadGoes ==
    ASSUME TypeOK, NEW t \in Threads, NEW from, NEW to, Go(t, from, to)
    PROVE  /\ LinkStep' = [LinkStep EXCEPT ![t] = LinkStep'[t]]
           /\ \A u \in Threads \ {t} : step'[u] = step[u]
           /\ step[t] = from /\ step'[t] = to
<1>1. /\ \A u \in Threads \ {t} : step'[u] = step[u]
      /\ step[t] = from /\ step'[t] = to
  BY DEF TypeOK, Go
<1>2. \A u \in Threads \ {t} : LinkStep'[u] = LinkStep[u]
  BY <1>1 DEF LinkStep, Attached
<1>3. LinkStep = [u \in Threads |-> LinkStep[u]] /\ LinkStep' = [u \in Threads |-> LinkStep'[u]]
  BY DEF LinkStep
<1>. QED  BY <1>1, <1>2, <1>3

(* What the steps look like to them. *)
LEMMA LinkSteps ==
    ASSUME NEW t \in Threads
    PROVE  /\ step[t] \in Connecting => LinkStep[t] = "connecting"
           /\ step[t] \in Attaching \cup {"store_callback", "store_client"}
                 => LinkStep[t] = "store_client"
           /\ step[t] = "sleep" => LinkStep[t] = "watch"
           /\ step[t] \in {"ready", "check", "clear_client", "report_lost", "give_up", "done"}
                 => LinkStep[t] = step[t]
BY DEF LinkStep, Attached, Connecting, Attaching

(* Threads that hold no connection that is not stored, and their next steps. *)
Empty(t) == step[t] \notin Attaching \cup {"store_callback", "store_client"}

LEMMA EmptyStays ==
    ASSUME IndInv, NEW t \in Threads, Empty(t), Empty(t)', UNCHANGED <<try, link, guest_callback>>,
           \A u \in Threads \ {t} : step'[u] = step[u]
    PROVE  Made' = Made /\ Status(Callback)' = Status(Callback)
BY DEF Empty, Made, Callback, Status, Attached, Attaching, Threads

(* An attempt goes on, connects or fails. *)
LEMMA ConnectMaps ==
    ASSUME IndInv, NEW t \in Threads, ConnectStep(t) PROVE Maps
<1>1. ASSUME step[t] \in Connecting, step'[t] \in Connecting \cup {"sleep", "give_up"},
             t = "userspace" => step'[t] # "sleep", t = "monitor" => step'[t] # "give_up",
             NEW from, NEW to, Go(t, from, to), UNCHANGED <<state, try, link, storedVars>>
      PROVE  Maps
  <2>1. /\ Empty(t) /\ Empty(t)' /\ Made' = Made /\ Status(Callback)' = Status(Callback)
        /\ Status(guest_client)' = Status(guest_client)
    BY <1>1, ThreadGoes, EmptyStays
    DEF IndInv, Empty, Connecting, Attaching, Status, storedVars
  <2>2. LinkStep[t] = "connecting" /\ LinkStep' = [LinkStep EXCEPT ![t] = LinkStep'[t]]
    BY <1>1, ThreadGoes, LinkSteps DEF IndInv
  <2>3. LinkStep'[t] = IF step'[t] \in Connecting THEN "connecting"
                       ELSE IF t = "monitor" THEN "watch" ELSE "give_up"
    BY <1>1 DEF LinkStep, Attached, Attaching, Connecting, Threads
  <2>4. CASE step'[t] \in Connecting
    <3>1. LinkStep' = LinkStep
      BY <2>2, <2>3, <2>4 DEF LinkStep
    <3>. QED  BY <1>1, <2>1, <3>1 DEF Maps, Mapped
  <2>5. CASE step'[t] \notin Connecting
    <3>1. Link!Go(t, "connecting", IF t \in {"monitor"} THEN "watch" ELSE "give_up")
      BY <2>2, <2>3, <2>5 DEF Link!Go
    <3>2. Link!FailToConnect(t)
      BY <1>1, <2>1, <3>1 DEF Link!FailToConnect
    <3>. QED  BY <3>2 DEF Maps, Link!Next, Link!ThreadStep, Link!Threads, Threads
  <2>. QED  BY <2>4, <2>5
<1>2. ASSUME step[t] \in Connecting, step'[t] \in {"set_available", "store_callback"},
             NEW from, NEW to, Go(t, from, to), UNCHANGED <<state, try, storedVars>>,
             link' = [link EXCEPT ![try[t]] = "open"]
      PROVE  Maps
  <2>1. \A u \in Threads \ {t} : Empty(u) /\ Empty(u)'
    BY <1>2, ThreadGoes
    DEF IndInv, ConnectionInv, OneAtATime, Empty, Connecting, Attaching, Storing, Polling, Threads
  <2>2. Attached(t)' /\ link'[try[t]] = "open"
    <3>1. try[t] \in Tries
      BY <1>2, TriesAssumption
      DEF IndInv, ConnectionInv, AttemptsAreFresh, TypeOK, Tries, Connecting, Threads
    <3>. QED  BY <1>2, <3>1 DEF Attached, Attaching, IndInv, TypeOK
  <2>3. Made' = [Made EXCEPT ![t] = "open"] /\ Status(Callback)' = "open"
    <3>1. \A u \in Threads : Made'[u] = IF u = t THEN "open" ELSE Made[u]
      BY <1>2, <2>1, <2>2 DEF Made, Empty, Attached, Attaching
    <3>2. Status(Callback)' = "open"
      BY <1>2, <2>1, <2>2
      DEF Status, Callback, Empty, Attached, Attaching, Threads, IndInv, ConnectionInv,
          AttemptsAreFresh, Connecting
    <3>. QED  BY <3>1, <3>2 DEF Made
  <2>4. guest_client = 0 /\ Status(guest_client)' = Status(guest_client)
    BY <1>2 DEF Status, storedVars, IndInv, ConnectionInv, StoredInOrder, Connecting, Threads
  <2>5. Link!Go(t, "connecting", "store_client")
    BY <1>2, <2>2, ThreadGoes, LinkSteps DEF IndInv, Link!Go, Attached, LinkStep, Connecting,
        Attaching
  <2>. QED  BY <1>2, <2>3, <2>4, <2>5
            DEF Maps, Link!Next, Link!ThreadStep, Link!Connect, Link!Threads, Threads
<1>3. ASSUME step[t] \in Attaching, step'[t] \in Attaching \cup {"store_callback"},
             NEW from, NEW to, Go(t, from, to), UNCHANGED <<state, try, link, storedVars>>
      PROVE  Maps
  <2>1. \A u \in Threads \ {t} : step'[u] = step[u] /\ Empty(u)
    BY <1>3, ThreadGoes
    DEF IndInv, ConnectionInv, OneAtATime, Empty, Connecting, Attaching, Storing, Polling, Threads
  <2>2. /\ Made' = Made /\ Status(Callback)' = Status(Callback)
        /\ Status(guest_client)' = Status(guest_client)
    BY <1>3, <2>1 DEF Made, Callback, Status, Attached, Attaching, Empty, Threads, storedVars
  <2>3. LinkStep' = LinkStep
    BY <1>3, <2>1, ThreadGoes, LinkSteps DEF IndInv, LinkStep, Attached, Attaching, Connecting
  <2>. QED  BY <1>3, <2>2, <2>3 DEF Maps, Mapped
<1>4. CASE StartTimerEnds(t) \/ ConnectHub(t) \/ BindPort(t) \/ SelectTimesOut(t) \/ OpenFails(t)
  BY <1>1, <1>4
  DEF StartTimerEnds, ConnectHub, BindPort, SelectTimesOut, OpenFails, Go, Failed, Connecting,
      threadVars, linkVars, IndInv, TypeOK, Threads
<1>5. CASE OpenSucceeds(t) \/ SelectAccepts(t)
  BY <1>2, <1>5 DEF OpenSucceeds, SelectAccepts, Go, Connecting, threadVars, IndInv, TypeOK
<1>6. CASE SetAvailable(t) \/ NewNotifier(t)
  BY <1>3, <1>6 DEF SetAvailable, NewNotifier, Go, Attaching, threadVars, IndInv, TypeOK
<1>. QED  BY <1>4, <1>5, <1>6 DEF ConnectStep

(* A connection is stored, or the attempt given up. *)
LEMMA StoreMaps ==
    ASSUME IndInv, NEW t \in Threads, StoreStep(t) PROVE Maps
<1>. USE DEF IndInv, Attaching
<1>1. CASE StoreCallback(t)
  <2>1. \A u \in Threads \ {t} : Empty(u) /\ Empty(u)'
    BY <1>1, ThreadGoes
    DEF StoreCallback, Go, ConnectionInv, OneAtATime, Empty, Connecting, Storing, Polling, Threads
  <2>2. /\ Made' = Made /\ Status(Callback)' = Status(Callback)
        /\ Status(guest_client)' = Status(guest_client)
    BY <1>1, <2>1, ThreadGoes
    DEF StoreCallback, Made, Callback, Status, Attached, Empty, Threads, linkVars, threadVars
  <2>3. LinkStep' = LinkStep
    <3>1. LinkStep'[t] = LinkStep[t] /\ LinkStep' = [LinkStep EXCEPT ![t] = LinkStep'[t]]
      BY <1>1, ThreadGoes DEF StoreCallback, LinkStep, Attached, Connecting
    <3>. QED  BY <3>1 DEF LinkStep
  <2>. QED  BY <1>1, <2>2, <2>3 DEF StoreCallback, Maps, Mapped
<1>2. CASE StoreClient(t)
  <2>1. /\ step[t] = "store_client" /\ step'[t] = "ready"
        /\ \A u \in Threads \ {t} : step'[u] = step[u]
    BY <1>2, ThreadGoes DEF StoreClient
  <2>2. \A u \in Threads : ~Attached(u) /\ ~Attached(u)'
    BY <2>1 DEF ConnectionInv, OneAtATime, Attached, Connecting, Storing, Polling, Threads
  <2>3. Status(Callback)' = Status(Callback)
    BY <1>2, <2>2 DEF StoreClient, Callback, Status, Threads
  <2>4. Made[t] = Status(guest_client)'
    BY <1>2, <2>1 DEF StoreClient, Made, Status, ConnectionInv, AttemptsAreFresh, Storing,
        threadVars
  <2>5. Made' = [Made EXCEPT ![t] = "none"]
    <3>1. \A u \in Threads : Made'[u] = IF u = t THEN "none" ELSE Made[u]
      BY <1>2, <2>1, <2>2 DEF StoreClient, Made, Attached, threadVars
    <3>. QED  BY <3>1 DEF Made
  <2>6. Link!Go(t, "store_client", "ready")
    BY <1>2, <2>1, ThreadGoes, LinkSteps DEF StoreClient, Link!Go, LinkStep, Attached, Connecting
  <2>. QED  BY <1>2, <2>3, <2>4, <2>5, <2>6
            DEF StoreClient, Maps, Link!Next, Link!ThreadStep, Link!StoreClient, Link!Threads,
                Threads
<1>3. CASE ReportReady(t)
  <2>1. /\ step[t] = "ready" /\ Empty(t) /\ Empty(t)'
        /\ \A u \in Threads \ {t} : step'[u] = step[u]
    BY <1>3, ThreadGoes DEF ReportReady, Empty
  <2>2. /\ Made' = Made /\ Status(Callback)' = Status(Callback)
        /\ Status(guest_client)' = Status(guest_client)
    BY <1>3, <2>1, EmptyStays DEF ReportReady, Status, threadVars, linkVars, storedVars
  <2>3. Link!Go(t, "ready", IF t \in {"monitor"} THEN "watch" ELSE "done")
    BY <1>3, <2>1, ThreadGoes, LinkSteps
    DEF ReportReady, Link!Go, LinkStep, Attached, Connecting
  <2>. QED  BY <1>3, <2>2, <2>3
            DEF ReportReady, Maps, Link!Next, Link!ThreadStep, Link!ReportReady, Link!Threads,
                Threads
<1>4. CASE GiveUp(t)
  <2>1. /\ step[t] = "give_up" /\ Empty(t) /\ Empty(t)'
        /\ \A u \in Threads \ {t} : step'[u] = step[u]
    BY <1>4, ThreadGoes DEF GiveUp, Empty
  <2>2. Made' = Made /\ Status(Callback)' = Status(Callback) /\ Status(guest_client)' = "none"
    BY <1>4, <2>1, EmptyStays DEF GiveUp, Status, threadVars
  <2>3. Link!Go(t, "give_up", "done")
    BY <1>4, <2>1, ThreadGoes, LinkSteps DEF GiveUp, Link!Go, LinkStep, Attached, Connecting
  <2>. QED  BY <1>4, <2>2, <2>3
            DEF GiveUp, Maps, Link!Next, Link!ThreadStep, Link!GiveUp, Link!Threads, Threads
<1>. QED  BY <1>1, <1>2, <1>3, <1>4 DEF StoreStep

(* The monitor looks, and clears the client of a closed connection only. *)
LEMMA MonitorMaps ==
    ASSUME IndInv, MonitorStep PROVE Maps
<1>. DEFINE m == "monitor"
<1>. USE DEF IndInv, Attaching
<1>1. m \in Threads
  BY DEF Threads
<1>2. ASSUME NEW from, NEW to, Go(m, from, to), UNCHANGED <<try, link, guest_callback>>,
             from \in Polling, to \in {"sleep", "done", "check", "clear_client", "report_lost", "timer"}
      PROVE  /\ Made' = Made /\ Status(Callback)' = Status(Callback)
             /\ Link!Go(m, IF from = "sleep" THEN "watch" ELSE from,
                        IF to = "sleep" THEN "watch" ELSE IF to = "timer" THEN "connecting" ELSE to)
  <2>1. /\ step[m] = from /\ step'[m] = to /\ Empty(m) /\ Empty(m)'
        /\ \A u \in Threads \ {m} : step'[u] = step[u]
    BY <1>1, <1>2, ThreadGoes DEF Empty, Polling
  <2>2. LinkStep' = [LinkStep EXCEPT ![m] = LinkStep'[m]]
    BY <1>1, <1>2, ThreadGoes
  <2>3. /\ LinkStep[m] = IF from = "sleep" THEN "watch" ELSE from
        /\ LinkStep'[m] = IF to = "sleep" THEN "watch" ELSE IF to = "timer" THEN "connecting" ELSE to
    BY <1>1, <1>2, <2>1 DEF LinkStep, Attached, Connecting, Polling
  <2>. QED  BY <1>1, <1>2, <2>1, <2>2, <2>3, EmptyStays DEF Link!Go
<1>. USE DEF Polling, threadVars, linkVars, storedVars
<1>3. CASE MonitorLooks
  <2>1. Status(guest_client)' = Status(guest_client)
    BY <1>3 DEF MonitorLooks, Status
  <2>2. CASE state = "Started" /\ Go(m, "sleep", "sleep")
    <3>1. LinkStep' = LinkStep
      <4>1. \A u \in Threads : step'[u] = step[u]
        BY <1>1, <2>2, ThreadGoes
      <4>. QED  BY <4>1 DEF LinkStep, Attached
    <3>. QED  BY <1>2, <1>3, <2>1, <2>2, <3>1 DEF MonitorLooks, Maps, Mapped
  <2>3. CASE state = "UserspaceReady" /\ Go(m, "sleep", "check")
    BY <1>1, <1>2, <1>3, <2>1, <2>3
    DEF MonitorLooks, Maps, Link!Next, Link!ThreadStep, Link!Poll, Link!Threads
  <2>4. CASE state \in {"Stopped", "Crashed", "ShuttingDown"} /\ Go(m, "sleep", "done")
    BY <1>1, <1>2, <1>3, <2>1, <2>4
    DEF MonitorLooks, Maps, Link!Next, Link!ThreadStep, Link!Poll, Link!Ended, Link!Threads
  <2>. QED  BY <1>3, <2>2, <2>3, <2>4 DEF MonitorLooks
<1>4. CASE MonitorChecks
  <2>1. Status(guest_client)' = Status(guest_client)
    BY <1>4 DEF MonitorChecks, Status
  <2>2. HandleLost /\ step[m] = "check" => Status(Callback) = "closed"
    <3>. SUFFICES ASSUME HandleLost, step[m] = "check" PROVE Status(Callback) = "closed"
      OBVIOUS
    <3>1. Callback = guest_callback
      BY DEF Callback, Attached, ConnectionInv, OneAtATime
    <3>2. guest_callback \in Tries /\ guest_callback # 0
      BY TriesAssumption DEF HandleLost, TypeOK, Tries
    <3>. QED  BY <3>1, <3>2 DEF HandleLost, Status, ConnectionInv, LossMeansClosed
  <2>. QED
    BY <1>1, <1>2, <1>4, <2>1, <2>2
    DEF MonitorChecks, Go, Maps, Link!Next, Link!ThreadStep, Link!Check, Link!Threads
<1>5. CASE MonitorClearsClient
  BY <1>1, <1>2, <1>5
  DEF MonitorClearsClient, Status, Maps, Link!Next, Link!ThreadStep, Link!ClearClient, Link!Threads
<1>6. CASE MonitorReportsLost
  <2>1. /\ step[m] = "report_lost" /\ step'[m] = "timer" /\ try'["userspace"] = try["userspace"]
        /\ LinkStep' = [LinkStep EXCEPT ![m] = LinkStep'[m]]
        /\ \A u \in Threads \ {m} : step'[u] = step[u]
    BY <1>1, <1>6, ThreadGoes DEF MonitorReportsLost, TypeOK, Threads
  <2>2. /\ Made' = Made /\ Status(Callback)' = Status(Callback)
        /\ Status(guest_client)' = Status(guest_client)
    BY <1>6, <2>1 DEF MonitorReportsLost, Made, Callback, Status, Attached, Threads
  <2>3. Link!Go(m, "report_lost", "connecting")
    BY <2>1 DEF Link!Go, LinkStep, Attached, Connecting, Threads
  <2>. QED
    BY <1>1, <1>6, <2>2, <2>3
    DEF MonitorReportsLost, Maps, Link!Next, Link!ThreadStep, Link!ReportLost, Link!Threads
<1>. QED  BY <1>3, <1>4, <1>5, <1>6 DEF MonitorStep

(* Connections close, the service comes, and the state is set elsewhere. *)
LEMMA OutsideMaps ==
    ASSUME IndInv, UNCHANGED <<step, try, storedVars>>,
           state' = state \/ state' \in {"ShuttingDown", "Stopped", "Crashed"},
           link' = link \/ link' = Closed
    PROVE  Maps
<1>1. Callback' = Callback /\ Callback \in Tries \cup {0} /\ guest_client \in Tries \cup {0}
  BY TriesAssumption DEF Callback, Attached, IndInv, TypeOK, Threads, Tries, storedVars
<1>2. \A n \in Tries \cup {0} :
         Status(n)' = Status(n) \/ (Status(n) = "open" /\ Status(n)' = "closed")
  BY DEF Status, Closed, IndInv, TypeOK, Tries
<1>3. LinkStep' = LinkStep
  BY DEF LinkStep, Attached
<1>4. /\ Made' \in [Threads -> {"none", "open", "closed"}]
      /\ \A t \in Threads : Made'[t] = Made[t] \/ (Made[t] = "open" /\ Made'[t] = "closed")
  <2>1. \A t \in Threads : Attached(t) \/ step[t] = "store_client" => try[t] \in Tries
    BY TriesAssumption
    DEF Attached, Attaching, Storing, IndInv, TypeOK, ConnectionInv, AttemptsAreFresh, Tries
  <2>2. \A n \in Tries : /\ link'[n] \in {"none", "open", "closed"}
                         /\ link'[n] = link[n] \/ (link[n] = "open" /\ link'[n] = "closed")
    BY DEF Closed, IndInv, TypeOK
  <2>3. \A t \in Threads : Attached(t)' = Attached(t)
    BY DEF Attached
  <2>. QED  BY <2>1, <2>2, <2>3 DEF Made
<1>. QED
  BY <1>1, <1>2, <1>3, <1>4
  DEF Maps, Link!Next, Link!Elsewhere, Link!Ended, Link!Threads, Threads, storedVars

(* What VirtualMachine takes for one step of a connection attempt, and what it says of the
   monitor (connect_userspace, lines 568 to 707), is what the attempt does with all its
   timers, retries, time-outs and close events. *)
THEOREM AttemptsImplementLink == Spec => ImplementsLink
<1>1. Init => Link!Init
  BY DEF Init, Threads, Connecting, Attaching, LinkStep, Made, Callback, Status, Attached,
     Link!Init, Link!Threads, Link!First
<1>2. IndInv /\ [Next]_vars => Maps
  <2>. SUFFICES ASSUME IndInv, [Next]_vars PROVE Maps
    OBVIOUS
  <2>. USE DEF guestVars, threadVars, linkVars, storedVars
  <2>1. ASSUME NEW n \in Tries, OnClose(n) PROVE Maps
    BY <2>1, OutsideMaps DEF OnClose
  <2>2. CASE GuestServiceComes \/ GuestServiceGoes \/ ShutDown \/ VmEnds
    BY <2>2, OutsideMaps DEF GuestServiceComes, GuestServiceGoes, ShutDown, VmEnds
  <2>3. CASE UNCHANGED vars
    BY <2>3, OutsideMaps DEF vars
  <2>. QED  BY <2>1, <2>2, <2>3, ConnectMaps, StoreMaps, MonitorMaps DEF Next, ThreadStep
<1>3. Maps => [Link!Next]_Link!vars
  BY DEF Maps, Mapped, Link!vars
<1>. QED  BY <1>1, <1>2, <1>3, Invariance, PTL DEF Spec, ImplementsLink, Link!Spec
=============================================================================
