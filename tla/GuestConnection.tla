---------------------------- MODULE GuestConnection ----------------------------
(***************************************************************************)
(* The connection of one booted VM to its userspace, step by step: the     *)
(* attempts the userspace thread and the monitor make to connect, the      *)
(* callback object each attempt creates, the close notifier that writes to *)
(* it and the monitor that reads it.  VirtualMachine has the attempt as    *)
(* one step, without the callback's flag and its notifier.                 *)
(*                                                                         *)
(* Each attempt that connects has a number, which names its callback, its  *)
(* client and its link to the guest.  The mutexes are not modelled: none   *)
(* is held from one step here to the next.                                 *)
(***************************************************************************)
EXTENDS Naturals

CONSTANTS
    Retry,      \* vm_userspace_retry_count
    MaxTries    \* bound: how many times the two threads try to connect

ASSUME RetryAssumption == Retry \in Nat
ASSUME TriesAssumption == MaxTries \in Nat \ {0}

VARIABLES
    transport,       \* "mink" or "vsock", from the configuration
    vm,              \* whether the VM has not ended
    service,         \* whether the guest's shutdown service can be reached
    state,           \* main_state
    tries,           \* how many attempts were begun
    step,            \* where the userspace thread and the monitor are
    try,             \* the attempt each of them makes
    attempts,        \* how often its open failed
    link,            \* what became of the connection of each attempt
    available,       \* reboot_handle_available of the callback of each attempt
    notifier,        \* the CloseNotifier kept in the client of each attempt
    guest_callback,  \* the attempt whose callback is stored, 0 for None
    guest_client     \* the attempt whose client is stored, 0 for None

guestVars == <<vm, service>>
threadVars == <<tries, try, attempts>>
linkVars == <<link, available, notifier>>
storedVars == <<guest_callback, guest_client>>
vars == <<transport, vm, service, state, tries, step, try, attempts, link,
          available, notifier, guest_callback, guest_client>>

Threads == {"userspace", "monitor"}
Tries == 1..MaxTries
States == {"Started", "UserspaceReady", "ShuttingDown", "Stopped", "Crashed"}
Connecting == {"timer", "hub", "open", "bind", "select"}
Attaching == {"set_available", "new_notifier"}
Storing == {"store_callback", "store_client", "ready"}
Polling == {"sleep", "check", "clear_client", "report_lost"}
Steps == Connecting \cup Attaching \cup Storing \cup Polling \cup {"give_up", "done"}

Init ==
    /\ transport \in {"mink", "vsock"}
    /\ vm = TRUE
    /\ service = FALSE
    /\ state = "Started"
    /\ tries = 1
    /\ step = [t \in Threads |-> IF t = "userspace" THEN "timer" ELSE "sleep"]
    /\ try = [t \in Threads |-> IF t = "userspace" THEN 1 ELSE 0]
    /\ attempts = [t \in Threads |-> 0]
    /\ link = [n \in Tries |-> "none"]
    /\ available = [n \in Tries |-> "none"]
    /\ notifier = [n \in Tries |-> "none"]
    /\ guest_callback = 0
    /\ guest_client = 0

Go(t, from, to) == /\ step[t] = from
                   /\ step' = [step EXCEPT ![t] = to]

-----------------------------------------------------------------------------
(* connect_userspace *)

(* The monitor goes back to its loop, the userspace thread clears guest_client. *)
Failed(t) == IF t = "monitor" THEN "sleep" ELSE "give_up"

StartTimerEnds(t) ==
    /\ Go(t, "timer", IF transport = "mink" THEN "hub" ELSE "bind")
    /\ UNCHANGED <<transport, guestVars, state, threadVars, linkVars, storedVars>>

(* Without the hub the attempt fails at once, and with no attempts allowed it
   fails without one. *)
ConnectHub(t) ==
    /\ \E found \in BOOLEAN : Go(t, "hub", IF found /\ Retry > 0 THEN "open" ELSE Failed(t))
    /\ UNCHANGED <<transport, guestVars, state, threadVars, linkVars, storedVars>>

(* The opener answers Ok with an object: an Ok without one, at which mink.rs:82 would
   panic, is nothing the adaptor gives for a service that it can reach. *)
OpenSucceeds(t) ==
    /\ Go(t, "open", "set_available")
    /\ service
    /\ link' = [link EXCEPT ![try[t]] = "open"]
    /\ UNCHANGED <<transport, guestVars, state, threadVars, available, notifier, storedVars>>

(* Mutant of OpenFails: the attempts are not counted. *)
OpenFailsUncounted(t) ==
    /\ Go(t, "open", "open")
    /\ UNCHANGED <<transport, guestVars, state, threadVars, linkVars, storedVars>>

(* Mutant of OpenFails: one attempt more than configured. *)
OpenFailsOnceMore(t) ==
    /\ Go(t, "open", IF attempts[t] < Retry THEN "open" ELSE Failed(t))
    /\ attempts' = [attempts EXCEPT ![t] = @ + 1]
    /\ UNCHANGED <<transport, guestVars, state, tries, try, linkVars, storedVars>>

OpenFails(t) ==
    /\ Go(t, "open", IF attempts[t] + 1 < Retry THEN "open" ELSE Failed(t))
    /\ attempts' = [attempts EXCEPT ![t] = @ + 1]
    /\ UNCHANGED <<transport, guestVars, state, tries, try, linkVars, storedVars>>

(* The availability is set before the notifier exists that may take it back. *)
SetAvailable(t) ==
    /\ Go(t, "set_available", "new_notifier")
    /\ available' = [available EXCEPT ![try[t]] = "true"]
    /\ UNCHANGED <<transport, guestVars, state, threadVars, link, notifier, storedVars>>

(* A notifier that cannot be set up is left out, and the client kept. *)
NewNotifier(t) ==
    /\ Go(t, "new_notifier", "store_callback")
    /\ \E outcome \in {"set", "failed"} : notifier' = [notifier EXCEPT ![try[t]] = outcome]
    /\ UNCHANGED <<transport, guestVars, state, threadVars, link, available, storedVars>>

(* vsock: the port is bound, then select waits once for the guest to connect. *)
BindPort(t) ==
    /\ \E bound \in BOOLEAN : Go(t, "bind", IF bound THEN "select" ELSE Failed(t))
    /\ UNCHANGED <<transport, guestVars, state, threadVars, linkVars, storedVars>>

SelectAccepts(t) ==
    /\ Go(t, "select", "store_callback")
    /\ service
    /\ link' = [link EXCEPT ![try[t]] = "open"]
    /\ UNCHANGED <<transport, guestVars, state, threadVars, available, notifier, storedVars>>

SelectTimesOut(t) ==
    /\ Go(t, "select", Failed(t))
    /\ UNCHANGED <<transport, guestVars, state, threadVars, linkVars, storedVars>>

ConnectStep(t) ==
    \/ StartTimerEnds(t) \/ ConnectHub(t) \/ OpenSucceeds(t) \/ OpenFails(t)
    \/ SetAvailable(t) \/ NewNotifier(t)
    \/ BindPort(t) \/ SelectAccepts(t) \/ SelectTimesOut(t)

-----------------------------------------------------------------------------
(* What both threads do with a connection *)

(* Mutant of StoreCallback: the availability is set here, with the client at hand. *)
StoreAvailable(t) ==
    /\ Go(t, "store_callback", "store_client")
    /\ guest_callback' = try[t]
    /\ available' = [available EXCEPT ![try[t]] = "true"]
    /\ UNCHANGED <<transport, guestVars, state, threadVars, link, notifier, guest_client>>

(* Mutant of StoreCallback: the state is set before the client is stored. *)
ReportBeforeClient(t) ==
    /\ Go(t, "store_callback", "store_client")
    /\ guest_callback' = try[t]
    /\ state' = "UserspaceReady"
    /\ UNCHANGED <<transport, guestVars, threadVars, linkVars, guest_client>>

StoreCallback(t) ==
    /\ Go(t, "store_callback", "store_client")
    /\ guest_callback' = try[t]
    /\ UNCHANGED <<transport, guestVars, state, threadVars, linkVars, guest_client>>

(* Dropping a client drops its notifier with it. *)
Drop(n) == [m \in Tries |-> IF m = n THEN "dropped" ELSE notifier[m]]

StoreClient(t) ==
    /\ Go(t, "store_client", "ready")
    /\ guest_client' = try[t]
    /\ notifier' = Drop(guest_client)
    /\ UNCHANGED <<transport, guestVars, state, threadVars, link, available, guest_callback>>

ReportReady(t) ==
    /\ Go(t, "ready", IF t = "monitor" THEN "sleep" ELSE "done")
    /\ state' = "UserspaceReady"
    /\ UNCHANGED <<transport, guestVars, threadVars, linkVars, storedVars>>

GiveUp(t) ==
    /\ Go(t, "give_up", "done")
    /\ guest_client' = 0
    /\ notifier' = Drop(guest_client)
    /\ UNCHANGED <<transport, guestVars, state, threadVars, link, available, guest_callback>>

StoreStep(t) == StoreCallback(t) \/ StoreClient(t) \/ ReportReady(t) \/ GiveUp(t)

-----------------------------------------------------------------------------
(* monitor_userspace_handle *)

(* The state every 100 ms: Started is passed over. *)
MonitorLooks ==
    /\ \/ state = "Started" /\ Go("monitor", "sleep", "sleep")
       \/ state = "UserspaceReady" /\ Go("monitor", "sleep", "check")
       \/ state \in {"Stopped", "Crashed", "ShuttingDown"} /\ Go("monitor", "sleep", "done")
    /\ UNCHANGED <<transport, guestVars, state, threadVars, linkVars, storedVars>>

(* Mutant of HandleLost: an availability that is not known is taken for a loss. *)
HandleNotKnown == guest_callback # 0 /\ available[guest_callback] # "true"

(* No callback, or one whose availability nobody set, is no loss. *)
HandleLost == guest_callback # 0 /\ available[guest_callback] = "false"

MonitorChecks ==
    /\ Go("monitor", "check", IF HandleLost THEN "clear_client" ELSE "sleep")
    /\ UNCHANGED <<transport, guestVars, state, threadVars, linkVars, storedVars>>

MonitorClearsClient ==
    /\ Go("monitor", "clear_client", "report_lost")
    /\ guest_client' = 0
    /\ notifier' = Drop(guest_client)
    /\ UNCHANGED <<transport, guestVars, state, threadVars, link, available, guest_callback>>

(* Started again, whatever the state has become, and a new callback to connect with. *)
MonitorReportsLost ==
    /\ Go("monitor", "report_lost", "timer")
    /\ tries < MaxTries
    /\ state' = "Started"
    /\ tries' = tries + 1
    /\ try' = [try EXCEPT !["monitor"] = tries + 1]
    /\ attempts' = [attempts EXCEPT !["monitor"] = 0]
    /\ UNCHANGED <<transport, guestVars, linkVars, storedVars>>

MonitorStep == MonitorLooks \/ MonitorChecks \/ MonitorClearsClient \/ MonitorReportsLost

-----------------------------------------------------------------------------
(* The notifier's thread, the guest, and the rest of the VM object *)

(* Mutant of OnClose: the event goes to the callback that is stored. *)
OnCloseOfStored(n) ==
    /\ notifier[n] = "set"
    /\ link[n] = "closed"
    /\ guest_callback # 0
    /\ notifier' = [notifier EXCEPT ![n] = "fired"]
    /\ available' = [available EXCEPT ![guest_callback] = "false"]
    /\ UNCHANGED <<transport, guestVars, state, threadVars, step, link, storedVars>>

OnClose(n) ==
    /\ notifier[n] = "set"
    /\ link[n] = "closed"
    /\ notifier' = [notifier EXCEPT ![n] = "fired"]
    /\ available' = [available EXCEPT ![n] = "false"]
    /\ UNCHANGED <<transport, guestVars, state, threadVars, step, link, storedVars>>

Closed == [n \in Tries |-> IF link[n] = "open" THEN "closed" ELSE link[n]]

GuestServiceComes ==
    /\ vm /\ ~service
    /\ service' = TRUE
    /\ UNCHANGED <<transport, vm, state, threadVars, step, linkVars, storedVars>>

GuestServiceGoes ==
    /\ service
    /\ service' = FALSE
    /\ link' = Closed
    /\ UNCHANGED <<transport, vm, state, threadVars, step, available, notifier, storedVars>>

ShutDown ==
    /\ state \in {"Started", "UserspaceReady"}
    /\ state' = "ShuttingDown"
    /\ UNCHANGED <<transport, guestVars, threadVars, step, linkVars, storedVars>>

VmEnds ==
    /\ vm
    /\ vm' = FALSE
    /\ service' = FALSE
    /\ link' = Closed
    /\ state' \in {"Stopped", "Crashed"}
    /\ UNCHANGED <<transport, threadVars, step, available, notifier, storedVars>>

ThreadStep(t) == ConnectStep(t) \/ StoreStep(t) \/ (t = "monitor" /\ MonitorStep)

Next == \/ \E t \in Threads : ThreadStep(t)
        \/ \E n \in Tries : OnClose(n)
        \/ GuestServiceComes \/ GuestServiceGoes \/ ShutDown \/ VmEnds

Spec == Init /\ [][Next]_vars

-----------------------------------------------------------------------------
(* What the connection must keep *)

(* Every variable holds a value of its kind: attempts are those that were begun, and
   the opens of one are never counted beyond the configured number. *)
TypeOK ==
    /\ transport \in {"mink", "vsock"}
    /\ vm \in BOOLEAN /\ service \in BOOLEAN
    /\ state \in States
    /\ tries \in Tries
    /\ step \in [Threads -> Steps]
    /\ try \in [Threads -> 0..tries]
    /\ attempts \in [Threads -> 0..Retry]
    /\ link \in [Tries -> {"none", "open", "closed"}]
    /\ available \in [Tries -> {"none", "true", "false"}]
    /\ notifier \in [Tries -> {"none", "set", "failed", "fired", "dropped"}]
    /\ guest_callback \in 0..tries
    /\ guest_client \in 0..tries

(* The monitor judges a client by the callback of the same connection, and only once
   that client is stored: callback, client and state are stored in this order. *)
CallbackMatchesClient ==
    step["monitor"] \in {"check", "clear_client"} =>
        guest_client # 0 /\ guest_callback = guest_client

(* An event of the close notifier is not overwritten by the availability that the
   attempt itself sets: the notifier is created after it. *)
LossIsRecorded == \A n \in Tries : notifier[n] = "fired" => available[n] = "false"

(* The monitor only drops a client whose connection did close, never that of a later
   attempt for the loss of an earlier one, nor one that reports no loss. *)
LiveConnectionKept ==
    [][guest_client # 0 /\ guest_client' = 0 => link[guest_client] = "closed"]_vars

-----------------------------------------------------------------------------
(* The inductive invariant behind the four properties above, in named parts. *)

(* The monitor leaves its sleep only for a VM that became UserspaceReady, and that is
   what the userspace thread does last: the two never connect or store together. *)
OneAtATime ==
    /\ state = "UserspaceReady" \/ step["monitor"] \notin {"sleep", "done"}
          => step["userspace"] = "done"
    /\ step["monitor"] \in Connecting \cup Attaching \cup Storing => state # "UserspaceReady"
    /\ step["userspace"] \notin Polling
    /\ step["monitor"] # "give_up"

(* An attempt is one thread's only, and nothing is known of it before it connects. *)
AttemptsAreFresh ==
    /\ try["userspace"] = 1 /\ try["monitor"] # 1
    /\ \A t \in Threads : step[t] \in Connecting \cup Attaching \cup Storing => try[t] # 0
    /\ \A n \in Tries : n > tries => available[n] = "none" /\ notifier[n] = "none"
    /\ \A t \in Threads : step[t] \in Connecting \cup {"set_available"}
          => available[try[t]] = "none" /\ notifier[try[t]] = "none"
    /\ \A t \in Threads : step[t] = "new_notifier" => notifier[try[t]] = "none"
    /\ \A t \in Threads : /\ step[t] \in {"timer", "hub"} => attempts[t] = 0
                          /\ step[t] = "open" => attempts[t] < Retry

(* The callback is stored, then the client, then the state. *)
StoredInOrder ==
    /\ step["userspace"] \notin {"ready", "done"} => guest_client = 0
    /\ \A t \in Threads : step[t] \in {"store_client", "ready"} => guest_callback = try[t]
    /\ \A t \in Threads : step[t] = "ready" => guest_client = try[t]
    /\ (step["monitor"] = "sleep" /\ state = "UserspaceReady")
          \/ step["monitor"] \in {"check", "clear_client"}
          => guest_client # 0 /\ guest_callback = guest_client
    /\ step["monitor"] \in Connecting \cup Attaching
                              \cup {"report_lost", "store_callback", "store_client"}
          => guest_client = 0

(* An availability is only taken back by a connection that closed, for good, and the
   monitor only clears on that. *)
LossMeansClosed ==
    /\ \A n \in Tries : available[n] = "false" => link[n] = "closed"
    /\ step["monitor"] = "clear_client" => available[guest_callback] = "false"

(* The conjunction that Init establishes and every step of Next keeps. *)
ConnectionInv ==
    OneAtATime /\ AttemptsAreFresh /\ StoredInOrder /\ LossIsRecorded /\ LossMeansClosed

-----------------------------------------------------------------------------
(* The connection as VirtualMachine has it *)

(* The callback of an attempt counts as stored once the attempt is connected: nobody
   looks at it before. *)
Attached(t) == step[t] \in Attaching \cup {"store_callback"}
Callback == IF Attached("userspace") THEN try["userspace"]
            ELSE IF Attached("monitor") THEN try["monitor"]
            ELSE guest_callback

Status(n) == IF n = 0 THEN "none" ELSE link[n]
Made == [t \in Threads |-> IF Attached(t) \/ step[t] = "store_client" THEN link[try[t]]
                            ELSE "none"]

(* A whole attempt, with its timer, its retries or its wait, is one step. *)
LinkStep == [t \in Threads |-> CASE step[t] \in Connecting -> "connecting"
                                 [] Attached(t) -> "store_client"
                                 [] step[t] = "sleep" -> "watch"
                                 [] OTHER -> step[t]]

Link == INSTANCE UserspaceLink WITH
    Userspaces <- {"userspace"}, Monitors <- {"monitor"},
    state <- state, thread <- LinkStep, made <- Made,
    callback <- Status(Callback), client <- Status(guest_client)

(* Taken together, the steps of an attempt, its notifier and the monitor do what
   VirtualMachine does in one step each: they keep to UserspaceLink. *)
ImplementsLink == Link!Spec

-----------------------------------------------------------------------------
(* Liveness: the threads go on, sleeps and timeouts end, and close events arrive. *)

Fairness == /\ \A t \in Threads : WF_vars(ThreadStep(t))
            /\ \A n \in Tries : WF_vars(OnClose(n))
FairSpec == Spec /\ Fairness

(* A lost connection whose notifier could be set up does not stay the stored client
   while the monitor runs. *)
LossIsNoticed ==
    \A n \in Tries :
        (/\ guest_client = n /\ link[n] = "closed" /\ notifier[n] \in {"set", "fired"}
         /\ step["monitor"] # "done")
        ~> (guest_client # n \/ step["monitor"] = "done")

(* An attempt ends, connected or not, though the service never answers: request_stop
   joins the userspace thread. *)
AttemptEnds ==
    \A t \in Threads : step[t] \in Connecting \cup Attaching
                          ~> step[t] \notin Connecting \cup Attaching

(* After a failed reconnection the monitor tries again while the handle is lost, unless
   the VM ends or is shut down meanwhile. *)
LossIsRetried ==
    vm /\ HandleLost /\ state = "Started" /\ step["monitor"] = "sleep"
        ~> ~vm \/ step["monitor"] \in Connecting \/ state # "Started"
=============================================================================
