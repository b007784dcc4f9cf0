# Verification of the Qualcomm VM manager (AvfQcvmManager)

TLA+ models, TLC runs and TLAPS proofs of the service that boots and stops the
protected VMs of a Qualcomm Android device through AVF, and of its clients.
Line numbers are those of `virtual_machine.rs`
(`avf_qcvm_manager/libavf_qcvm_manager/src/`), in the section on the proxy client of
`proxyclient_service.rs` (`proxy_client/src/`), unless another file is named.

## The system

| Component | State | Operations | Works with |
|---|---|---|---|
| Virtual machine object (`virtual_machine.rs`) | `main_state`, `vm_instance` with the client list, the AVF handles, the join handles of the userspace and stop threads, the guest client and callback | binder calls `start`, `stop`, `request_stop`, `getVmInfo`; a death recipient per client; a userspace, a monitor and a stop thread per boot | AVF, the guest connection, the callbacks of its clients |
| Guest connection (`guest_client.rs`, `libguest_agent_client`) | a mink handle with its close notifier, or a vsock stream | `connect_userspace` with retries and timeouts, `shutdown`, `on_close` | the userspace and monitor threads, shutdowns |
| Manager service and configuration (`avf_qcvm_manager.rs`, `main.rs`) | the map from configuration to VM object, the list of VM infos | parse and default the JSON, `availableVms`, `getVm` | one VM object per configuration, 12 binder threads |
| AVF configuration (`create_avf_config`) | the raw AVF config, the memory sizes | carveout cap, total memory, instance id, images | `start_vm` |
| Device tree overlays (`dtbo.rs`) | none, a temporary file | table header, table entry, copy | `create_avf_config` |
| Proxy client (`proxy_client`) | the set of running VMs, the map of its VM objects | autostart, callbacks, the stop property, two exits | the manager service |
| Test clients (`test_vm_client`) | their view of the VM's state | an interactive menu | the manager service |
| Fuzzer, build files, manifests | none | | |

A VM object is shared by up to 12 binder threads, by the death recipients
(which run on binder threads too) and by three threads per boot. They meet at
five mutexes: `vm_instance`, `main_state`, `wait_for_userspace_thread`,
`guest_client` and `vm_clients`. The calls take `vm_instance` first, except that
`start` takes `main_state` before it. `stop` and `request_stop` join the stop
thread with `vm_instance` held, `request_stop` and the recipients join the
userspace thread. What is hard is therefore what a test with one client does
not reach: calls of two clients that interleave between two critical sections;
threads of an ended boot that act later; a VM that ends, a guest that loses its
connection or refuses, a client that dies, in the middle of any of these; a
panic, which aborts the process and with it every VM.

What makes the components correct:

* virtual machine object: one VM at a time; `Stopped` and `Crashed` mean that it
  is gone; the unwraps find what they need; a client is listed once, is on the
  list when its start boots the VM, and knows the state; a guest that is asked to
  shut down has no client left; no set of threads waits for itself; every call
  returns, every end is reported, `ShuttingDown` ends;
* guest connection: it gives up after the configured attempts, and a lost
  connection is noticed and, as a comment says, tried again;
* configuration: an entry is kept or skipped whole, defaults fill what is zero,
  the sizes fit the carveout and their types, `getVm` returns the enabled VM of
  that name and always the same object;
* device tree overlays: the entry read is inside the table, without overflow;
* proxy client: `RUNNING_VMS` follows the VMs, so that it ends when none of its VMs is
  left, and not before; it ends when it is told to stop all of them;
* test client: it only offers to stop a VM whose manager has it on the list.

## The project

| Modules | What for |
|---|---|
| `VirtualMachine`, `VirtualMachineProperties`, `MCVirtualMachine` | the VM object with all its threads |
| `VirtualMachineProofs`, `CallProofs`, `WaitProofs` | its types, its safety, and who can wait for whom, for any instance |
| `VmLifecycle`, `LifecycleProofs` | what a client is promised of the VMs, and that the VM object implements it |
| `GuestConnection`, `GuestConnectionProofs` | the connection attempts, the close notifier and the monitor of one boot, step by step |
| `UserspaceLink` | what the connection promises the rest of the manager, implemented by `VirtualMachine` and by `GuestConnection` |
| `QcvmManager`, `Dtbo`, `MCQcvmManager`, `QcvmManagerProofs` | the service from its JSON file to the memory and the overlay of each boot |
| `ProxyClient`, `MCProxyClient`, `ProxyClientProofs` | autostart, `RUNNING_VMS`, the property monitor and the exits, beside other clients of the same VMs |
| `TestClient`, `MCTestClient`, `TestClientProofs` | the interactive client, composed with `VirtualMachine` |

How they fit: `QcvmManager` ends where AVF gets the configuration of a VM, which is
where `VirtualMachine` begins with `CreateVm`. `VirtualMachine` takes a connection
attempt as one step; `GuestConnection` takes that step apart, with the VM around it
reduced to what the two threads see of it. Both implement `UserspaceLink`, which ties
them together. `TestClient` runs the steps of
`VirtualMachine` itself; `ProxyClient` has its own simpler view of several VMs, with
the client list, the mutexes that are held over a wait, and the other clients.

## VirtualMachine

One object of `struct VirtualMachine` (line 804), its threads and its
surroundings. A step is what a thread does from one place where it can block to
the next: taking one of the four mutexes in `Locks`, joining a thread,
connecting to the guest, waiting for the VM to end. `vm_clients` and the mutexes
around the raw AVF pointers are never held over such a place in a way that could
make another thread wait for long, so their critical sections are parts of
steps. The guest answers a shutdown within the step that asks.

| Code | Model |
|---|---|
| `main_state` | `state` |
| guards of `vm_instance`, `main_state`, `wait_for_userspace_thread`, `guest_client` | `lock`, the owner of each |
| `vm_clients`, the client processes, the last callback each was sent | `clients`, `alive`, `told` |
| `avf_vm_handle`, AVF's view of each VM, `virtmgr_service` | `boot`, `vm`, `virtmgr` |
| `wait_for_userspace_thread`, `wait_for_stop_thread` | variables of the same names, the boot whose thread they join |
| `guest_client`, `guest_callback` | the connection: which VM answers, and whether it is up |
| thread bodies at 568, 623, 722 | `worker`, `conn`, `stopper` |
| a binder thread in a call, a recipient | `pc`, `arg`, `target` |
| a panic, which aborts an Android Rust process | `process`, with the unwrap that failed |

`start` is `StartRegister` (create_client), `StartLockState`, then
`StartReturns` or `StartProceeds`, `CreateVm` (or a failure, or the abort of a
missing image) and `StartFinish`. `stop` is `StopLockInstance`, one of
`StopNothingToDo`, `StopCannotNotify`, `StopKillsVm`, then `StopJoin`.
`request_stop` is `RequestLockInstance`, the shared wait for the userspace
thread (`CheckStarted`, `TakeUserspace`, `JoinUserspace`) and one of the
`Request...` outcomes. A death recipient is `DeathLeavesOthers`,
`DeathKillsVm`, or `DeathOfLast` with the same wait and `DeathShutsDown`. The
userspace thread and the monitor share the connection attempt (`Connect...`,
`StoreClient`, `ReportReady`), and the monitor adds its poll. The stop thread is
`TakeVirtmgr`, `DestroyVm`, `ReportStop`. Around them, VMs end, guests power
off, connections close, clients die, and init restarts the service after an
abort (its rc entry is not oneshot).

Decisions a reader should know:

* The service is found by uid or port, so a connection attempt may reach
  whichever VM answers; a connection closes with its VM or when the guest's
  service restarts.
* A connection closes at once, its close event comes some time later: the monitor may
  look at its callback before (`MonitorChecks`). What of this depends on which attempt the callback belongs to is
  `GuestConnection`.
* AVF handles used after `AVirtualMachine_destroy` (lines 862, 1034) are undefined
  behaviour: the process goes on or aborts (`KillOutcomes`).
* `told` is the last lifecycle callback of this process; `onError` is not recorded.
* A client calls on any free binder thread, also twice at a time; `Overlap`
  limits which operations may be in progress together.
* `getVmInfo` only reads under `vm_instance` and is left out.

### Runs

Every run is an instance of `MCVirtualMachine`.

| Run | Instance | Shows |
|---|---|---|
| `direct` | no guest connection, 2 boots, 2 callers, 2 mortal clients, VMs end, boots fail or abort | `TypeOK`, `OneLiveVm`, `StoppedMeansGone`, `StopThreadHasVirtmgr`, `NoDuplicateClients`, `BootInv`, `Implements` |
| `live` | mink, 2 clients that do not die, one call at a time, all faults of the guest, fairness | `ClientsInStep`, `CallsReturn`, `EndIsReported`, `ImplementsLink`, no deadlock |
| `start_stop` | mink, 2 callers, no faults | violates `JoinedThreadCanFinish`, lines 873, 1037, 1088 |
| `starter` | no guest connection, 2 boots, VMs end | violates `StarterRegistered`, line 932 |
| `late_ready` | vsock, 1 client, VM ends, fairness | violates `ShutdownCompletes`, line 973 |
| `lost_handle` | mink, the guest's service restarts | violates `ShutdownFindsGuest`, line 1127 |

The violations are disagreements between the code and its own comments:

* `start_stop`: `stop` has `vm_instance` and is about to take `main_state` or has
  just dropped it for the join; `start` takes `main_state` and waits for
  `vm_instance`; the stop thread waits for `main_state`. Nothing moves again.
* `starter`: between `create_client` and `main_state` in `start`, the stop thread of the
  last boot clears the client list; the VM then boots for a client that is not on it.
* `late_ready`: the userspace thread connects, the VM crashes and is reported and
  destroyed, and the thread then sets `UserspaceReady`; a stop takes that to
  `ShuttingDown` and joins a thread that has finished long ago.
* `lost_handle`: the monitor clears `guest_client` before it leaves
  `UserspaceReady`; a shutdown in between unwraps `None` and aborts the service.

How far the deadlock of `start_stop` reaches when everything overlaps is asked in the run
`client`, where the test client and another client, which may die, call the object
(see below). `WaitSets` are the sets of calls and recipients in which everyone waits for another
member, for a mutex that it owns or through the thread that is joined; a deadlock is such a
set. Each has a member that holds `main_state` while it waits, as `start` and the
death recipient do (`CyclesHoldState`), and there is none as long as only stops and
requests are in progress, or only starts, and no recipient is at work (`NoWaitCycle`). A
`request_stop` that waits for `guest_client` under `main_state` would be one more way into a
cycle; it always finds it free (`GuestClientFree`). And the stop thread that `request_stop`
joins does not fail (`JoinedStopSucceeds`): with nobody on the list it has nobody to tell.

`live` is about one call at a time: it returns, the end of a VM is reported, and every
registered client knows the state. It has every step of the userspace and monitor threads of
one boot, and so also shows that these implement `UserspaceLink`.

### The lifecycle

`VmLifecycle` is what all of this promises of the VMs: `Boot` from `Stopped` or
`Crashed` only, `Destroy` for a reason, `Report` of that reason, and moves among
the other states. The mapping is the identity on `boot` and `state`; `phase` is
read off the stop thread of the newest VM (idle when there is none or it is finished,
exited or crashed once it has destroyed the VM and waits for `main_state`, alive before
that). `Implements` is checked in `direct` and proved in `LifecycleProofs`. The late
`UserspaceReady` of `late_ready` and the `Started` of a monitor that outlived its VM are `Move`
here: the lifecycle promises that nobody takes a VM for gone that is not, not that every
`ShuttingDown` ends.

### The link to the userspace

`UserspaceLink` is what the rest may rely on of the threads that connect. A connection is
only known there as open or closed. Its promises: a callback and a client are only
stored by a thread that made that connection, callback first; `UserspaceReady` is only set by a
thread that has stored its client; the client is dropped only after a failed first
connection or after the stored callback was seen closed, and before `main_state` goes back
to `Started`; the calls, the stop threads and the ends of the VMs set `main_state` to
anything else and close connections, but drop, make and reopen none.

| `UserspaceLink` | `VirtualMachine` | `GuestConnection` |
|---|---|---|
| `thread` | `worker` | `step`, each attempt being one place (`LinkStep`) |
| `made` | `conn`, open while its VM answers | `link` of the attempt that is connected and not stored |
| `callback`, `client` | `guest_callback`, `guest_client`, open while the VM answers | `link` of the attempts stored there |
| `Connect` | `ConnectSucceeds` | `OpenSucceeds` or `SelectAccepts` |
| no step | | `GuestServiceComes`, the timer, the hub, failed opens with tries left, `SetAvailable`, `NewNotifier`, `StoreCallback`, `OnClose` |
| `Elsewhere` | calls, recipients, stop threads, ends, the guest's service | `GuestServiceGoes`, `ShutDown`, `VmEnds` |

`VirtualMachine` stores the callback in the step that connects, `GuestConnection` three
steps later. The mapping therefore counts the callback as stored once its attempt is connected
(`Callback`): nobody reads it in between, as the monitor that would is the thread that
connects, or has not found `UserspaceReady` yet. That this mapping works is what makes the one step
of `VirtualMachine` right, and it holds only because of `OneAtATime` and `StoredInOrder`
below. `ImplementsLink` is checked in `live` and `connection` and proved for both modules.

### Bounds

* `MaxBoots`: two boots are what `OneLiveVm` and its kin are about, as a boot only
  touches its own stop thread, the single handle and the virtmgr its predecessor
  left; the proofs cover any number. With a guest connection the runs have one boot,
  and the threads of an earlier boot are the part that is only proved about, not
  explored (`ThreadsImplementLink` has the monitor of an earlier boot at work beside the next).
* `Callers`, `Clients`: two of each give every pair of operations, from one client or
  from two, plus two recipients; the cycles and races found need at most two calls
  with the threads of a boot. A start beyond the last boot fails (`StartVmFails`), as
  a failing boot would.
* `Mortals`, `Faults`: what may go wrong in the run, so that a run asks one question.
  `Overlap` is `AnyOverlap`, all operations at a time, in every run; `live` has one caller.
* The view `Untold` drops `told`, which no step reads, in runs whose properties do
  not mention it beyond its type; symmetry permutes callers, and clients that may die among
  themselves. `live` and `late_ready` use neither.
* `CHECK_DEADLOCK FALSE` in `direct`, `client` and the violation runs: the calls can deadlock, as
  `start_stop` shows, and all clients may be dead.

### Fairness

`Fairness` asks that a thread that can go on does (weakly, each caller, worker
and stop thread), and that the stop thread gets `main_state` although others
keep taking it (strongly): no mutex is held from one call to the next and the
monitor sleeps between its polls, so the futex behind it is free again and
again. A guest that accepted a shutdown powers off, and init restarts an aborted
service. Nothing makes a client call, a VM end or a connection succeed.

### Proofs

`VirtualMachineProofs` proves, for all clients, callers, boots, transports and
faults, from the three assumptions on the constants (clients, callers and `None` are
distinct, `MaxBoots` is a positive number, the configuration has its values):

| Theorem | States |
|---|---|
| `Invariance` | `TypeOK` and `BootInv` together are inductive |
| `TypeCorrect` | `[]TypeOK` |
| `BootsInOrder` | `[]BootInv` |
| `OneVmAtATime` | `[]OneLiveVm` |
| `StoppedVmIsGone` | `[]StoppedMeansGone` |
| `VirtmgrIsThere` | `[]StopThreadHasVirtmgr` |
| `ClientsListedOnce` (`CallProofs`) | `[]NoDuplicateClients` |
| `JoinedStopsSucceed` (`CallProofs`) | `[]JoinedStopSucceeds` |
| `ClientsKnowTheState` (`CallProofs`) | `[]ClientsInStep` |
| `CyclesAreAroundState` (`WaitProofs`) | `[]CyclesHoldState` |
| `StopsDoNotDeadlock` (`WaitProofs`) | `[]NoWaitCycle` |
| `RequestFindsGuestClientFree` (`WaitProofs`) | `[]GuestClientFree` |
| `ImplementsLifecycle` (`LifecycleProofs`) | every behaviour implements `VmLifecycle` |
| `ThreadsImplementLink` (`LifecycleProofs`) | every behaviour implements `UserspaceLink` |

None of the three safety properties is inductive: that a boot finds the last VM destroyed
depends on why it read `Stopped`. `BootInv` says it in four parts. `CallsOwnState`:
whoever decides over the state owns `main_state`, so that nobody else changes it
between the look and the boot. `CreationInOrder`: a boot begins in `Stopped` or
`Crashed`, and while it is being created its stop thread does not exist and its virtmgr
is there. `StoppersInOrder`: all older boots have finished stop threads, there
are no later ones, a stop thread that is past its wait has destroyed its VM, and
one that has just been spawned finds a virtmgr. `StoppedInOrder`: `Stopped` and `Crashed` are only
left by the newest boot's stop thread, or stand from before the first boot. The
late `UserspaceReady` does not break this, as it leads away from `Stopped`. The proof goes
through the actions once for the types (`StepKeepsTypes`), once for the
ownership (`StepKeepsCallsOwnState`) and once for the order (`StepKeepsOrder`).

`CallProofs` adds what the calls rely on. `NoDuplicateClients` is inductive with the
types: only `StartRegister` lengthens the list, by a client that is not on it, and a
removal moves the others down by one. `JoinedStopSucceeds` needs `JoinInv`: a call
owns `vm_instance` from the moment it decided to act to its return (`InstanceHeld`);
a connection that is up leads to a VM (`ConnectionsNamed`); `wait_for_stop_thread` is that of
the newest VM or taken, and as long as that VM answers it is there or with the one
call that joins it, for which the list stays empty (`JoinsInOrder`). A stop thread
with nobody to notify cannot fail.

`ClientsInStep` speaks of the time before a client dies, where
every notification reaches the whole list. It needs `NoDeathYet` then: no recipient is at
work and no call is on its way to the abort of an unwrapped handle. The rest
is that each change of `main_state` tells the list in the same critical section
(`TellingKeepsInStep`), except where a start tells its caller alone
(`StartKeepsInStep`); a start holds `main_state` from its look to its end, so nobody changes
what it is about to tell.

`WaitProofs` needs the converse of who holds what: `OwnersAtSteps` has the owner of each
mutex at a step that holds it, and `vm_instance` never with a recipient; `StepsByKind` keeps
the steps of calls and recipients apart; `JoinTargets` has every joined thread exist. With
them a set that waits for itself is followed from mutex to mutex: `guest_client`
and the userspace handle are owned by threads that join, whose threads wait for
`main_state` or `guest_client`; `vm_instance` is owned by a call that does one of these or is
in `start`; so the set reaches the owner of `main_state`, which waits as a member of
the set. Where only stops and requests run nobody waits with `main_state`, and a lone
kind of calls, starts, queues for `main_state` and `vm_instance` in one order. The sets are
quantified over instead of paths, so that no induction over a path is needed.

`LifecycleProofs` maps each step under `IndInv`: all
but `CreateVm`, `StartFinish` and the stop thread's are quiet, that is a move or a stutter.
For `UserspaceLink` it needs `LinkInv` as well: connections lead to VMs that were created, so that a
new VM cannot make a closed one look open again (`ConnectionsInOrder`), and the threads of a boot
do not exist before it (`WorkersInOrder`). Every step that is neither a thread's, a
spawn nor a restart is an `OutsideStep`, which closes connections at most. For
`RequestJoinStop` this rests on `JoinedStopSucceeds`: the code that sets `UserspaceReady`
again after a failed stop would break the link, and is never reached.

Only model-checked: the liveness properties `CallsReturn` and `EndIsReported`, which are out of
the prover's reach.

## GuestConnection

One boot's userspace thread and monitor, through `connect_userspace`, `mink.rs`,
`vsock.rs` and `guest_client.rs`. Every attempt that is begun has a number, which names its
callback object, its client and its link to the guest.

| Code | Model |
|---|---|
| threads of 568 and 623, the attempt in progress | `step`, `try`, `attempts` |
| the callback's `reboot_handle_available` | `available`, for each attempt |
| the `CloseNotifier` kept in the mink client | `notifier` |
| `guest_callback`, `guest_client` of the object | the numbers stored there |
| the connection itself, the guest's service, the VM | `link`, `service`, `vm` |
| `main_state` | `state` |

An attempt is `StartTimerEnds`, then for mink `ConnectHub`, `OpenSucceeds` or `OpenFails`
(with its count), `SetAvailable`, `NewNotifier`, for vsock `BindPort` and
`SelectAccepts` or `SelectTimesOut`. Both threads go on with `StoreCallback`, `StoreClient`,
`ReportReady`; the userspace thread that fails with `GiveUp`. The monitor polls with
`MonitorLooks` and `MonitorChecks`, and answers a loss with `MonitorClearsClient` and
`MonitorReportsLost`. `OnClose` is the notifier's thread. The service comes and goes, the
VM shuts down or ends. Mutexes are not modelled: none is held between two of these
steps. The kernel's mink adaptor is external, modelled as the code uses it: an open
succeeds while the service can be reached, and a close event comes after the close. An open
that succeeds without an object, at which `mink.rs:82` would panic, is left out: no
adaptor gives one for a service it can reach.

| Run | Instance | Shows |
|---|---|---|
| `connection` | both transports, `Retry` 3, 4 attempts, fairness | `TypeOK`, `CallbackMatchesClient`, `LossIsRecorded`, `LiveConnectionKept`, `LossIsNoticed`, `AttemptEnds`, `ImplementsLink` |
| `connection_retry` | `Retry` 2, 3 attempts, fairness | violates `LossIsRetried`, line 703 |

`LiveConnectionKept` is the property the monitor is there for, seen from the guest that
is still connected: its client is only dropped when its own link closed, not for a late
event of an earlier attempt nor for a callback nobody made available. Four attempts give a loss,
a reconnection, and the loss of that one too, with an event of the first still to come.
`connection_retry` finds that one failed reconnection is the last: the monitor set
`Started` before it tried, and its loop passes over `Started`.

Fairness is weak for the threads, whose sleeps, opens and time-outs end, and for
the delivery of a close event to a notifier that is set up. Nothing makes the service
come back. `CHECK_DEADLOCK FALSE`: both threads end with the VM.

`GuestConnectionProofs` proves, for any number of attempts and retries, `TypeCorrect`,
`CallbackOfClient`, `LossStaysRecorded`, `LiveClientStays` and `AttemptsImplementLink`. The invariant behind them is
`ConnectionInv`: the two threads never connect together, since the monitor only leaves
its sleep for a state that the userspace thread sets last (`OneAtATime`); nothing is
known of an attempt before it connects (`AttemptsAreFresh`); callback, client and state
are stored in this order (`StoredInOrder`); and a recorded loss is one of a closed link
(`LossMeansClosed`). `LossIsNoticed` and `AttemptEnds` are liveness properties and
only model-checked.

## QcvmManager and Dtbo

The service before a VM exists: `AvfQcvmManager::new`, `getVm`, and of `create_avf_config` what is
computed. `Dtbo` has the overlay, in steps of one file system call, as VMs boot at
the same time under mutexes of their own; `QcvmManager` extends it.

| Code | Model |
|---|---|
| the JSON file, the properties, the CMA devices | `json`, `slot_suffix`, `debuggable`, `carveout`, `image` |
| `vm_map` with its order, the `total_memory` of each object | `vm_map`, `total` |
| the private memory and the memory file AVF is given | `memory`, `backing` |
| `/mnt/vendor/qtvm_dtbo` and the file of each VM in it | `rc_made`, `directory`, `file` |
| where the boot of each VM is, the table entry read, the descriptor | `step`, `entry`, `overlay` |
| a panic, or a manager that could not be made | `process` |

`NewManager` and `NewManagerFails` are the start of the service, `StartVm` is `getVm` with the call
of `start_vm`, `SetMemory`, `DeviceMissing` and `BuildUnknown` the memory arithmetic. The
overlay is `FindDirectory`, `FindDirectoryAgain`, `RemoveDirectory`, `CreateDirectory`,
`ReadTable`, `FindOldFile`, `RemoveOldFile`, `CreateFile`, `WriteFile` or `WriteFails`, `ReopenFile`, `OpenFile`.
`Restart` is init's, and leaves the files where they are.

Widths are kept: `IntMax` and `U64Max` bound what panics (Android builds check
overflows and abort on a panic), `AsI32` and `AsU32` are the truncating casts, and the
products and sums of the table lookup are checked in `u32`. Sizes are in MiB and the
carveouts in bytes, so that the rounding of a carveout is kept. The order of the hash map is any order, fixed
when the service starts. Two entries that agree in every modelled field are one.

| Run | Instance | Shows |
|---|---|---|
| `setup` | 2 VMs, up to 2 of 9 entries, 3 carveouts, 5 images, 3 boots | `TypeOK`, `PrivateIsBacking`, `OemMemoryFits`, `MemorySettles`, `OverlayIntact`, `AbortNeedsMissingDirectory`, `EntryInTable` |

The widths are small (`IntMax` 100, `U64Max` 150, `U32Max` 63) so that sums and products
pass them; the entries take defaults, lie below and above the carveout, repeat a name
with other sizes or disabled, and overflow. Three boots give one VM twice beside the
other, with a restart between. `CHECK_DEADLOCK FALSE`: the boots run out.

`QcvmManagerProofs` proves all seven for any widths, entries, images and boots:
`TypesKept`, `MemoryIsBacking`, `OemMemoryKept` and `SameMemoryAtEveryBoot` from an
invariant that ties each total to its entry and each memory to a total (`MemoryKept`);
`WholeOverlays` and `DirectoryPreventsAbort` from one on the files (`OverlayKept`): where the
directory was made by init nobody removes it, and a descriptor is only taken of a
file that this boot wrote or that is gone; and `EntriesInTable` from the lookup.

## TestClient

The interactive Rust client (`avf_qcvm_test_client/rs_src/main.rs`), composed with
`VirtualMachine`: its main thread is `SelectVm`, `DropVm`, `Call`, `MarkStopped`, `Exit`; its calls run on the
binder thread `Main` of the manager, whose end `CallGoesOn` takes back to the menu; its callbacks
are `told`, which is the state that the menu looks at (`vm_state`). Other clients call as they
like.

The death of the manager takes three steps in the code, and in the model. `ManagerRestarts`
is the restart by init with the death recipient, which only clears a flag (line 102 of
`main.rs`): a call under way fails, the entry stays, and the last state stays with it, kept
apart (`kept`) from what the new manager tells. A menu that waits in `read_line` (181) goes
on with both; what it then calls goes to dead handles and changes nothing, and an Ok that
came before the death is still marked (`MarkStopped`). When the main thread reads the flag between two options
(269) and the user retries, `StartOver` begins again without entries. The names of the callbacks can serve
again then, as the new manager has none of them.

| Run | Instance | Shows |
|---|---|---|
| `client` | mink, 1 boot, a second client that may die, any two calls at a time, VM ends, guest refuses, missing images that abort the manager | `JoinedStopSucceeds`, `NoWaitCycle`, `CyclesHoldState`, `GuestClientFree`, `OnlyStartMisleads` |

What the menu shows comes from two sources, the callbacks and the answers of the calls,
in any order. `OnlyStartMisleads` says when it can go wrong: only a start leaves the
client with a menu to stop the VM while it is not on the list of the manager it calls (the
race of `starter`). A dead manager's state can be on the menu for long, and would mislead
if it were there when the next manager is called. The mutant `KeepCallbackState`, which does not set `Stopped` after an Ok, is
what the C++ client does, and there `request_stop` misleads as well.

Bounds: one callback of the client and one boot, as a second selection makes a
client like the other one; after `Exit` there is no menu, so these states are cut off
(`ClientRuns`); the view leaves out what others were told. The first four properties are those of
`VirtualMachine` on waiting, where one client is the menu and the other calls as it likes.

`TestClientProofs` proves `ObjectOrderedBesideClient`, that the composition keeps types and
`BootInv` of the object, and `OnlyAStartMisleads`, for any callbacks, clients, boots and
faults. The invariant is `ClientInv`: the client selects what it made (`SelectsOwn`);
its main thread is where its one call is (`MainAtCall`); a callback that was never selected is
unknown to the manager, as all are while the handles are dead, and the others live, with no
recipient at work, until `Exit` (`OwnCallbacks`); and while a stop runs, the callback is on the list or was told of the
end (`StopIsInformed`). The last is why the answer of `stop` does not mislead although it
is given after the stop thread has cleared the list.

## ProxyClient

The process of `vendor.qtvm.proxyclient-service`: the main thread, which sets up and
then monitors the stop property; a starter thread per VM; a stop thread per VM and
change of the property; and the binder threads that run its callbacks. Each step is one
critical section, or what a call of the manager does from one wait to the next.

| Code | Model |
|---|---|
| the process and its two `exit` codes | `process` |
| `proxyclient_service`, then `property_monitor`, then the joins of "all" | `main`, `todo` |
| `vm_instance_map`, `RUNNING_VMS` | `instances`, `running` |
| the threads of 169, within `start` too | `starter` |
| the threads of 320 and 381, one set per change, within `request_stop` too | `stop_thread`, `handled` |
| `last_value`, the property, the watcher | `last_value`, `property`, `changed`, `writes` |
| `sys.boot_completed` | `boot_completed` |
| the manager, `main_state` of each VM, who connects to its userspace | `manager`, `state`, `connection` |
| `vm_clients` of each VM | `registered`, `others`, `ahead` (who comes before the proxy) |
| the other clients, their calls, a death recipient | `alive`, `other_start`, `other_stop`, `recipient` |

The callbacks are `Told`. `Notified` is `notify_clients`, which stops at the first dead
client, so that a proxy behind one is not told; the stop thread then leaves the list as it is
(`ClearList`, line 751 of `virtual_machine.rs`). A starter is `SeeBootCompleted` or
`BootWaitTimesOut`, then the steps of `start`: `StartRegisters` (create_client),
`StartTakesState`, `StartBootsVm` with `StartTellsStarting`, or `StartFindsVm`, or
`StartFails`. The VM may end between any two of them that do not hold its mutexes. A stop
thread is `LookUp`, `RequestFindsClient`, which takes `vm_instance`, one of the outcomes of
`request_stop` (`RequestErrs`, `RequestTellsState`, `RequestDeparts`, `RequestShutsDown`
with `RequestTellsStopped`, `RequestFails`), and `Forget`. The main thread is `SetUp`,
`StartMonitor`, `SeeSameValue`, `StopVms`, `ExitAfterAll`. Around them properties are
written, the userspace of a VM comes and goes, VMs end, and the manager dies. Other clients
start (`OtherRegisters` to `OtherBoots`), stop or request a stop (`OtherStops` to
`OtherReturns`) and die (`OtherDies`, `DeathReported`, then the recipient that found the
list empty).

The mutexes are read off who is at a step that holds them: `StateFree`, `InstanceFree`,
`GuestClientFree`. The rest is simpler than in `VirtualMachine`. Every VM has a userspace
connection, and the thread that connects changes nothing of a VM that has ended since: the
late `UserspaceReady` and the aborts are that module's. Of the other clients at most one
start, one stop and one recipient are in progress for each VM at a time, and a call that
holds nothing yet is one that has not begun. A client that died stays on the list
until its recipient runs. The proxy's handles die with
the manager, and it does not look for another one. The wait of the watcher and the read after it are one step; the
property is unset when the proxy starts; a name that a value repeats counts once. The
exits before the set-up (an unset property, a manager that does not answer) are left out.

### Runs

| Run | Instance | Shows |
|---|---|---|
| `proxy_list` | 2 VMs, 1 other client that may die, VMs end and lose their userspace, no writes | `StartedIsRunning`, `RunningHasNotEnded` |
| `proxy_calls` | 1 VM, 1 other client, 2 writes, all faults, fairness | `TypeOK`, `RunningHasNotEnded`, `AllEnds`, `DeadlocksStay` |

`StartedIsRunning` and `RunningHasNotEnded` say that `RUNNING_VMS` follows the manager in
both directions as long as no other client has died: with a dead client ahead of it the proxy
misses what the list is told. The first leaves out a start that has not looked at the state
yet, and asks nothing of a VM that was ready when it was found. The second leaves out the
proxy that is off the list early (`left`): by its own `request_stop`, which takes it off
while the VM runs on, or by an end that overtook its start, clearing the list between
`create_client` and `main_state`, so that `onStarting` reaches a proxy that will not hear
of the next end. These are what the code has; the comment on the exit ("when all running VMs have
stopped") has none of them, as the observations say.

`AllEnds`: once "all" was acted on the process ends, though requests be refused, fail or
find the manager dead, unless calls of a VM block each other. That they can is the deadlock of
`start_stop` again, for which the proxy's own start beside its own request is enough, and
the one of a death recipient that holds `main_state` and waits for `guest_client`; `Deadlocked` is both.
`DeadlocksStay` says that `Deadlocked` is no way out for a state that would have passed: it
lasts for as long as the manager lives.

Bounds: `proxy_list` has the second VM that keeps the proxy from its exit when one ends, so that
a VM can stay in `RUNNING_VMS` and be booted again; VMs meet in `RUNNING_VMS`, the map and the
stop property only. `proxy_calls` has everything that can happen to one VM; two writes give a named stop before
"all" and a value written twice. One other client is before the proxy on the list or behind it, starts,
stops, and dies. `MaxWrites`, `StopValues` and `Others` do not bound the proofs.
`CHECK_DEADLOCK FALSE`: the service is oneshot, so its exit ends the behaviour.

Fairness is weak for each thread that can go on, in the proxy and in the manager, and for the
end of a VM whose guest accepted a shutdown or that was killed. It is strong for the stop
threads, which compete for `vm_instance` with the starts and stops of others: these hold it
again and again, but none from one call to the next, and the futex behind it is free
infinitely often. A mutex that is held for ever by a deadlock is never free, so that neither
assumption claims anything of it. An attempt to connect ends, with the userspace ready or
(the fault `no_userspace`) with a thread that has given up. Nothing makes another client
call or die, and nothing makes a VM end by itself.

### Proofs

`ProxyClientProofs` proves `Invariance`, `TypeCorrect`, `StartedVmsAreRunning`,
`RunningVmsHaveNotEnded`, `OneHolder` and `DeadlocksAreFinal` for any VMs, autostart list,
other clients, values, writes and faults, from `ProxyAssumption` (sets are sets of VMs,
values are values). The two properties of `RUNNING_VMS` need `ProxyInv`: a VM is set up
once (`SetUpOnce`); a change spawns threads that did not exist before (`ChangesInOrder`);
a dead manager has no list (`DeadHasNoList`); who is ahead of the proxy is on the list
(`AheadOnList`), so that with nobody dead every notification gets to it; a start that goes on has
the proxy on the list, or its end took it off (`StartKeepsList`); and so a VM in
`RUNNING_VMS` has the proxy on its list or in `left` (`LeftEarly`).

`OneHolder` is what the guards that stand for `main_state` must give: of the starts and
recipients that hold it over a wait there is one at a time (`StateHeldOnce`).
`DeadlocksAreFinal` rests on it: the holder waits for a mutex that only the blocked call
returns, nobody else can change the state without `main_state`, so no step but the death
of the manager leaves `Deadlocked`. `AllEnds` is a liveness property and only model-checked.

## Observations

Beside the five disagreements that runs show, modelling met behaviours that no comment
or test rules out, and comments that no property is about.

* A client registers between the moment a death recipient finds the list empty (line 856, let go of
  at 866) and the moment it takes `main_state` and asks the guest to shut down (888): the VM
  powers off under a client whose start has just answered. The comment at 892 ("There are no
  clients connected") and the doc at 1064 ("Will only shutdown once all clients unregister")
  are true of `request_stop` and not of a recipient, so no run asks for them.
* `notify_clients` returns at the first dead client (529 to 533). Those behind it are not told, and
  at the end of a VM the list is not cleared (751). A proxy behind a dead client keeps
  the VM in `RUNNING_VMS` and does not exit.
* `request_stop` takes the caller off the list before it asks the guest (1122). When the guest
  refuses, or others remain, the proxy is never told of the end, keeps the VM in
  `RUNNING_VMS`, and does not exit by callback although its comment says so (`proxyclient_service.rs:88`).
* `start` tells a caller the state it finds (951), which for the proxy is `onUserspaceReady` and
  enters nothing in `RUNNING_VMS` (`proxyclient_service.rs:78`): the end of another of its VMs
  then exits the proxy with "All VMs have stopped" (89) while that one runs.
* "Exit main thread if stop is called for all VMs" (`proxyclient_service.rs:359`) follows joins that do not
  end where a start of the same VM, the proxy's own for one, has `main_state` and waits for `vm_instance`
  (`Deadlocked`).
* A guest's refusal is ignored by the death recipient (894): `ShuttingDown` is set and the VM runs on. A
  `stop` whose notification fails (1028) has set `ShuttingDown` as well, and killed nothing.
* A start that the end of the VM overtakes leaves the test client without a
  registration and with a menu to stop the VM; what it chooses there is answered with Ok
  and nothing stops.
* `vm_dtbo_path` (154 to 158) is parsed and given a default (`avf_qcvm_manager.rs:167`), and nothing
  uses it: the path of the partition is built again at 451. The doc at 225 has the overlay made once, and each boot makes it again. The comment at 505 says that all
  temporary files are deleted when the service starts, and nothing deletes them; `OverlayIntact`
  holds without it, as a file that is found is removed.
* The doc at 113 calls the CMA size not configurable; it is taken from the JSON file.
* The decoding comment at 357 has the offsets of the two ids the other way round than the code below it.
* The doc of `connect_userspace` (`libguest_agent_client/src/lib.rs:24`) promises a timeout and retries; mink has retries
  and no timeout, vsock one wait and no retries.
* The one-shot client says that it sleeps for 5 seconds and sleeps for 20
  (`test_vm_client/src/main.rs:105`).

## Not modelled

* Values that are passed through to AVF (name, kernel, images, instance id, vCPUs,
  `virtio` devices): they change no state of the service, and the expects on their files are the abort
  `missing_image` of `VirtualMachine`. `getVmInfo` and `availableVms` only read.
* The pool of 12 binder threads at its limit: it would need as many calls as threads, and
  what a call does while it occupies one is modelled.
* The one-shot test client starts a VM and asks it to stop after a sleep, which any client
  of `VirtualMachine` may do. The C++ clients differ from the Rust one as `KeepCallbackState` says.
* The contents of overlays, tables beyond the fields the lookup reads, partitions and JSON text; logging; the
  fuzzer, which sends arbitrary parcels to the manager service; build files and manifests. They have no
  state or order that a model could get wrong.
* The mink adaptor, AVF and libbinder are external, and modelled as the code uses them.
