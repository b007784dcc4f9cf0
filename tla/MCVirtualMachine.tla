--------------------------- MODULE MCVirtualMachine ---------------------------
(* The instances of the virtual machine object that TLC explores. *)
EXTENDS VirtualMachineProperties

CONSTANTS c1, c2, t1, t2

AnyOverlap == SUBSET Ops

(* The callbacks sent are read by no step. *)
Untold == <<process, state, lock, clients, alive, boot, vm, virtmgr,
            userspace_thread, stop_thread, guest_client, guest_callback, worker,
            conn, stopper, pc, arg, target>>

Symmetry == {p \in Permutations(Clients) : \A c \in Mortals : p[c] \in Mortals}
            \cup Permutations(Callers)
=============================================================================
