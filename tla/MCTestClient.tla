----------------------------- MODULE MCTestClient -----------------------------
(* The instances of the test client that TLC explores. *)
EXTENDS TestClient

CONSTANTS c1, c2, t1, t2

AnyOverlap == SUBSET Ops

(* After the exit of the client there is no menu left to be wrong. *)
ClientRuns == main # "exited"

(* What the manager told the other clients is read by no step. *)
OwnTold == <<process, state, lock, clients, alive, [c \in Own |-> told[c]], boot, vm, virtmgr,
             userspace_thread, stop_thread, guest_client, guest_callback, worker, conn,
             stopper, pc, arg, target, clientProcess>>
=============================================================================
