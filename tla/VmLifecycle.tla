------------------------------ MODULE VmLifecycle ------------------------------
(***************************************************************************)
(* What the virtual machine object promises of the VMs it boots, whatever  *)
(* its clients and threads do: one VM at a time, booted from Stopped or    *)
(* Crashed only, and Stopped or Crashed said of it once it is destroyed,   *)
(* with the reason it ended for.                                           *)
(***************************************************************************)
EXTENDS Naturals

CONSTANT MaxBoots  \* bound: how many VMs are created between two restarts

VARIABLES
    boot,   \* how many VMs were created since the service started
    phase,  \* what became of the last of them
    state   \* what a reader of main_state finds

vars == <<boot, phase, state>>

Ended == {"Stopped", "Crashed"}
Running == {"Started", "UserspaceReady", "ShuttingDown"}
Phases == {"idle", "alive", "exited", "crashed"}

Init == boot = 0 /\ phase = "idle" /\ state = "Stopped"

Boot == /\ phase = "idle"
        /\ state \in Ended
        /\ boot < MaxBoots
        /\ boot' = boot + 1
        /\ phase' = "alive"
        /\ UNCHANGED state

(* The VM ended, for a reason, and its AVF objects are destroyed. *)
Destroy == /\ phase = "alive"
           /\ phase' \in {"exited", "crashed"}
           /\ UNCHANGED <<boot, state>>

(* Only what became of the VM is reported, and only then may the next one boot. *)
Report == /\ phase \in {"exited", "crashed"}
          /\ state' = IF phase = "crashed" THEN "Crashed" ELSE "Stopped"
          /\ phase' = "idle"
          /\ UNCHANGED boot

(* Everything else, late or not, keeps away from Stopped and Crashed. *)
Move == /\ state' \in Running
        /\ UNCHANGED <<boot, phase>>

Restart == boot' = 0 /\ phase' = "idle" /\ state' = "Stopped"

Next == Boot \/ Destroy \/ Report \/ Move \/ Restart

Spec == Init /\ [][Next]_vars
=============================================================================
