------------------------------- MODULE TestClient -------------------------------
(***************************************************************************)
(* The interactive test client beside the virtual machine object it calls: *)
(* a main thread that reads one option after the other from a menu, and    *)
(* binder threads that set the state the menu looks at whenever a callback *)
(* comes in.  The manager is VirtualMachine with all its steps; the state  *)
(* a callback has set is `told' of that callback, which the main thread    *)
(* also sets.  Other clients call the object as they like.                 *)
(*                                                                         *)
(* When the manager has died, the handles are dead: init starts another    *)
(* one, which calls over them do not reach.  The menu keeps its entry and  *)
(* the last state until the main thread looks at the flag that the death   *)
(* recipient sets.                                                         *)
(***************************************************************************)
EXTENDS VirtualMachineProperties

CONSTANTS
    Own,   \* bound: the callbacks this client can make, one for each selection of a VM
    Main   \* the binder thread of the manager its calls run on

ASSUME TestClientAssumption == Own \subseteq Clients /\ Main \in Callers

VARIABLES
    main,      \* the main thread: "menu", the call it waits for, "stopped" after an Ok, "exited"
    selected,  \* the callback of the one entry in vms, or None
    used,      \* the callbacks made so far
    kept       \* the state that a manager has left behind which died, or "none"

clientProcess == <<main, selected, used, kept>>
allVars == <<vars, main, selected, used, kept>>

(* vm_state of the entry, which no callback changes once the handles are dead. *)
Connected == kept = "none"
vm_state == IF Connected THEN told[selected] ELSE kept

-----------------------------------------------------------------------------
(* The menu *)

(* A new callback and a state of its own, if the manager is there to give its VM.  The
   client has no entry when it gets one. *)
SelectVm ==
    /\ process = "up" /\ Connected
    /\ main = "menu"
    /\ selected = None
    /\ \E c \in Own \ used : selected' = c /\ used' = used \cup {c}
    /\ UNCHANGED <<main, kept, vars>>

(* The manager keeps the callback, whose process is alive. *)
DropVm ==
    /\ main = "menu"
    /\ selected # None
    /\ selected' = None
    /\ UNCHANGED <<main, used, kept, vars>>

(* start is always there; the others are when the VM was last said to be running. *)
MayCall(op) == op = "start" \/ vm_state \in {"Started", "UserspaceReady"}

(* A call over a dead handle fails at once, and changes nothing. *)
Call(op) ==
    /\ process = "up" /\ Connected
    /\ main = "menu"
    /\ selected # None
    /\ MayCall(op)
    /\ Begin(Main, selected, op)
    /\ main' = op
    /\ UNCHANGED <<selected, used, kept>>

(* The process ends, and its callbacks with it. *)
Exit ==
    /\ main = "menu"
    /\ main' = "exited"
    /\ alive' = [c \in Clients |-> IF c \in Own THEN FALSE ELSE alive[c]]
    /\ UNCHANGED <<selected, used, kept, abortVars, state, lock, pc, arg, target, clients, told,
                   vmVars, handleVars, guestVars>>

-----------------------------------------------------------------------------
(* The end of a call *)

(* All other ends of stop and request_stop answer Ok, whatever they achieved. *)
AnswersErr == \/ StopCannotNotify(Main)
              \/ StopJoin(Main) /\ stopper[target[Main]] = "failed"

CallGoesOn ==
    IF main \in Ops /\ pc'[Main] = "idle" /\ pc[Main] # "idle"
      THEN main' = IF main = "start" \/ AnswersErr THEN "menu" ELSE "stopped"
      ELSE UNCHANGED main

(* Mutant of MarkStopped: what the callbacks set is kept, as the C++ client does. *)
KeepCallbackState ==
    /\ main = "stopped"
    /\ main' = "menu"
    /\ UNCHANGED <<selected, used, kept, vars>>

(* An Ok is taken for a VM that stopped, over what callbacks have said meanwhile. *)
MarkStopped ==
    /\ main = "stopped"
    /\ main' = "menu"
    /\ IF Connected THEN told' = [told EXCEPT ![selected] = "Stopped"] /\ UNCHANGED kept
                    ELSE kept' = "Stopped" /\ UNCHANGED told
    /\ UNCHANGED <<selected, used, abortVars, state, callVars, clients, alive, vmVars,
                   handleVars, guestVars>>

-----------------------------------------------------------------------------
(* The manager died: a call under way fails, and what the menu shows stays what it was. *)
ManagerRestarts ==
    /\ ServiceRestarts
    /\ main' = IF main \in Ops THEN "menu" ELSE main
    /\ kept' = IF Connected /\ selected # None THEN told[selected]
               ELSE IF Connected THEN "NotStarted" ELSE kept
    /\ UNCHANGED <<selected, used>>

(* Mutant of StartOver: run begins again with the entries it had. *)
StartOverWithEntry ==
    /\ process = "up" /\ ~Connected
    /\ main = "menu"
    /\ kept' = "none"
    /\ told' = IF selected = None THEN told ELSE [told EXCEPT ![selected] = kept]
    /\ UNCHANGED <<main, selected, used, abortVars, state, callVars, clients, alive, vmVars,
                   handleVars, guestVars>>

(* Between two options the main thread sees that the manager died, and the user retries.
   The next manager knows none of the callbacks, whose names can serve again. *)
StartOver ==
    /\ process = "up" /\ ~Connected
    /\ main = "menu"
    /\ kept' = "none"
    /\ selected' = None
    /\ used' = {}
    /\ UNCHANGED <<main, vars>>

ClientInit == Init /\ main = "menu" /\ selected = None /\ used = {} /\ kept = "none"

ManagerStep ==
    /\ \/ \E t \in Callers : CallStep(t)
       \/ \E c \in Clients : DeliverDeath(c) \/ DeathStep(c)
       \/ \E w \in Workers : WorkerStep(w)
       \/ \E b \in Boots : StopperStep(b) \/ GuestStep(b)
    /\ CallGoesOn
    /\ UNCHANGED <<selected, used, kept>>

OtherClients ==
    /\ \/ \E t \in Callers \ {Main}, c \in Clients \ Own, op \in Ops : Begin(t, c, op)
       \/ \E c \in Clients \ Own : ClientDies(c)
    /\ UNCHANGED clientProcess

ClientNext ==
    \/ SelectVm \/ DropVm \/ Exit \/ MarkStopped \/ StartOver
    \/ \E op \in Ops : Call(op)
    \/ process = "up" /\ (ManagerStep \/ OtherClients)
    \/ ManagerRestarts

ClientSpec == ClientInit /\ [][ClientNext]_allVars

-----------------------------------------------------------------------------
(* Properties *)

(* The menu offers to stop a VM to a callback that is not on the list of the manager it
   calls.  (Over dead handles it may offer as much to the end: nobody gets the call.) *)
Misled ==
    /\ process = "up" /\ Connected
    /\ main = "menu" /\ selected # None
    /\ vm_state \in {"Started", "UserspaceReady"}
    /\ ~Registered(selected)

(* Only a start leaves the menu like that, when the VM ended and came back between its two
   critical sections: the end of a VM that clears the list, a departure, a callback that comes
   in late and an Ok that stood for a failure never do (lines 214 to 243, callbacks 35 to 64),
   and the state that a dead manager left behind is gone before another one is called
   (lines 267 to 278). *)
OnlyStartMisleads == [][~Misled /\ Misled' => main = "start"]_allVars
=============================================================================
