----------------------------- MODULE UserspaceLink -----------------------------
(***************************************************************************)
(* The connection to the userspace of the VMs, as the rest of the manager  *)
(* may rely on it: the threads that connect, the callback and the client   *)
(* they store, and what they make of main_state.  Only whether a           *)
(* connection is open counts here, not which attempt or VM it belongs to.  *)
(***************************************************************************)

CONSTANTS
    Userspaces,  \* the userspace threads, one for each boot
    Monitors     \* the monitor threads, one for each boot

VARIABLES
    state,     \* main_state
    thread,    \* where each thread is
    made,      \* the connection that a thread has made and not stored yet
    callback,  \* the connection whose callback is stored
    client     \* the connection whose client is stored

vars == <<state, thread, made, callback, client>>

Threads == Userspaces \cup Monitors
Ended == {"Stopped", "Crashed", "ShuttingDown"}

(* A thread's first step: the monitor waits, the userspace thread connects. *)
First(t) == IF t \in Monitors THEN "watch" ELSE "connecting"

(* No boot yet, or one boot whose threads were just spawned. *)
Init == /\ \/ state = "Stopped" /\ thread = [t \in Threads |-> "none"]
           \/ state = "Started" /\ thread = [t \in Threads |-> First(t)]
        /\ made = [t \in Threads |-> "none"]
        /\ callback = "none"
        /\ client = "none"

Go(t, from, to) == /\ thread[t] = from
                   /\ thread' = [thread EXCEPT ![t] = to]

Spawn(t) == /\ Go(t, "none", First(t))
            /\ state' = IF t \in Monitors THEN "Started" ELSE state
            /\ UNCHANGED <<made, callback, client>>

Connect(t) == /\ Go(t, "connecting", "store_client")
              /\ made' = [made EXCEPT ![t] = "open"]
              /\ callback' = "open"
              /\ UNCHANGED <<state, client>>

FailToConnect(t) == /\ Go(t, "connecting", IF t \in Monitors THEN "watch" ELSE "give_up")
                    /\ UNCHANGED <<state, made, callback, client>>

GiveUp(t) == /\ Go(t, "give_up", "done")
             /\ client' = "none"
             /\ UNCHANGED <<state, made, callback>>

(* The connection is stored as it is by then. *)
StoreClient(t) == /\ Go(t, "store_client", "ready")
                  /\ client' = made[t]
                  /\ made' = [made EXCEPT ![t] = "none"]
                  /\ UNCHANGED <<state, callback>>

ReportReady(t) == /\ Go(t, "ready", IF t \in Monitors THEN "watch" ELSE "done")
                  /\ state' = "UserspaceReady"
                  /\ UNCHANGED <<made, callback, client>>

Poll(t) == /\ \/ state = "UserspaceReady" /\ Go(t, "watch", "check")
              \/ state \in Ended /\ Go(t, "watch", "done")
           /\ UNCHANGED <<state, made, callback, client>>

(* A loss is seen of a connection that closed, and not at once. *)
Check(t) == /\ Go(t, "check", "watch") \/ (callback = "closed" /\ Go(t, "check", "clear_client"))
            /\ UNCHANGED <<state, made, callback, client>>

ClearClient(t) == /\ Go(t, "clear_client", "report_lost")
                  /\ client' = "none"
                  /\ UNCHANGED <<state, made, callback>>

ReportLost(t) == /\ Go(t, "report_lost", "connecting")
                 /\ state' = "Started"
                 /\ UNCHANGED <<made, callback, client>>

(* Connections close, and the calls and the stop threads set main_state, to anything
   but UserspaceReady. *)
Elsewhere ==
    /\ state' = state \/ state' \in Ended \cup {"Started"}
    /\ callback' = callback \/ (callback = "open" /\ callback' = "closed")
    /\ client' = client \/ (client = "open" /\ client' = "closed")
    /\ made' \in [Threads -> {"none", "open", "closed"}]
    /\ \A t \in Threads : made'[t] = made[t] \/ (made[t] = "open" /\ made'[t] = "closed")
    /\ UNCHANGED thread

Restart == /\ state' = "Stopped"
           /\ thread' = [t \in Threads |-> "none"]
           /\ made' = [t \in Threads |-> "none"]
           /\ callback' = "none"
           /\ client' = "none"

ThreadStep(t) == \/ Spawn(t) \/ Connect(t) \/ FailToConnect(t) \/ GiveUp(t)
                 \/ StoreClient(t) \/ ReportReady(t)
                 \/ Poll(t) \/ Check(t) \/ ClearClient(t) \/ ReportLost(t)

Next == (\E t \in Threads : ThreadStep(t)) \/ Elsewhere \/ Restart

Spec == Init /\ [][Next]_vars
=============================================================================
