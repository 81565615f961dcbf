----------------------------- MODULE TaskLedger -----------------------------
(***************************************************************************)
(* What a queue promises about its tasks, without threads, tables, mutexes *)
(* or processes.  SqliteQueue implements it (SqliteQueue, Ledger).         *)
(*                                                                         *)
(* A task is born once, in the order of the IDs.  It waits until it is     *)
(* removed, cleared or finished.  One task at a time is running, the       *)
(* oldest that waits when it starts; only a running task finishes.  A task *)
(* that runs may be cleared: it then finishes all the same.                *)
(***************************************************************************)
EXTENDS Integers

CONSTANT MaxID
IDs == 0..(MaxID - 1)

VARIABLES state, running
ledger == <<state, running>>

Init == state = [id \in IDs |-> "unborn"] /\ running = {}

\* No younger task is born yet.
Accept(id) ==
    /\ \A j \in IDs : j >= id => state[j] = "unborn"
    /\ state' = [state EXCEPT ![id] = "waiting"]
    /\ UNCHANGED running

Remove(id) ==
    /\ state[id] = "waiting" /\ id \notin running
    /\ state' = [state EXCEPT ![id] = "gone"]
    /\ UNCHANGED running

Clear(what) ==
    /\ state' = [id \in IDs |-> IF state[id] = what THEN "gone" ELSE state[id]]
    /\ UNCHANGED running

Start(id) ==
    /\ running = {}
    /\ \A j \in IDs : state[j] = "waiting" => id <= j
    /\ state[id] \in {"waiting", "gone"}
    /\ running' = {id}
    /\ UNCHANGED state

Finish(id) ==
    /\ id \in running
    /\ state[id] \in {"waiting", "gone"}
    /\ state' = [state EXCEPT ![id] = "finished"]
    /\ running' = {}

\* A run comes to nothing: the task waits for the next start ...
Abandon == running' = {} /\ UNCHANGED state

\* ... or, when the server dies between two commits, is lost.
Lose(id) ==
    /\ id \in running
    /\ state' = [state EXCEPT ![id] = "gone"]
    /\ running' = {}

Next ==
    \/ \E id \in IDs : Accept(id) \/ Remove(id) \/ Start(id) \/ Finish(id) \/ Lose(id)
    \/ \E what \in {"waiting", "finished"} : Clear(what)
    \/ Abandon

Spec == Init /\ [][Next]_ledger
=============================================================================
