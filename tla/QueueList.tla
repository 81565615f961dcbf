----------------------------- MODULE QueueList -----------------------------
(***************************************************************************)
(* The list of the server's queues: SQLiteQueueList, the gRPC handlers     *)
(* that call it on threads of their own (queuelistimpl.cpp, queueimpl.cpp),*)
(* the opening of a queue's file (SQLiteQueue::connectToDB), the start of  *)
(* the server, which opens every file it finds, and its end.               *)
(*                                                                         *)
(* Nothing protects m_queueList.  A call on it is a window, open from when *)
(* the thread may make it until it has; two windows that overlap, one of   *)
(* them writing, are undefined behaviour: an entry is not found, an        *)
(* insertion is lost, or the server dies.                                  *)
(*                                                                         *)
(* A queue is an object that shared pointers keep alive; what it does is   *)
(* SqliteQueue's matter, here it has a file, a counter of IDs in it, and a *)
(* main loop that is on, off or hangs.  An SQL statement is a step, and    *)
(* may find the file busy when somebody else has it open: no connection    *)
(* sets a busy timeout.                                                    *)
(***************************************************************************)
EXTENDS Integers, FiniteSets

CONSTANTS
    Names,          \* of queues, each the stem of its file's name
    Handlers,       \* threads that serve calls
    Boot,           \* the thread that runs main()
    Queues,         \* bound: queue objects that exist at the same time
    None,           \* no queue, no name
    Ops,            \* the calls that clients make
    Deaths,         \* how the server may end: "crash", from outside, or "signal"
    MaxDeaths,      \* bound: how often since it last began to serve
    Faults          \* "statement": any SQL statement, sqlite3_open or new may
                    \* fail; "bind": the port may be taken; "hang": a main loop
                    \* may join a reader, or wait for a mutex, for ever

ASSUME OpsAndFaults ==
    /\ Ops \subseteq {"create", "delete", "rename", "list", "use"}
    /\ Faults \subseteq {"statement", "bind", "hang"} /\ Deaths \subseteq {"crash", "signal"}
ASSUME MaxDeathsIsNat == MaxDeaths \in Nat
ASSUME ThreadsAndNone == Boot \notin Handlers /\ None \notin Queues \cup Names

Threads == Handlers \cup {Boot}
Tables == <<"pending", "done", "lastID">>
\* The rows of lastID: of a counter that stands at 0, of one that does not.
Parts == {"file", "pending", "done", "lastID", "zero", "moved"}

VARIABLES
    file,           \* what there is of each file
    server, todo,   \* where main() is; the files still to be opened
    promise,        \* m_exitRequested is set
    m_queueList,    \* the queue of each name
    path, loop,     \* the queues: the name of the open file; the main loop
    lost,           \* history: those that a race on m_queueList has lost
    pc, op, obj,    \* the threads: where, in which call, with which queue
    at, rc,         \* connectToDB: the table it is at, the codes so far
    shared,         \* history: files that two queues had open at once
    deaths          \* crashes and signals since it began to serve

queues == <<path, loop, lost>>
connecting == <<at, rc>>
threads == <<pc, op, obj, connecting>>
process == <<server, todo, promise>>
history == <<shared, deaths>>
vars == <<file, process, m_queueList, queues, threads, history>>

NoOp == [kind |-> "none", name |-> None, to |-> None]
Done == [NoOp EXCEPT !.kind = "done"]

\* What a new process starts from.
Fresh ==
    /\ promise' = FALSE
    /\ m_queueList' = [n \in Names |-> None]
    /\ path' = [q \in Queues |-> None] /\ loop' = [q \in Queues |-> "off"] /\ lost' = {}
    /\ pc' = [t \in Threads |-> "idle"] /\ op' = [t \in Threads |-> NoOp]
    /\ obj' = [t \in Threads |-> None]
    /\ at' = [t \in Threads |-> 1] /\ rc' = [t \in Threads |-> <<0, 0, 0>>]

Init ==
    /\ file = [n \in Names |-> {}]
    /\ server = "down" /\ todo = {} /\ promise = FALSE
    /\ m_queueList = [n \in Names |-> None]
    /\ path = [q \in Queues |-> None] /\ loop = [q \in Queues |-> "off"] /\ lost = {}
    /\ pc = [t \in Threads |-> "idle"] /\ op = [t \in Threads |-> NoOp]
    /\ obj = [t \in Threads |-> None]
    /\ at = [t \in Threads |-> 1] /\ rc = [t \in Threads |-> <<0, 0, 0>>]
    /\ shared = {} /\ deaths = 0

Goto(t, label) == pc' = [pc EXCEPT ![t] = label]
Ends(t) == Goto(t, "idle") /\ op' = [op EXCEPT ![t] = NoOp]
Name(t) == op[t].name
Kind(t) == op[t].kind

-----------------------------------------------------------------------------
(* The server. *)

ServerDies ==
    /\ server' = "down" /\ todo' = {}
    /\ Fresh

Crash ==
    /\ "crash" \in Deaths /\ deaths < MaxDeaths /\ server # "down"
    /\ deaths' = deaths + 1
    /\ ServerDies
    /\ UNCHANGED <<file, shared>>

\* Its operator starts it again; init() goes through the directory, ...
Restart ==
    /\ server = "down"
    /\ server' = "boot"
    /\ todo' = {n \in Names : "file" \in file[n]}
    /\ UNCHANGED <<file, promise, m_queueList, queues, threads, history>>

\* ... and calls createQueue for every file before it serves anybody.
BootNext ==
    /\ server = "boot" /\ pc[Boot] = "idle"
    /\ IF todo = {}
       THEN server' = "ready" /\ UNCHANGED <<todo, pc, op>>
       ELSE \E n \in todo :
              /\ todo' = todo \ {n}
              /\ op' = [op EXCEPT ![Boot] = [kind |-> "create", name |-> n, to |-> None]]
              /\ Goto(Boot, "open")
              /\ UNCHANGED server
    /\ UNCHANGED <<file, promise, m_queueList, queues, obj, connecting, history>>

\* Server::start: BuildAndStart() gives null if it cannot listen, nobody looks at it.
Listen ==
    /\ server = "ready"
    /\ \/ /\ server' = "up" /\ deaths' = 0
          /\ UNCHANGED <<todo, promise, m_queueList, queues, threads>>
       \/ "bind" \in Faults /\ ServerDies /\ UNCHANGED deaths
    /\ UNCHANGED <<file, shared>>

\* A handler is called.
\* Mutant: calls are taken as long as others are being handled.
ServesOn == server \in {"up", "closing"}
Serves == server = "up"
Unused == {q \in Queues : path[q] = None}
CanOpen == Cardinality({t \in Handlers : pc[t] = "open"}) < Cardinality(Unused)
Call(t) ==
    /\ Serves /\ pc[t] = "idle"
    /\ \E k \in Ops, n \in Names, to \in Names \cup {None} :
          /\ (k = "rename") = (to # None)
          /\ k = "create" => CanOpen
          /\ op' = [op EXCEPT ![t] = [kind |-> k, name |-> n, to |-> to]]
          /\ Goto(t, IF k = "create" THEN "open" ELSE "in")
    /\ UNCHANGED <<file, process, m_queueList, queues, obj, connecting, history>>

-----------------------------------------------------------------------------
(* createQueue: a new queue, connectToDB on its file. *)

Open(t) ==
    /\ pc[t] = "open"
    /\ \E q \in Unused :
          /\ path' = [path EXCEPT ![q] = Name(t)]
          /\ obj' = [obj EXCEPT ![t] = q]
    /\ file' = [file EXCEPT ![Name(t)] = @ \cup {"file"}]
    /\ shared' = IF \E q \in Queues : path[q] = Name(t) THEN shared \cup {Name(t)} ELSE shared
    /\ Goto(t, "look") \/ ("statement" \in Faults /\ Goto(t, "close"))
    /\ UNCHANGED <<process, m_queueList, loop, lost, op, connecting, deaths>>

Table(t) == Tables[at[t]]
Has(t, part) == part \in file[Name(t)]
Adds(t, part) == file' = [file EXCEPT ![Name(t)] = @ \cup {part}]

\* SQLITE_BUSY takes somebody else who has the file open.
Busy(t) == \E q \in Queues \ {obj[t]} : path[q] = path[obj[t]]
MayFail(t) == "statement" \in Faults \/ Busy(t)

\* The tables are all there or all new.
\* Mutant: the code of verifyID is not compared.
TablesAgree(codes) == codes[1] = codes[2]
AllAgree(codes) == codes[1] = codes[2] /\ codes[2] = codes[3]

\* Only the first failure is an error at once: the tests after verifyTable("done")
\* and verifyID() look at rcPending again.
\* Mutant: one table too many.
OneTooMany == 4
LastTable == 3
Verified(t, code) ==
    LET codes  == [rc[t] EXCEPT ![at[t]] = code]
        failed == at[t] = 1 /\ code = 1
    IN  IF ~failed /\ at[t] < LastTable
        THEN /\ rc' = [rc EXCEPT ![t] = codes] /\ at' = [at EXCEPT ![t] = @ + 1]
             /\ Goto(t, "look")
        ELSE /\ rc' = [rc EXCEPT ![t] = <<0, 0, 0>>] /\ at' = [at EXCEPT ![t] = 1]
             /\ Goto(t, IF failed \/ ~AllAgree(codes) THEN "close" ELSE "in")

\* What a table that is there is worth: lastID needs a row, and no more than one.
OneRow(n) == "zero" \in file[n] <=> "moved" \notin file[n]
CodeOfTable(t) == IF Table(t) = "lastID" /\ ~OneRow(Name(t)) THEN 1 ELSE 0

\* verifyTable, verifyID: is it there?
Look(t) ==
    /\ pc[t] = "look"
    /\ \/ Has(t, Table(t)) /\ Verified(t, CodeOfTable(t))
       \/ ~Has(t, Table(t)) /\ Goto(t, "make") /\ UNCHANGED connecting
       \/ MayFail(t) /\ Verified(t, 1)
    /\ UNCHANGED <<file, process, m_queueList, queues, op, obj, history>>

\* create table: fails when somebody else was faster.
\* Mutant: it is never committed.
AddsNothing(t, part) == UNCHANGED file
MakesTable(t, part) == Adds(t, part)
Make(t) ==
    /\ pc[t] = "make"
    /\ \/ /\ ~Has(t, Table(t))
          /\ MakesTable(t, Table(t))
          /\ IF Table(t) = "lastID" THEN Goto(t, "row") /\ UNCHANGED connecting
                                    ELSE Verified(t, 2)
       \/ /\ Has(t, Table(t)) \/ MayFail(t)
          /\ UNCHANGED file
          /\ \/ Verified(t, 1)
             \* a failed sqlite3_step does not keep verifyID from the next statement
             \/ Table(t) = "lastID" /\ Goto(t, "row") /\ UNCHANGED connecting
    /\ UNCHANGED <<process, m_queueList, queues, op, obj, history>>

\* insert into lastID values(0): there must be the table, and no row 0; whether there
\* is one when a counter has been started again beside the first is not kept.
InsertRow(t) ==
    /\ pc[t] = "row"
    /\ \/ /\ Has(t, "lastID") /\ (Has(t, "zero") => Has(t, "moved"))
          /\ Adds(t, "zero") /\ Verified(t, 2)
       \/ /\ ~Has(t, "lastID") \/ Has(t, "zero") \/ MayFail(t)
          /\ UNCHANGED file /\ Verified(t, 1)
    /\ UNCHANGED <<process, m_queueList, queues, op, obj, history>>

\* It failed: the queue is deleted, and main() gives up.
\* Mutant: it goes on with the next file.
CloseSkips(t) ==
    /\ pc[t] = "close"
    /\ path' = [path EXCEPT ![obj[t]] = None]
    /\ obj' = [obj EXCEPT ![t] = None]
    /\ Ends(t)
    /\ UNCHANGED <<file, process, m_queueList, loop, lost, connecting, history>>
Close(t) ==
    /\ pc[t] = "close"
    /\ IF t = Boot
       THEN ServerDies
       ELSE /\ path' = [path EXCEPT ![obj[t]] = None]
            /\ obj' = [obj EXCEPT ![t] = None]
            /\ Ends(t)
            /\ UNCHANGED <<process, m_queueList, loop, lost, connecting>>
    /\ UNCHANGED <<file, history>>

-----------------------------------------------------------------------------
(* m_queueList. *)

Writes(t) == Kind(t) \in {"create", "delete", "rename", "erase"}
Conflict(t) == \E u \in Threads \ {t} : pc[u] = "in" /\ (Writes(t) \/ Writes(u))
Find(t) == {m_queueList[Name(t)]} \cup (IF Conflict(t) THEN {None} ELSE {})

Corrupt(t) ==
    /\ pc[t] = "in" /\ Conflict(t)
    /\ ServerDies
    /\ UNCHANGED <<file, history>>

\* The call is over, or there is a queue to let go of first.
Erasing(call) == [call EXCEPT !.kind = "erase", !.to = None]
LetGo(t, q) ==
    /\ obj' = [obj EXCEPT ![t] = q]
    /\ IF q = None THEN Ends(t)
       ELSE /\ Goto(t, "release")
            /\ op' = [op EXCEPT ![t] = IF @.kind = "rename" THEN Erasing(@) ELSE Done]

\* m_queueList[name] = queue, over whatever had the name.
Insert(t) ==
    /\ pc[t] = "in" /\ Kind(t) = "create"
    /\ \/ /\ \E old \in Find(t) :
                /\ LetGo(t, old)
                /\ lost' = lost \cup ({m_queueList[Name(t)]} \ {old, None})
          /\ m_queueList' = [m_queueList EXCEPT ![Name(t)] = obj[t]]
       \/ /\ Conflict(t)
          /\ LetGo(t, None)
          /\ lost' = lost \cup {obj[t]}
          /\ UNCHANGED m_queueList
    /\ UNCHANGED <<file, process, path, loop, connecting, history>>

\* m_queueList.erase(name), the whole of deleteQueue, the end of renameQueue.
Erase(t) ==
    /\ pc[t] = "in" /\ Kind(t) \in {"delete", "erase"}
    /\ \E old \in Find(t) :
          /\ LetGo(t, old)
          /\ m_queueList' = [m_queueList EXCEPT ![Name(t)] = IF old = None THEN @ ELSE None]
    /\ UNCHANGED <<file, process, queues, connecting, history>>

\* renameQueue: m_queueList[newName] = it.second, before the erase.
Rename(t) ==
    /\ pc[t] = "in" /\ Kind(t) = "rename"
    /\ \E q \in Find(t) :
          IF q = None
          THEN LetGo(t, None) /\ UNCHANGED m_queueList
          ELSE LET old == m_queueList[op[t].to]
               IN  /\ m_queueList' = [m_queueList EXCEPT ![op[t].to] = q]
                   /\ IF old \notin {None, q} THEN LetGo(t, old)
                      ELSE /\ Goto(t, "in") /\ UNCHANGED obj
                           /\ op' = [op EXCEPT ![t] = Erasing(@)]
    /\ UNCHANGED <<file, process, queues, connecting, history>>

List(t) ==
    /\ pc[t] = "in" /\ Kind(t) = "list"
    /\ Ends(t)
    /\ UNCHANGED <<file, process, m_queueList, queues, obj, connecting, history>>

\* getQueue gives the handler a pointer of its own, ...
GetQueue(t) ==
    /\ pc[t] = "in" /\ Kind(t) = "use"
    /\ \E q \in Find(t) :
          /\ obj' = [obj EXCEPT ![t] = q]
          /\ IF q = None THEN Ends(t)
             ELSE Goto(t, "use") /\ op' = [op EXCEPT ![t] = Done]
    /\ UNCHANGED <<file, process, m_queueList, queues, connecting, history>>

\* ... with which it starts the queue, unless "Queue is running.", ...
Start(t) ==
    /\ pc[t] = "use"
    /\ loop' = [loop EXCEPT ![obj[t]] = IF @ = "off" THEN "on" ELSE @]
    /\ Goto(t, "release")
    /\ UNCHANGED <<file, process, m_queueList, path, lost, op, obj, connecting, history>>

\* ... or adds a task: getID moves the counter on, if there is one row and only one.
AddTask(t) ==
    /\ pc[t] = "use"
    /\ \/ /\ OneRow(path[obj[t]])
          /\ file' = [file EXCEPT ![path[obj[t]]] = (@ \ {"zero"}) \cup {"moved"}]
       \/ /\ ~OneRow(path[obj[t]]) \/ MayFail(t)
          /\ UNCHANGED file
    /\ Goto(t, "release")
    /\ UNCHANGED <<process, m_queueList, queues, op, obj, connecting, history>>

-----------------------------------------------------------------------------
(* The end of a queue. *)

\* No task is left, or, once m_start is taken away, the current one has ended.
LoopEnds(q) ==
    /\ loop[q] \in {"on", "stopping"}
    /\ loop' = [loop EXCEPT ![q] = "off"]
    /\ UNCHANGED <<file, process, m_queueList, path, lost, threads, history>>

\* It joins the reader of the task before, which has not ended, or waits in
\* mainLoopFin for the mutex of a removeTask that waits for the other one.
LoopHangs(q) ==
    /\ "hang" \in Faults /\ loop[q] \in {"on", "stopping"}
    /\ loop' = [loop EXCEPT ![q] = "hung"]
    /\ UNCHANGED <<file, process, m_queueList, path, lost, threads, history>>

\* Mutant: only the list keeps a queue alive.
Listed(t) == \E n \in Names : m_queueList[n] = obj[t]
Referenced(t) ==
    \/ \E n \in Names : m_queueList[n] = obj[t]
    \/ \E u \in Threads \ {t} : obj[u] = obj[t]

\* The destructor stops the queue ...
\* Mutant: it does not.
LeftOn(l) == l
Stopped(l) == IF l = "on" THEN "stopping" ELSE l

\* renameQueue goes on after it has let go of the old target.
Return(t) == IF Kind(t) = "erase" THEN Goto(t, "in") /\ UNCHANGED op ELSE Ends(t)
Release(t) ==
    /\ pc[t] = "release"
    /\ IF Referenced(t)
       THEN obj' = [obj EXCEPT ![t] = None] /\ Return(t) /\ UNCHANGED loop
       ELSE /\ loop' = [loop EXCEPT ![obj[t]] = Stopped(@)]
            /\ Goto(t, "destroy")
            /\ UNCHANGED <<op, obj>>
    /\ UNCHANGED <<file, process, m_queueList, path, lost, connecting, history>>

\* ... and joins its main loop.
Destroy(t) ==
    /\ pc[t] = "destroy" /\ loop[obj[t]] = "off"
    /\ path' = [path EXCEPT ![obj[t]] = None]
    /\ obj' = [obj EXCEPT ![t] = None]
    /\ Return(t)
    /\ UNCHANGED <<file, process, m_queueList, loop, lost, connecting, history>>

-----------------------------------------------------------------------------
(* The end of the server.  *)

\* The handler of signals sets the promise that main() waits for; of the second one it
\* throws, and nobody catches it.
Signal ==
    /\ "signal" \in Deaths /\ deaths < MaxDeaths
    /\ server \in {"ready", "up", "closing", "ending", "over"}
    /\ deaths' = deaths + 1
    /\ IF promise
       THEN ServerDies
       ELSE promise' = TRUE /\ UNCHANGED <<server, todo, m_queueList, queues, threads>>
    /\ UNCHANGED <<file, shared>>

\* m_server->Shutdown(): no more calls, ...
Shutdown ==
    /\ server = "up" /\ promise
    /\ server' = "closing"
    /\ UNCHANGED <<file, todo, promise, m_queueList, queues, threads, history>>

\* ... and back when those that are handled have been.
\* Mutant: at once.
HandlersGone == TRUE
HandlersIdle == \A t \in Handlers : pc[t] = "idle"
Closed ==
    /\ server = "closing" /\ HandlersIdle
    /\ server' = "ending"
    /\ UNCHANGED <<file, todo, promise, m_queueList, queues, threads, history>>

\* After main(): sqliteQueueList, declared after server, is destroyed before it, and
\* with it the queues, one after the other.
DropNext ==
    /\ server = "ending" /\ pc[Boot] = "idle"
    /\ \E n \in Names :
          /\ m_queueList[n] # None
          /\ m_queueList' = [m_queueList EXCEPT ![n] = None]
          /\ obj' = [obj EXCEPT ![Boot] = m_queueList[n]]
          /\ op' = [op EXCEPT ![Boot] = Done]
    /\ Goto(Boot, "release")
    /\ UNCHANGED <<file, process, queues, connecting, history>>
Dropped ==
    /\ server = "ending" /\ pc[Boot] = "idle"
    /\ \A n \in Names : m_queueList[n] = None
    /\ server' = "over"
    /\ UNCHANGED <<file, todo, promise, m_queueList, queues, threads, history>>

\* ~Server sets the promise once more: std::terminate.
Terminate ==
    /\ server = "over"
    /\ ServerDies
    /\ UNCHANGED <<file, history>>

Main == BootNext \/ Listen \/ Shutdown \/ Closed \/ DropNext \/ Dropped \/ Terminate

Step(t) ==
    \/ Open(t) \/ Look(t) \/ Make(t) \/ InsertRow(t) \/ Close(t)
    \/ Insert(t) \/ Erase(t) \/ Rename(t) \/ List(t) \/ GetQueue(t)
    \/ Start(t) \/ AddTask(t) \/ Release(t) \/ Destroy(t)

Next ==
    \/ Crash \/ Restart \/ Main \/ Signal
    \/ \E t \in Handlers : Call(t)
    \/ \E t \in Threads : Step(t) \/ Corrupt(t)
    \/ \E q \in Queues : LoopEnds(q) \/ LoopHangs(q)

Spec == Init /\ [][Next]_vars

\* With a queue whose main loop hangs: a call on it may not return, its destructor
\* does not.
Hangs(t) == pc[t] \in {"use", "destroy"} /\ loop[obj[t]] = "hung"

\* Threads are scheduled, a stopped main loop ends or hangs, a dead server is
\* restarted; that a queue runs out of tasks is not promised.
FairSpec ==
    /\ Spec
    /\ WF_vars(Restart) /\ WF_vars(Main)
    /\ \A t \in Threads : WF_vars(~Hangs(t) /\ Step(t))
    /\ \A q \in Queues : WF_vars(loop[q] = "stopping" /\ LoopEnds(q))

-----------------------------------------------------------------------------
(* Properties. *)

TypeOK ==
    /\ file \in [Names -> SUBSET Parts]
    /\ server \in {"down", "boot", "ready", "up", "closing", "ending", "over"}
    /\ todo \subseteq Names /\ promise \in BOOLEAN
    /\ m_queueList \in [Names -> Queues \cup {None}]
    /\ path \in [Queues -> Names \cup {None}]
    /\ loop \in [Queues -> {"off", "on", "stopping", "hung"}] /\ lost \subseteq Queues
    /\ pc \in [Threads -> {"idle", "open", "look", "make", "row", "close", "in", "use",
                           "release", "destroy"}]
    /\ op \in [Threads -> [kind : Ops \cup {"none", "create", "erase", "done"},
                           name : Names \cup {None}, to : Names \cup {None}]]
    /\ obj \in [Threads -> Queues \cup {None}]
    /\ at \in [Threads -> 1..3] /\ rc \in [Threads -> {<<a, b, c>> : a, b, c \in 0..2}]
    /\ shared \subseteq Names /\ deaths \in 0..MaxDeaths

\* Everything is there and, unless two queues had the file open at once, the counter
\* is one that getID and verifyID accept.
Whole(n) ==
    /\ Parts \ {"zero", "moved"} \subseteq file[n]
    /\ "zero" \in file[n] \/ "moved" \in file[n]
    /\ n \in shared \/ OneRow(n)

\* A queue that can be called has a file with every table and a counter, however
\* statements fail, servers crash and two threads create the same queue.  A second row
\* that makes the counter useless takes two queues that had the file open at once.
\* (connectToDB's comparison of the three codes, verifyID, getID)
OpenedIsWhole == \A n \in Names : m_queueList[n] # None => Whole(path[m_queueList[n]])

\* No thread starts a queue that has been destroyed, the list names none, and no
\* main loop outlives its queue, whoever deletes, renames or creates meanwhile.
\* (getQueue's copy of the shared_ptr, the order of destruction of SQLiteQueue)
NoDanglingQueue ==
    /\ \A n \in Names : m_queueList[n] # None => path[m_queueList[n]] # None
    /\ \A t \in Threads : pc[t] = "use" => path[obj[t]] # None
    /\ \A q \in Queues : loop[q] # "off" => path[q] # None

\* When the server begins to serve, its list is that of the files, each under the
\* name of its own: renames are undone and deleted queues are back.
\* (SQLiteQueueList::init; renameQueue and deleteQueue leave the files alone)
ListIsOfFiles ==
    server = "ready" =>
       /\ \A n \in Names : m_queueList[n] # None <=> "file" \in file[n]
       /\ \A n \in Names : m_queueList[n] # None => path[m_queueList[n]] = n

\* A server that is told to stop leaves no queue behind: when the list is gone, so are
\* all queues and their main loops, those that a handler replaced or deleted last, too,
\* but for those that a race has lost before.
\* (Server::start's Shutdown, the order of sqliteQueueList and server)
NothingRunsOn ==
    server = "over" => \A q \in Queues \ lost : path[q] = None /\ loop[q] = "off"

\* A signal ends the server, however busy queues and clients are, unless a call or a
\* destructor has a main loop to wait for that hangs.
\* (servermain.cpp's sighandler, Server::stop)
ShutdownEnds == promise ~> (server = "down" \/ \E t \in Threads : Hangs(t))

\* A call returns, though deleting, replacing or creating a queue may have to wait
\* for a main loop that would never run out of tasks, or the server dies; a main loop
\* that hangs is the only thing that may keep it.
\* (SQLiteQueue::~SQLiteQueue, LinuxProc::start, mainLoopFin)
CallsReturn ==
    \A t \in Handlers : (pc[t] \notin {"idle", "open"}) ~> (pc[t] = "idle" \/ Hangs(t))

\* A server that died comes up again, after as many attempts as it takes to make
\* the tables a crash left out, unless a counter has no row or has two.
\* (SQLiteQueueList::init, connectToDB)
Unopenable(n) == "lastID" \in file[n] /\ ~OneRow(n)
ComesUp == (server = "down") ~> (server = "up" \/ \E n \in Names : Unopenable(n))

\* "Queue is running.": nobody starts a second main loop on the tasks of a queue.
OneLoopPerFile ==
    \A p, q \in Queues : loop[p] = "on" /\ loop[q] = "on" /\ path[p] = path[q] => p = q
=============================================================================
