---------------------------- MODULE SqliteQueue ----------------------------
(***************************************************************************)
(* One queue of the server: class SQLiteQueue (model/dao/sqlitequeue.cpp), *)
(* the LinuxProc it owns (model/proc/linuxproc.cpp), the RPC threads that  *)
(* call it and the children it forks.                                      *)
(*                                                                         *)
(* A step is what a thread does between two points where another thread,   *)
(* a child or a crash can tell the difference: a mutex is taken, an atomic *)
(* is loaded or stored, an SQL statement commits, a system call returns.   *)
(* Atomics and m_pid are read and written in program order.                *)
(*                                                                         *)
(* The file survives a crash, everything else starts again from Init.      *)
(***************************************************************************)
EXTENDS TaskTable, FiniteSets

CONSTANTS
    Clients,    \* threads that call the queue: gRPC handlers, or the CLI
    Nobody,     \* the owner of a free mutex
    MaxStarts,  \* bound: calls of start(), each creates one main loop
    MaxID,      \* bound: IDs ever handed out
    MaxPid,     \* bound: children that exist at the same time
    Ops,        \* the operations the clients call
    Faults      \* the faults of the environment

Operations == {"addTask", "removeTask", "clearPending", "clearFinished",
               "currentTask", "query", "start", "stop"}
FaultKinds == {"crash",    \* the server dies and is started again
               "prepare",  \* sqlite3_prepare_v2 fails
               "step",     \* sqlite3_step fails
               "admin",    \* the server runs as super user
               "fork",     \* forkpty fails
               "setup"}    \* fcntl, epoll_create1 or epoll_ctl fails

Loops == 1..MaxStarts
NoLoop == 0
IDs == 0..(MaxID - 1)
Pids == 1..MaxPid

ASSUME BoundsAreNat == MaxStarts \in Nat /\ MaxID \in Nat \ {0} /\ MaxPid \in Nat
ASSUME FiniteClients == IsFiniteSet(Clients)
ASSUME OwnersDiffer == Nobody \notin Clients \cup Loops /\ Clients \cap Loops = {}
ASSUME OpsAndFaults == Ops \subseteq Operations /\ Faults \subseteq FaultKinds

VARIABLES
    pending, done, lastID,                 \* the file
    tokenMutex, currentTaskMutex,          \* the owners of the mutexes
    m_isRunning, m_start, m_thread,        \* the flags, the main loop's handle
    m_currentTask,
    m_pid, m_exitCode, m_reader,           \* LinuxProc
    proc,                                  \* the children, by pid
    loopPc, loopFailed,                    \* the main loops
    pc, arg, old,                          \* the clients
    \* History variables: no step of the code reads them.
    accepted, removed, cleared,            \* IDs inserted, removed, cleared
    taskOf, ran,                           \* whose child; how its last run ended
    starts,                                \* calls of start() so far
    incidents                              \* what went wrong so far

file == <<pending, done, lastID>>
mutexes == <<tokenMutex, currentTaskMutex>>
flags == <<m_isRunning, m_start>>
process == <<m_pid, m_exitCode, m_reader, proc>>
loops == <<loopPc, loopFailed>>
clients == <<pc, arg, old>>
history == <<accepted, removed, cleared, taskOf, ran, starts, incidents>>
vars == <<file, mutexes, flags, m_thread, m_currentTask, process, loops,
          clients, history>>

-----------------------------------------------------------------------------
(* Children and what waitpid and kill say about them. *)

\* A wait status, abstracted: exited with 0, with another code, or killed.
Statuses == {"exit0", "exit1", "sig9"}
Incidents == {"overlap",     \* a main loop was created while another was alive
              "fork", "setup",
              "undeleted",   \* a finished task's row stayed in pending
              "unfinished"}  \* its row left pending and never reached done

Alive(p) == proc[p] \in {"running", "dying"}

\* The children waitpid(m_pid) asks about.  No child shares the group of its
\* parent (forkpty gives it a session), so pid 0, before any fork, means none.
Awaited == IF m_pid > 0 THEN {m_pid} ELSE IF m_pid = -1 THEN Pids ELSE {}
Zombies == {p \in Awaited : proc[p] \in Statuses}

\* LinuxProc::isRunning(): waitpid(m_pid, WNOHANG) returned 0, or reaped the
\* child, or failed with ECHILD.
ChildRuns == Zombies = {} /\ \E p \in Awaited : Alive(p)
\* Mutant: the status is not stored.
ReapForgets ==
    \/ Zombies = {} /\ UNCHANGED <<m_exitCode, proc>>
    \/ \E p \in Zombies :
          proc' = [proc EXCEPT ![p] = "none"] /\ UNCHANGED m_exitCode
Reap ==
    \/ /\ Zombies = {}
       /\ UNCHANGED <<m_exitCode, proc>>
    \/ \E p \in Zombies :
          /\ m_exitCode' = proc[p]
          /\ proc' = [proc EXCEPT ![p] = "none"]

\* The children kill(m_pid, SIGKILL) reaches; pid -1 means all of them.
Killed == [p \in Pids |->
            IF p \in Awaited /\ proc[p] = "running" THEN "dying" ELSE proc[p]]

\* Task(): what m_currentTask holds between two tasks.
\* Mutant: an ID no row can have.
NoTaskMinusOne == [ID |-> -1, exitCode |-> "exit0"]
NoTask == [ID |-> 0, exitCode |-> "exit0"]

\* getID: the ID after l.
\* Mutant: the counter stands still.
SameID(l) == l
NextID(l) == l + 1

LoopAlive(l) == loopPc[l] \notin {"none", "ended"}

-----------------------------------------------------------------------------
(* The initial state, and a new start of the server. *)

Init ==
    /\ pending = <<>> /\ done = {} /\ lastID = 0
    /\ tokenMutex = Nobody /\ currentTaskMutex = Nobody
    /\ m_isRunning = FALSE /\ m_start = FALSE /\ m_thread = NoLoop
    /\ m_currentTask = NoTask
    /\ m_pid = 0 /\ m_exitCode = "exit0" /\ m_reader = FALSE
    /\ proc = [p \in Pids |-> "none"]
    /\ loopPc = [l \in Loops |-> "none"]
    /\ loopFailed = [l \in Loops |-> FALSE]
    /\ pc = [c \in Clients |-> "idle"]
    /\ arg = [c \in Clients |-> 0]
    /\ old = [c \in Clients |-> NoLoop]
    /\ accepted = {} /\ removed = {} /\ cleared = {}
    /\ taskOf = [p \in Pids |-> 0]
    /\ ran = [i \in IDs |-> "never"]
    /\ starts = 0
    /\ incidents = {}

\* The server dies and is started again: only the file is as it was.  The
\* children lose their terminal; they are not children of the new server.
ServerDies ==
    /\ tokenMutex' = Nobody /\ currentTaskMutex' = Nobody
    /\ m_isRunning' = FALSE /\ m_start' = FALSE /\ m_thread' = NoLoop
    /\ m_currentTask' = NoTask
    /\ m_pid' = 0 /\ m_exitCode' = "exit0" /\ m_reader' = FALSE
    /\ proc' = [p \in Pids |-> "none"]
    /\ loopPc' = [l \in Loops |-> IF loopPc[l] = "none" THEN "none" ELSE "ended"]
    /\ loopFailed' = [l \in Loops |-> FALSE]
    /\ pc' = [c \in Clients |-> "idle"]
    /\ arg' = [c \in Clients |-> 0]
    /\ old' = [c \in Clients |-> NoLoop]
    /\ incidents' = IF \E l \in Loops : loopPc[l] = "fin.insert"
                    THEN incidents \cup {"unfinished"} ELSE incidents
    /\ UNCHANGED <<file, accepted, removed, cleared, taskOf, ran, starts>>

Crash == "crash" \in Faults /\ ServerDies

-----------------------------------------------------------------------------
(* The clients.  Goto moves a client on, Return ends its call. *)

Goto(c, label) == pc' = [pc EXCEPT ![c] = label] /\ UNCHANGED <<arg, old>>
Return(c) ==
    /\ pc' = [pc EXCEPT ![c] = "idle"]
    /\ arg' = [arg EXCEPT ![c] = 0]
    /\ old' = [old EXCEPT ![c] = NoLoop]

\* Mutant: the mutex is not waited for.
SeizeToken(t) == tokenMutex' = t
LockToken(t) == tokenMutex = Nobody /\ tokenMutex' = t
\* Mutant: it is not released.
KeepToken == UNCHANGED tokenMutex
UnlockToken == tokenMutex' = Nobody

\* An RPC arrives and its handler calls the queue.
Call(c, op, label, a) ==
    /\ pc[c] = "idle" /\ op \in Ops
    /\ pc' = [pc EXCEPT ![c] = label]
    /\ arg' = [arg EXCEPT ![c] = a]
    /\ starts' = IF op = "start" THEN starts + 1 ELSE starts
    /\ UNCHANGED <<file, mutexes, flags, m_thread, m_currentTask, process, loops,
                   old, accepted, removed, cleared, taskOf, ran, incidents>>

\* The bound on IDs: one for each call that has yet to take its own.
IDsLeft ==
    lastID + Cardinality({d \in Clients : pc[d] \in {"add.select", "add.update"}})
        < MaxID

CallAny(c) ==
    \/ IDsLeft /\ Call(c, "addTask", "add.select", 0)
    \/ \E id \in IDs : Call(c, "removeTask", "remove.lock", id)
    \/ Call(c, "clearPending", "clear.lock", 0)
    \/ Call(c, "clearFinished", "clearFinished", 0)
    \/ Call(c, "currentTask", "current.check", 0)
    \/ Call(c, "query", "query", 0)
    \/ starts < MaxStarts /\ Call(c, "start", "start.check", starts + 1)
    \/ Call(c, "stop", "stop.check", 0)

\* addTask holds the token's mutex over three statements.
AddSelect(c) ==
    /\ pc[c] = "add.select"
    /\ LockToken(c)
    /\ pc' = [pc EXCEPT ![c] = "add.update"]
    /\ arg' = [arg EXCEPT ![c] = lastID]
    /\ UNCHANGED <<file, currentTaskMutex, flags, m_thread, m_currentTask, process,
                   loops, old, history>>

AddUpdate(c) ==
    /\ pc[c] = "add.update"
    /\ lastID' = NextID(arg[c])
    /\ Goto(c, "add.insert")
    /\ UNCHANGED <<pending, done, mutexes, flags, m_thread, m_currentTask, process,
                   loops, history>>

AddInsert(c) ==
    /\ pc[c] = "add.insert"
    /\ pending' = InsertPending(pending, arg[c])
    /\ accepted' = accepted \cup {arg[c]}
    /\ UnlockToken /\ Return(c)
    /\ UNCHANGED <<done, lastID, currentTaskMutex, flags, m_thread, m_currentTask,
                   process, loops, removed, cleared, taskOf, ran, starts, incidents>>

\* A statement fails: addTask and removeTask return the error.
StatementFault == Faults \cap {"prepare", "step"} # {}
StatementFails(c) ==
    /\ StatementFault
    /\ pc[c] \in {"add.update", "add.insert", "remove.delete"}
    /\ UnlockToken /\ Return(c)
    /\ UNCHANGED <<file, currentTaskMutex, flags, m_thread, m_currentTask, process,
                   loops, history>>

RemoveLock(c) ==
    /\ pc[c] = "remove.lock"
    /\ LockToken(c) /\ Goto(c, "remove.check")
    /\ UNCHANGED <<file, currentTaskMutex, flags, m_thread, m_currentTask, process,
                   loops, history>>

\* "Cannot remove current task": compared under m_currentTaskMutex, which is
\* released before the statement runs.
\* Mutant: no comparison with the current task.
NeverCurrent(id) == FALSE
IsCurrent(id) == id = m_currentTask.ID
RemoveCheck(c) ==
    /\ pc[c] = "remove.check"
    /\ currentTaskMutex = Nobody
    /\ IF IsCurrent(arg[c]) THEN UnlockToken /\ Return(c)
                            ELSE Goto(c, "remove.delete") /\ UNCHANGED tokenMutex
    /\ UNCHANGED <<file, currentTaskMutex, flags, m_thread, m_currentTask, process,
                   loops, history>>

RemoveDelete(c) ==
    /\ pc[c] = "remove.delete"
    /\ pending' = DeletePending(pending, arg[c])
    /\ removed' = removed \cup ({arg[c]} \cap RowIDs(pending))
    /\ UnlockToken /\ Return(c)
    /\ UNCHANGED <<done, lastID, currentTaskMutex, flags, m_thread, m_currentTask,
                   process, loops, accepted, cleared, taskOf, ran, starts, incidents>>

\* clearPending takes the token's mutex, then m_currentTaskMutex.
ClearLock(c) ==
    /\ pc[c] = "clear.lock"
    /\ LockToken(c) /\ Goto(c, "clear.delete")
    /\ UNCHANGED <<file, currentTaskMutex, flags, m_thread, m_currentTask, process,
                   loops, history>>

ClearDelete(c) ==
    /\ pc[c] = "clear.delete"
    /\ currentTaskMutex = Nobody
    /\ \/ pending' = <<>> /\ cleared' = cleared \cup RowIDs(pending)
       \/ StatementFault /\ UNCHANGED <<pending, cleared>>
    /\ UnlockToken /\ Return(c)
    /\ UNCHANGED <<done, lastID, currentTaskMutex, flags, m_thread, m_currentTask,
                   process, loops, accepted, removed, taskOf, ran, starts, incidents>>

ClearFinished(c) ==
    /\ pc[c] = "clearFinished"
    /\ tokenMutex = Nobody
    /\ \/ done' = {} /\ cleared' = cleared \cup DoneIDs(done)
       \/ StatementFault /\ UNCHANGED <<done, cleared>>
    /\ Return(c)
    /\ UNCHANGED <<pending, lastID, mutexes, flags, m_thread, m_currentTask, process,
                   loops, accepted, removed, taskOf, ran, starts, incidents>>

\* listPending, listFinished, pendingDetails, finishedDetails.
Query(c) ==
    /\ pc[c] = "query"
    /\ tokenMutex = Nobody
    /\ Return(c)
    /\ UNCHANGED <<file, mutexes, flags, m_thread, m_currentTask, process, loops,
                   history>>

CurrentCheck(c) ==
    /\ pc[c] = "current.check"
    /\ IF m_isRunning THEN Goto(c, "current.read") ELSE Return(c)
    /\ UNCHANGED <<file, mutexes, flags, m_thread, m_currentTask, process, loops,
                   history>>

CurrentRead(c) ==
    /\ pc[c] = "current.read"
    /\ currentTaskMutex = Nobody
    /\ Return(c)
    /\ UNCHANGED <<file, mutexes, flags, m_thread, m_currentTask, process, loops,
                   history>>

\* start(): the flag is tested and set in two steps, under no mutex.
CanStart == ~m_isRunning
StartCheck(c) ==
    /\ pc[c] = "start.check"
    /\ IF CanStart THEN Goto(c, "start.running") ELSE Return(c)
    /\ UNCHANGED <<file, mutexes, flags, m_thread, m_currentTask, process, loops,
                   history>>

StartRunning(c) ==
    /\ pc[c] = "start.running"
    /\ m_isRunning' = TRUE /\ Goto(c, "start.start")
    /\ UNCHANGED <<file, mutexes, m_start, m_thread, m_currentTask, process, loops,
                   history>>

StartStart(c) ==
    /\ pc[c] = "start.start"
    /\ m_start' = TRUE /\ Goto(c, "start.thread")
    /\ UNCHANGED <<file, mutexes, m_isRunning, m_thread, m_currentTask, process, loops,
                   history>>

\* m_thread = std::jthread(...): the new main loop runs, the old handle is
\* moved out ...
StartThread(c) ==
    /\ pc[c] = "start.thread"
    /\ loopPc' = [loopPc EXCEPT ![arg[c]] = "check"]
    /\ old' = [old EXCEPT ![c] = m_thread]
    /\ m_thread' = NoLoop
    /\ pc' = [pc EXCEPT ![c] = "start.swap"]
    /\ incidents' = IF \E l \in Loops : LoopAlive(l)
                    THEN incidents \cup {"overlap"} ELSE incidents
    /\ UNCHANGED <<file, mutexes, flags, m_currentTask, process, loopFailed, arg,
                   accepted, removed, cleared, taskOf, ran, starts>>

\* ... the new one is moved in, unless another start() was faster: assigning
\* to a joinable std::thread is std::terminate() ...
StartSwap(c) ==
    /\ pc[c] = "start.swap"
    /\ IF m_thread # NoLoop
       THEN ServerDies
       ELSE /\ m_thread' = arg[c]
            /\ Goto(c, "start.join")
            /\ UNCHANGED <<file, mutexes, flags, m_currentTask, process, loops, history>>

\* ... and the old main loop is joined.
StartJoin(c) ==
    /\ pc[c] = "start.join"
    /\ old[c] # NoLoop => loopPc[old[c]] = "ended"
    /\ Return(c)
    /\ UNCHANGED <<file, mutexes, flags, m_thread, m_currentTask, process, loops,
                   history>>

StopCheck(c) ==
    /\ pc[c] = "stop.check"
    /\ IF m_isRunning THEN Goto(c, "stop.start") ELSE Return(c)
    /\ UNCHANGED <<file, mutexes, flags, m_thread, m_currentTask, process, loops,
                   history>>

StopStart(c) ==
    /\ pc[c] = "stop.start"
    /\ m_start' = FALSE /\ Goto(c, "stop.kill")
    /\ UNCHANGED <<file, mutexes, m_isRunning, m_thread, m_currentTask, process, loops,
                   history>>

\* kill(m_pid, SIGKILL): pid 0 is the server's own process group.
StopKill(c) ==
    /\ pc[c] = "stop.kill"
    /\ IF m_pid = 0
       THEN ServerDies
       ELSE /\ proc' = Killed
            /\ Goto(c, "stop.running")
            /\ UNCHANGED <<file, mutexes, flags, m_thread, m_currentTask, m_pid,
                           m_exitCode, m_reader, loops, history>>

StopRunning(c) ==
    /\ pc[c] = "stop.running"
    /\ m_isRunning' = FALSE /\ Return(c)
    /\ UNCHANGED <<file, mutexes, m_start, m_thread, m_currentTask, process, loops,
                   history>>

ClientStep(c) ==
    \/ AddSelect(c) \/ AddUpdate(c) \/ AddInsert(c) \/ StatementFails(c)
    \/ RemoveLock(c) \/ RemoveCheck(c) \/ RemoveDelete(c)
    \/ ClearLock(c) \/ ClearDelete(c) \/ ClearFinished(c)
    \/ Query(c) \/ CurrentCheck(c) \/ CurrentRead(c)
    \/ StartCheck(c) \/ StartRunning(c) \/ StartStart(c)
    \/ StartThread(c) \/ StartSwap(c) \/ StartJoin(c)
    \/ StopCheck(c) \/ StopStart(c) \/ StopKill(c) \/ StopRunning(c)

-----------------------------------------------------------------------------
(* The main loops. *)

LoopGoto(l, label) == loopPc' = [loopPc EXCEPT ![l] = label]

\* while (m_start)
\* Mutant: the loop does not look at m_start.
LoopCheckBlind(l) ==
    /\ loopPc[l] = "check" /\ LoopGoto(l, "select")
    /\ UNCHANGED <<file, mutexes, flags, m_thread, m_currentTask, process, loopFailed,
                   clients, history>>
LoopCheck(l) ==
    /\ loopPc[l] = "check"
    /\ LoopGoto(l, IF m_start THEN "select" ELSE "halt")
    /\ UNCHANGED <<file, mutexes, flags, m_thread, m_currentTask, process, loopFailed,
                   clients, history>>

\* m_isRunning = false once the loop is left.
LoopHalt(l) ==
    /\ loopPc[l] = "halt"
    /\ m_isRunning' = FALSE /\ LoopGoto(l, "ended")
    /\ UNCHANGED <<file, mutexes, m_start, m_thread, m_currentTask, process, loopFailed,
                   clients, history>>

\* mainLoopInit selects the first row of pending under the token's mutex.
\* No row, or an error of sqlite3_step: the queue halts.
LoopSelect(l) ==
    /\ loopPc[l] = "select"
    /\ LockToken(l)
    /\ \/ pending # <<>> /\ LoopGoto(l, "pick") /\ UNCHANGED m_start
       \/ /\ pending = <<>> \/ "step" \in Faults
          /\ LoopGoto(l, "idle") /\ m_start' = FALSE
    /\ UNCHANGED <<file, currentTaskMutex, m_isRunning, m_thread, m_currentTask,
                   process, loopFailed, clients, history>>

\* An error of sqlite3_prepare_v2 changes no flag: the loop tries again.
LoopSelectFails(l) ==
    /\ loopPc[l] = "select" /\ "prepare" \in Faults
    /\ tokenMutex = Nobody
    /\ LoopGoto(l, "check")
    /\ UNCHANGED <<file, mutexes, flags, m_thread, m_currentTask, process, loopFailed,
                   clients, history>>

\* The row becomes the current task, under both mutexes; it stays in pending.
\* Mutant: the youngest row.
LastRow(t) == t[Len(t)]
FirstRow(t) == Head(t)
LoopPick(l) ==
    /\ loopPc[l] = "pick"
    /\ currentTaskMutex = Nobody
    /\ m_currentTask' = [ID |-> FirstRow(pending), exitCode |-> "exit0"]
    /\ UnlockToken /\ LoopGoto(l, "start")
    /\ UNCHANGED <<file, currentTaskMutex, flags, m_thread, process, loopFailed,
                   clients, history>>

\* Mutant: m_isRunning is left to the end of the loop.
LoopIdleRunning(l) ==
    /\ loopPc[l] = "idle"
    /\ UnlockToken /\ LoopGoto(l, "check")
    /\ UNCHANGED <<file, currentTaskMutex, flags, m_thread, m_currentTask, process,
                   loopFailed, clients, history>>
LoopIdle(l) ==
    /\ loopPc[l] = "idle"
    /\ m_isRunning' = FALSE
    /\ UnlockToken /\ LoopGoto(l, "check")
    /\ UNCHANGED <<file, currentTaskMutex, m_start, m_thread, m_currentTask, process,
                   loopFailed, clients, history>>

\* LinuxProc::start: refused while a child runs, or to a super user ...
\* Mutant: no question about a child.
StartRefusedToAdmin == "admin" \in Faults
StartRefused == ChildRuns \/ "admin" \in Faults
LoopStart(l) ==
    /\ loopPc[l] = "start"
    /\ Reap
    /\ LoopGoto(l, IF StartRefused THEN "fin.lock" ELSE "fork")
    /\ loopFailed' = [loopFailed EXCEPT ![l] = StartRefused]
    /\ UNCHANGED <<file, mutexes, flags, m_thread, m_currentTask, m_pid, m_reader,
                   clients, history>>

\* ... forkpty makes a child for the current task, or fails ...
LoopFork(l) ==
    /\ loopPc[l] = "fork"
    /\ m_exitCode' = "exit0"
    /\ \/ \E p \in Pids :
            /\ proc[p] = "none" /\ \A q \in Pids : q < p => proc[q] # "none"
            /\ proc' = [proc EXCEPT ![p] = "running"]
            /\ m_pid' = p
            /\ taskOf' = [taskOf EXCEPT ![p] = m_currentTask.ID]
            /\ LoopGoto(l, "setup")
            /\ UNCHANGED <<loopFailed, incidents>>
       \/ /\ "fork" \in Faults
          /\ m_pid' = -1
          /\ LoopGoto(l, "fin.lock")
          /\ loopFailed' = [loopFailed EXCEPT ![l] = TRUE]
          /\ incidents' = incidents \cup {"fork"}
          /\ UNCHANGED <<proc, taskOf>>
    /\ UNCHANGED <<file, mutexes, flags, m_thread, m_currentTask, m_reader, clients,
                   accepted, removed, cleared, ran, starts>>

\* ... and when the terminal cannot be set up the child is killed.  Otherwise a
\* reader for its output is created and the reader of the task before joined:
\* it has ended if it saw the descriptors closed, and has taken over the new
\* ones, which nobody will close, if it did not (ProcReader).
LoopSetup(l) ==
    /\ loopPc[l] = "setup"
    /\ \/ /\ LoopGoto(l, "poll") \/ (m_reader /\ LoopGoto(l, "stuck"))
          /\ m_reader' = TRUE
          /\ UNCHANGED <<proc, loopFailed, incidents>>
       \/ /\ "setup" \in Faults
          /\ proc' = Killed
          /\ LoopGoto(l, "fin.lock")
          /\ loopFailed' = [loopFailed EXCEPT ![l] = TRUE]
          /\ incidents' = incidents \cup {"setup"}
          /\ UNCHANGED m_reader
    /\ UNCHANGED <<file, mutexes, flags, m_thread, m_currentTask, m_pid, m_exitCode,
                   clients, accepted, removed, cleared, taskOf, ran, starts>>

\* Another main loop may close the descriptors under the reader.
LoopUnstuck(l) ==
    /\ loopPc[l] = "stuck"
    /\ \E k \in Loops \ {l} : LoopAlive(k)
    /\ LoopGoto(l, "poll")
    /\ UNCHANGED <<file, mutexes, flags, m_thread, m_currentTask, process, loopFailed,
                   clients, history>>

\* while (m_process->isRunning()) sleep(1)
LoopPoll(l) ==
    /\ loopPc[l] = "poll"
    /\ ~ChildRuns /\ Reap
    /\ LoopGoto(l, "fin.lock")
    /\ UNCHANGED <<file, mutexes, flags, m_thread, m_currentTask, m_pid, m_reader,
                   loopFailed, clients, history>>

\* mainLoopFin ends: without a current task, and once more round the loop
\* or, after a start that failed, out of it.
FinReturns(l) ==
    /\ m_currentTask' = NoTask
    /\ LoopGoto(l, IF loopFailed[l] THEN "failed" ELSE "check")

\* mainLoopFin takes m_currentTaskMutex first.  exitCode() asks waitpid once
\* more and refuses while a child runs.
LoopFinLock(l) ==
    /\ loopPc[l] = "fin.lock"
    /\ currentTaskMutex = Nobody
    /\ Reap
    /\ IF ChildRuns
       THEN m_start' = FALSE /\ FinReturns(l) /\ UNCHANGED currentTaskMutex
       ELSE /\ currentTaskMutex' = l
            /\ m_currentTask' = [m_currentTask EXCEPT !.exitCode = m_exitCode']
            /\ LoopGoto(l, "fin.delete")
            /\ UNCHANGED m_start
    /\ UNCHANGED <<file, tokenMutex, m_isRunning, m_thread, m_pid, m_reader, loopFailed,
                   clients, history>>

\* Then the token's mutex.  The row leaves pending in a commit of its own; an
\* error of sqlite3_step (NOT_FOUND) does not stop the move.
LoopFinDelete(l) ==
    /\ loopPc[l] = "fin.delete"
    /\ LockToken(l) /\ LoopGoto(l, "fin.insert")
    /\ \/ pending' = DeletePending(pending, m_currentTask.ID) /\ UNCHANGED incidents
       \/ /\ "step" \in Faults
          /\ incidents' = incidents \cup {"undeleted"}
          /\ UNCHANGED pending
    /\ UNCHANGED <<done, lastID, currentTaskMutex, flags, m_thread, m_currentTask,
                   process, loopFailed, clients, accepted, removed, cleared, taskOf,
                   ran, starts>>

\* An error of sqlite3_prepare_v2 (OS_ERROR) does: the queue halts.
LoopFinDeleteFails(l) ==
    /\ loopPc[l] = "fin.delete" /\ "prepare" \in Faults
    /\ tokenMutex = Nobody
    /\ m_start' = FALSE /\ FinReturns(l)
    /\ currentTaskMutex' = Nobody
    /\ UNCHANGED <<file, tokenMutex, m_isRunning, m_thread, process, loopFailed, clients,
                   history>>

\* The row enters done, unless the statement fails or the key is taken.
LoopFinInsert(l) ==
    /\ loopPc[l] = "fin.insert"
    /\ \/ /\ CanInsertDone(done, m_currentTask)
          /\ done' = InsertDone(done, m_currentTask)
          /\ UNCHANGED <<m_start, incidents>>
       \/ /\ ~CanInsertDone(done, m_currentTask)
          /\ m_start' = FALSE
          /\ UNCHANGED <<done, incidents>>
       \/ /\ StatementFault
          /\ m_start' = FALSE
          /\ incidents' = incidents \cup {"unfinished"}
          /\ UNCHANGED done
    /\ FinReturns(l) /\ UnlockToken
    /\ currentTaskMutex' = Nobody
    /\ UNCHANGED <<pending, lastID, m_isRunning, m_thread, process, loopFailed, clients,
                   accepted, removed, cleared, taskOf, ran, starts>>

\* The process could not be started: m_start = false after mainLoopFin.
LoopFailed(l) ==
    /\ loopPc[l] = "failed"
    /\ m_start' = FALSE /\ LoopGoto(l, "check")
    /\ loopFailed' = [loopFailed EXCEPT ![l] = FALSE]
    /\ UNCHANGED <<file, mutexes, m_isRunning, m_thread, m_currentTask, process, clients,
                   history>>

LoopStep(l) ==
    \/ LoopCheck(l) \/ LoopHalt(l)
    \/ LoopSelect(l) \/ LoopSelectFails(l) \/ LoopPick(l) \/ LoopIdle(l)
    \/ LoopStart(l) \/ LoopFork(l) \/ LoopSetup(l) \/ LoopUnstuck(l)
    \/ LoopPoll(l)
    \/ LoopFinLock(l) \/ LoopFinDelete(l) \/ LoopFinDeleteFails(l)
    \/ LoopFinInsert(l) \/ LoopFailed(l)

-----------------------------------------------------------------------------
(* A child ends, by itself or because it was killed. *)

ChildExit(p) ==
    /\ Alive(p)
    /\ \E s \in Statuses :
          /\ (s = "sig9") <=> (proc[p] = "dying")
          /\ proc' = [proc EXCEPT ![p] = s]
          /\ ran' = [ran EXCEPT ![taskOf[p]] = s]
    /\ UNCHANGED <<file, mutexes, flags, m_thread, m_currentTask, m_pid, m_exitCode,
                   m_reader, loops, clients, accepted, removed, cleared, taskOf, starts,
                   incidents>>

Next ==
    \/ \E c \in Clients : CallAny(c) \/ ClientStep(c)
    \/ \E l \in Loops : LoopStep(l)
    \/ \E p \in Pids : ChildExit(p)
    \/ Crash

Spec == Init /\ [][Next]_vars

\* Threads are scheduled and tasks come to an end.  An uncontended mutex is
\* granted; nothing is assumed of one that others keep taking, or of the join of a
\* reader that has not ended.
FairSpec ==
    /\ Spec
    /\ \A c \in Clients : WF_vars(ClientStep(c))
    /\ \A l \in Loops : WF_vars(loopPc[l] # "stuck" /\ LoopStep(l))
    /\ \A p \in Pids : WF_vars(ChildExit(p))

-----------------------------------------------------------------------------
(* Properties. *)

ClientLabels ==
    {"idle", "add.select", "add.update", "add.insert", "remove.lock", "remove.check",
     "remove.delete", "clear.lock", "clear.delete", "clearFinished", "query",
     "current.check", "current.read", "start.check", "start.running", "start.start",
     "start.thread", "start.swap", "start.join", "stop.check", "stop.start",
     "stop.kill", "stop.running"}
StartLabels ==
    {"start.check", "start.running", "start.start", "start.thread", "start.swap",
     "start.join"}
LoopLabels ==
    {"none", "check", "select", "pick", "idle", "start", "fork", "setup", "stuck",
     "poll", "fin.lock", "fin.delete", "fin.insert", "failed", "halt", "ended"}

FileType ==
    /\ pending \in Seq(Nat)
    /\ done \subseteq [ID : Nat, exitCode : Statuses]
    /\ lastID \in Nat
MutexType ==
    /\ tokenMutex \in Clients \cup Loops \cup {Nobody}
    /\ currentTaskMutex \in Loops \cup {Nobody}
FlagType ==
    /\ m_isRunning \in BOOLEAN /\ m_start \in BOOLEAN
    /\ m_thread \in Loops \cup {NoLoop}
TaskType == m_currentTask \in [ID : Nat, exitCode : Statuses]
ProcessType ==
    /\ m_pid \in Pids \cup {0, -1}
    /\ m_exitCode \in Statuses /\ m_reader \in BOOLEAN
    /\ proc \in [Pids -> {"none", "running", "dying"} \cup Statuses]
LoopType ==
    /\ loopPc \in [Loops -> LoopLabels]
    /\ loopFailed \in [Loops -> BOOLEAN]
ClientType ==
    /\ pc \in [Clients -> ClientLabels]
    /\ arg \in [Clients -> Nat]
    /\ old \in [Clients -> Loops \cup {NoLoop}]
    /\ \A c \in Clients : pc[c] \in StartLabels => arg[c] \in Loops
HistoryType ==
    /\ accepted \subseteq Nat /\ removed \subseteq Nat /\ cleared \subseteq Nat
    /\ taskOf \in [Pids -> Nat]
    /\ ran \in [IDs -> Statuses \cup {"never"}]
    /\ starts \in Nat
    /\ incidents \subseteq Incidents

\* Every variable has its type.
TypeOK ==
    /\ FileType /\ MutexType /\ FlagType /\ TaskType
    /\ ProcessType /\ LoopType /\ ClientType /\ HistoryType

\* Tasks wait in the order in which they were given their IDs and no ID is
\* ahead of the counter in lastID: whatever crashes, fails or overlaps, the
\* row SELECT ... limit 1 finds is the oldest.  (getID, addTask)
IDOrder ==
    /\ InIDOrder(pending)
    /\ \A id \in RowIDs(pending) \cup DoneIDs(done) : id < lastID

\* An ID that enters pending was never given to a task before, even if that
\* task is finished, removed or cleared.  (addTask, getID)
FreshIDs == [][(RowIDs(pending') \ RowIDs(pending)) \cap accepted = {}]_vars

\* No task is both pending and finished, unless the row of a finished task
\* could not be deleted.  (mainLoopFin)
DisjointTables ==
    "undeleted" \in incidents \/ RowIDs(pending) \cap DoneIDs(done) = {}

\* Main loops that deleted the row of the current task and have yet to
\* insert it into done.
Moving == {l \in Loops : loopPc[l] = "fin.insert"}

\* A task that was accepted is pending, finished, being moved, or was removed
\* or cleared by a client, even when two main loops share m_currentTask; it is
\* lost only when the server dies, or an insert fails, between the two commits
\* of mainLoopFin.
NothingLost ==
    "unfinished" \in incidents
    \/ \A id \in accepted :
         \/ id \in RowIDs(pending) \cup DoneIDs(done) \cup removed \cup cleared
         \/ Moving # {} /\ m_currentTask.ID = id

\* The exit code of a finished task is how its last child ended.
\* (LinuxProc::isRunning, exitCode, mainLoopFin)
DoneIsTrue ==
    incidents \cap {"overlap", "fork", "setup", "undeleted"} # {}
    \/ \A r \in done : ran[r.ID] = r.exitCode

\* The queue runs one child at a time.  (LinuxProc::start)
OneChild ==
    "overlap" \in incidents \/ Cardinality({p \in Pids : Alive(p)}) <= 1

\* The task a child is made for.
Forks(id) ==
    \E p \in Pids : proc[p] = "none" /\ proc'[p] = "running" /\ taskOf'[p] = id

\* removeTask and a main loop about to pick a task exclude each other: once
\* a task is removed no child is made for it.
RemovedNeverRuns ==
    [][\A id \in removed : ~Forks(id)]_vars

\* Tasks are started in the order in which they were added: none is when an
\* older one still waits.
Fifo ==
    [][\A id \in IDs : Forks(id) => \A w \in RowIDs(pending) : id <= w]_vars

\* Joining the reader of the task before, a main loop may never get further.
Stuck == \E l \in Loops : loopPc[l] = "stuck"

\* Nor does one that picks a task beside another that finishes one: mainLoopInit
\* takes the token's mutex first, mainLoopFin the other.
LoopsLocked == \E k, l \in Loops : loopPc[k] = "pick" /\ loopPc[l] = "fin.delete"

\* start() waits for the main loop before the one it created.
JoinsStuck(c) == pc[c] = "start.join" /\ old[c] # NoLoop /\ loopPc[old[c]] = "stuck"

\* A call to the queue returns, but for what main loops that overlap can do to it:
\* lock each other out, or, when stop() leaves one behind in the join of its reader,
\* hold up the start() that joins it.
\* (the mutexes of SQLiteQueue; start, LinuxProc::start)
EveryCallReturns ==
    \A c \in Clients :
        (pc[c] # "idle") ~> (pc[c] = "idle" \/ JoinsStuck(c) \/ LoopsLocked)

Stopping == \E c \in Clients : pc[c] \in {"stop.start", "stop.kill", "stop.running"}
\* A std::thread is assigned to one that is joinable: std::terminate().
StartsCollide == \E c \in Clients : pc[c] = "start.swap" /\ m_thread # NoLoop

\* A task that waits while the queue says it is running gets done, or somebody
\* stops the queue, a reader is never joined or two starts collide: the queue halts
\* only when, under the token's mutex, it saw nothing to do.  That is not so once
\* start() has created a main loop beside one that had yet to halt: both may pick the
\* row, LinuxProc::start refuses the second, and its mainLoopFin halts the queue.
\* (mainLoopInit, mainLoopFin)
NoStrandedTask ==
    \A id \in IDs :
        (m_isRunning /\ id \in RowIDs(pending))
            ~> \/ id \in DoneIDs(done)
               \/ Stopping \/ StartsCollide \/ Stuck \/ "overlap" \in incidents

\* A stopped queue comes to rest: a loop whose m_start was taken away ends,
\* unless it never joins a reader or two lock each other out.  (stopImpl, mainLoop)
StopEnds ==
    \A l \in Loops :
        (~m_start /\ LoopAlive(l)) ~> (m_start \/ ~LoopAlive(l) \/ Stuck \/ LoopsLocked)

-----------------------------------------------------------------------------
(* The ledger a queue keeps. *)

\* A row that left pending is still waiting until it enters done.
InMove(id) == Moving # {} /\ m_currentTask.ID = id /\ id \notin cleared \cup removed
StateOf(id) ==
    IF id \in DoneIDs(done) THEN "finished"
    ELSE IF id \in RowIDs(pending) \/ (id \in accepted /\ InMove(id)) THEN "waiting"
    ELSE IF id \in accepted THEN "gone"
    ELSE "unborn"
States == [id \in IDs |-> StateOf(id)]

\* The current task runs from its fork to the end of mainLoopFin.
Runs == {"setup", "stuck", "poll", "fin.lock", "fin.delete", "fin.insert"}
RunningIDs == IF \E l \in Loops : loopPc[l] \in Runs THEN {m_currentTask.ID} ELSE {}

LedgerView == INSTANCE TaskLedger WITH state <- States, running <- RunningIDs

\* The queue keeps the ledger: every step is a step of TaskLedger or leaves it
\* as it is, in the behaviours in which start() creates a main loop only when the
\* last one has ended.
Serial == "overlap" \notin incidents'
Ledger == LedgerView!Spec
=============================================================================
