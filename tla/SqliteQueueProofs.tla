------------------------- MODULE SqliteQueueProofs -------------------------
(***************************************************************************)
(* Theorems about SqliteQueue, for every number of clients, starts, IDs    *)
(* and children and every choice of operations and faults.                 *)
(***************************************************************************)
EXTENDS SqliteQueue, TaskTableProofs, FiniteSetTheorems

-----------------------------------------------------------------------------
(* The inductive invariant. *)

\* The steps of a thread between the locking and the unlocking of each mutex
\* exclude those of the others; the row a main loop selected stays until it is
\* picked.
LockInv ==
    /\ \A c \in Clients :
          pc[c] \in {"add.update", "add.insert", "remove.check", "remove.delete",
                    "clear.delete"} => tokenMutex = c
    /\ \A l \in Loops :
          /\ loopPc[l] \in {"pick", "idle", "fin.insert"} => tokenMutex = l
          /\ loopPc[l] \in {"fin.delete", "fin.insert"} => currentTaskMutex = l
          /\ loopPc[l] = "pick" => pending # <<>>

\* A main loop that has, or had, a task in hand.
Busy == {"start", "fork", "setup", "stuck", "poll", "fin.lock", "fin.delete",
         "fin.insert", "failed"}

\* The IDs that are in the file or were.
Known == RowIDs(pending) \cup DoneIDs(done) \cup accepted

\* IDs are handed out once and in order, under the token's mutex, and the
\* current task is none of the younger ones.
IDInv ==
    /\ InIDOrder(pending)
    /\ RowIDs(pending) \subseteq accepted
    /\ \A id \in Known : id < lastID
    /\ \A c \in Clients :
          /\ pc[c] = "add.update" => arg[c] = lastID
          /\ pc[c] = "add.insert" =>
                lastID = arg[c] + 1 /\ \A id \in Known : id < arg[c]
    /\ \A l \in Loops : loopPc[l] \in Busy => lastID > 0
    /\ m_currentTask.ID = 0 \/ m_currentTask.ID < lastID
    /\ \A w \in RowIDs(pending) : m_currentTask.ID <= w

\* Each start() has a main loop of its own to create.
Spawning == {"start.check", "start.running", "start.start", "start.thread"}
SlotInv ==
    /\ \A l \in Loops : l > starts => loopPc[l] = "none"
    /\ \A c \in Clients : pc[c] \in Spawning =>
          /\ arg[c] <= starts /\ loopPc[arg[c]] = "none"
          /\ \A d \in Clients \ {c} : pc[d] \in Spawning => arg[d] # arg[c]

\* The row of a task that is being moved has left pending.
MoveInv ==
    \/ "undeleted" \in incidents
    \/ /\ RowIDs(pending) \cap DoneIDs(done) = {}
       /\ Moving # {} => m_currentTask.ID \notin RowIDs(pending)

\* A removed task is not pending and not the current one, nor is one that
\* removeTask is about to delete.
RemovedInv ==
    /\ removed \subseteq accepted
    /\ removed \cap RowIDs(pending) = {}
    /\ 0 \notin removed
    /\ m_currentTask.ID \notin removed
    /\ \A c \in Clients : pc[c] = "remove.delete" /\ arg[c] \in RowIDs(pending) =>
          arg[c] # m_currentTask.ID

-----------------------------------------------------------------------------
(* The statements on the tables: see TaskTableProofs. *)

\* SELECT ... limit 1 returns the oldest row.
LEMMA FirstIsOldest ==
    ASSUME NEW t \in Seq(Nat), t # <<>>, InIDOrder(t)
    PROVE  FirstRow(t) \in RowIDs(t) /\ \A w \in RowIDs(t) : FirstRow(t) <= w
<1>1. t \in [1..Len(t) -> Nat] /\ Len(t) \in Nat \ {0} /\ DOMAIN t = 1..Len(t)
  BY LenProperties, EmptySeq
<1>2. FirstRow(t) = t[1] /\ 1 \in DOMAIN t
  BY <1>1 DEF FirstRow
<1>3. \A i \in DOMAIN t : t[1] <= t[i]
  BY <1>1, <1>2 DEF InIDOrder
<1> QED  BY <1>2, <1>3 DEF RowIDs

-----------------------------------------------------------------------------
(* Types. *)

\* The initial state is well typed.
LEMMA TypeInit == Init => TypeOK
<1> SUFFICES ASSUME Init PROVE TypeOK
  OBVIOUS
<1>1. FileType /\ TaskType
  BY DEF Init, FileType, TaskType, NoTask, Statuses
<1>2. MutexType /\ FlagType
  BY DEF Init, MutexType, FlagType
<1>3. ProcessType /\ LoopType /\ HistoryType
  BY DEF Init, ProcessType, LoopType, HistoryType, LoopLabels, Statuses
<1>4. ClientType
  BY DEF Init, ClientType, ClientLabels, StartLabels, NoLoop
<1> QED  BY <1>1, <1>2, <1>3, <1>4 DEF TypeOK

\* Which actions change the file.
LEMMA FileFrame ==
    ASSUME Next
    PROVE  \/ UNCHANGED file
           \/ \E c \in Clients : \/ AddUpdate(c) \/ AddInsert(c) \/ RemoveDelete(c)
                                 \/ ClearDelete(c) \/ ClearFinished(c)
           \/ \E l \in Loops : LoopFinDelete(l) \/ LoopFinInsert(l)
<1>1. ASSUME NEW c \in Clients, CallAny(c) PROVE UNCHANGED file
  BY <1>1 DEF CallAny, Call
<1>2. ASSUME NEW c \in Clients, ClientStep(c)
      PROVE  \/ UNCHANGED file
             \/ AddUpdate(c) \/ AddInsert(c) \/ RemoveDelete(c)
             \/ ClearDelete(c) \/ ClearFinished(c)
  BY <1>2 DEF ClientStep, AddSelect, StatementFails, RemoveLock, RemoveCheck, ClearLock,
     Query, CurrentCheck, CurrentRead, StartCheck, StartRunning, StartStart,
     StartThread, StartSwap, StartJoin, StopCheck, StopStart, StopKill, StopRunning,
     ServerDies
<1>3. ASSUME NEW l \in Loops, LoopStep(l)
      PROVE  UNCHANGED file \/ LoopFinDelete(l) \/ LoopFinInsert(l)
  BY <1>3 DEF LoopStep, LoopCheck, LoopHalt, LoopSelect, LoopSelectFails, LoopPick,
     LoopIdle, LoopStart, LoopFork, LoopSetup, LoopUnstuck, LoopPoll, LoopFinLock,
     LoopFinDeleteFails, LoopFailed
<1>4. ASSUME NEW p \in Pids, ChildExit(p) PROVE UNCHANGED file
  BY <1>4 DEF ChildExit
<1>5. Crash => UNCHANGED file
  BY DEF Crash, ServerDies
<1> QED  BY <1>1, <1>2, <1>3, <1>4, <1>5 DEF Next

LEMMA FileTypeNext == ASSUME TypeOK, Next PROVE FileType'
<1>1. CASE UNCHANGED file
  BY <1>1 DEF TypeOK, FileType, file
<1>2. ASSUME NEW c \in Clients, AddUpdate(c) PROVE FileType'
  BY <1>2 DEF AddUpdate, NextID, TypeOK, FileType, ClientType
<1>3. ASSUME NEW c \in Clients, AddInsert(c) PROVE FileType'
  BY <1>3 DEF AddInsert, InsertPending, TypeOK, FileType, ClientType
<1>4. ASSUME NEW c \in Clients, RemoveDelete(c) PROVE FileType'
  BY <1>4, DeleteKeepsType DEF RemoveDelete, TypeOK, FileType, ClientType
<1>5. ASSUME NEW c \in Clients, ClearDelete(c) PROVE FileType'
  <2>1. pending' = <<>> \/ pending' = pending
    BY <1>5 DEF ClearDelete
  <2>2. <<>> \in Seq(Nat)
    OBVIOUS
  <2>3. pending' \in Seq(Nat)
    BY <2>1, <2>2 DEF TypeOK, FileType
  <2> QED  BY <1>5, <2>3 DEF ClearDelete, TypeOK, FileType
<1>6. ASSUME NEW c \in Clients, ClearFinished(c) PROVE FileType'
  BY <1>6 DEF ClearFinished, TypeOK, FileType
<1>7. ASSUME NEW l \in Loops, LoopFinDelete(l) PROVE FileType'
  BY <1>7, DeleteKeepsType DEF LoopFinDelete, TypeOK, FileType, TaskType
<1>8. ASSUME NEW l \in Loops, LoopFinInsert(l) PROVE FileType'
  BY <1>8 DEF LoopFinInsert, InsertDone, TypeOK, FileType, TaskType
<1> QED  BY <1>1, <1>2, <1>3, <1>4, <1>5, <1>6, <1>7, <1>8, FileFrame

LEMMA MutexTypeNext == ASSUME TypeOK, Next PROVE MutexType'
<1> USE DEF TypeOK, MutexType
<1>1. ASSUME NEW c \in Clients, CallAny(c) PROVE MutexType'
  BY <1>1 DEF CallAny, Call, mutexes
<1>2. ASSUME NEW c \in Clients, ClientStep(c) PROVE MutexType'
  BY <1>2 DEF ClientStep, AddSelect, AddUpdate, AddInsert, StatementFails, RemoveLock,
     RemoveCheck, RemoveDelete, ClearLock, ClearDelete, ClearFinished, Query,
     CurrentCheck, CurrentRead, StartCheck, StartRunning, StartStart, StartThread,
     StartSwap, StartJoin, StopCheck, StopStart, StopKill, StopRunning, ServerDies,
     LockToken, UnlockToken, mutexes
<1>3. ASSUME NEW l \in Loops, LoopStep(l) PROVE MutexType'
  BY <1>3 DEF LoopStep, LoopCheck, LoopHalt, LoopSelect, LoopSelectFails, LoopPick,
     LoopIdle, LoopStart, LoopFork, LoopSetup, LoopUnstuck, LoopPoll, LoopFinLock,
     LoopFinDelete, LoopFinDeleteFails, LoopFinInsert, LoopFailed, LockToken,
     UnlockToken, mutexes
<1>4. ASSUME NEW p \in Pids, ChildExit(p) PROVE MutexType'
  BY <1>4 DEF ChildExit, mutexes
<1>5. Crash => MutexType'
  BY DEF Crash, ServerDies
<1> QED  BY <1>1, <1>2, <1>3, <1>4, <1>5 DEF Next

LEMMA FlagTypeNext == ASSUME TypeOK, Next PROVE FlagType'
<1> USE DEF TypeOK, FlagType
<1>1. ASSUME NEW c \in Clients, CallAny(c) PROVE FlagType'
  BY <1>1 DEF CallAny, Call, flags
<1>2. ASSUME NEW c \in Clients, ClientStep(c) PROVE FlagType'
  BY <1>2 DEF ClientStep, AddSelect, AddUpdate, AddInsert, StatementFails, RemoveLock,
     RemoveCheck, RemoveDelete, ClearLock, ClearDelete, ClearFinished, Query,
     CurrentCheck, CurrentRead, StartCheck, StartRunning, StartStart, StartThread,
     StartSwap, StartJoin, StopCheck, StopStart, StopKill, StopRunning, ServerDies,
     ClientType, StartLabels, flags
<1>3. ASSUME NEW l \in Loops, LoopStep(l) PROVE FlagType'
  BY <1>3 DEF LoopStep, LoopCheck, LoopHalt, LoopSelect, LoopSelectFails, LoopPick,
     LoopIdle, LoopStart, LoopFork, LoopSetup, LoopUnstuck, LoopPoll, LoopFinLock,
     LoopFinDelete, LoopFinDeleteFails, LoopFinInsert, LoopFailed, flags
<1>4. ASSUME NEW p \in Pids, ChildExit(p) PROVE FlagType'
  BY <1>4 DEF ChildExit, flags
<1>5. Crash => FlagType'
  BY DEF Crash, ServerDies
<1> QED  BY <1>1, <1>2, <1>3, <1>4, <1>5 DEF Next

LEMMA TaskTypeNext == ASSUME TypeOK, LockInv, Next PROVE TaskType'
<1> USE DEF TypeOK, TaskType
<1>1. ASSUME NEW c \in Clients, CallAny(c) PROVE TaskType'
  BY <1>1 DEF CallAny, Call
<1>2. ASSUME NEW c \in Clients, ClientStep(c) PROVE TaskType'
  BY <1>2 DEF ClientStep, AddSelect, AddUpdate, AddInsert, StatementFails, RemoveLock,
     RemoveCheck, RemoveDelete, ClearLock, ClearDelete, ClearFinished, Query,
     CurrentCheck, CurrentRead, StartCheck, StartRunning, StartStart, StartThread,
     StartSwap, StartJoin, StopCheck, StopStart, StopKill, StopRunning, ServerDies,
     NoTask, Statuses
<1>3. ASSUME NEW l \in Loops, LoopPick(l) PROVE TaskType'
  <2>1. pending \in Seq(Nat) /\ pending # <<>>
    BY <1>3 DEF LoopPick, FileType, LockInv
  <2>2. Head(pending) \in Nat
    BY <2>1, HeadTailProperties
  <2> QED  BY <1>3, <2>2 DEF LoopPick, FirstRow, Statuses
<1>4. ASSUME NEW l \in Loops, LoopFinLock(l) PROVE TaskType'
  <2>1. m_exitCode' \in Statuses
    BY <1>4 DEF LoopFinLock, Reap, Zombies, ProcessType
  <2> QED  BY <1>4, <2>1 DEF LoopFinLock, FinReturns, NoTask, Statuses
<1>5. ASSUME NEW l \in Loops, LoopStep(l), ~LoopPick(l), ~LoopFinLock(l)
      PROVE  TaskType'
  BY <1>5 DEF LoopStep, LoopCheck, LoopHalt, LoopSelect, LoopSelectFails,
     LoopIdle, LoopStart, LoopFork, LoopSetup, LoopUnstuck, LoopPoll,
     LoopFinDelete, LoopFinDeleteFails, LoopFinInsert, LoopFailed, FinReturns,
     NoTask, Statuses
<1>6. ASSUME NEW p \in Pids, ChildExit(p) PROVE TaskType'
  BY <1>6 DEF ChildExit
<1>7. Crash => TaskType'
  BY DEF Crash, ServerDies, NoTask, Statuses
<1> QED  BY <1>1, <1>2, <1>3, <1>4, <1>5, <1>6, <1>7 DEF Next

LEMMA ProcessTypeNext == ASSUME TypeOK, Next PROVE ProcessType'
<1> USE DEF TypeOK, ProcessType
<1>1. ASSUME NEW c \in Clients, CallAny(c) PROVE ProcessType'
  BY <1>1 DEF CallAny, Call, process
<1>2. ASSUME NEW c \in Clients, ClientStep(c) PROVE ProcessType'
  BY <1>2 DEF ClientStep, AddSelect, AddUpdate, AddInsert, StatementFails, RemoveLock,
     RemoveCheck, RemoveDelete, ClearLock, ClearDelete, ClearFinished, Query,
     CurrentCheck, CurrentRead, StartCheck, StartRunning, StartStart, StartThread,
     StartSwap, StartJoin, StopCheck, StopStart, StopKill, StopRunning, ServerDies,
     Killed, Statuses, process
<1>3. Reap => m_exitCode' \in Statuses /\ proc' \in [Pids -> {"none", "running", "dying"} \cup Statuses]
  BY DEF Reap, Zombies, Awaited
<1>4. ASSUME NEW l \in Loops, LoopStep(l) PROVE ProcessType'
  BY <1>4, <1>3 DEF LoopStep, LoopCheck, LoopHalt, LoopSelect, LoopSelectFails, LoopPick,
     LoopIdle, LoopStart, LoopFork, LoopSetup, LoopUnstuck, LoopPoll, LoopFinLock,
     LoopFinDelete, LoopFinDeleteFails, LoopFinInsert, LoopFailed, Killed, Statuses, process
<1>5. ASSUME NEW p \in Pids, ChildExit(p) PROVE ProcessType'
  BY <1>5 DEF ChildExit
<1>6. Crash => ProcessType'
  BY DEF Crash, ServerDies, Statuses
<1> QED  BY <1>1, <1>2, <1>4, <1>5, <1>6 DEF Next

LEMMA LoopTypeNext == ASSUME TypeOK, Next PROVE LoopType'
<1> USE DEF TypeOK, LoopType
<1>1. ASSUME NEW c \in Clients, CallAny(c) PROVE LoopType'
  BY <1>1 DEF CallAny, Call, loops
<1>2. ASSUME NEW c \in Clients, ClientStep(c) PROVE LoopType'
  BY <1>2 DEF ClientStep, AddSelect, AddUpdate, AddInsert, StatementFails, RemoveLock,
     RemoveCheck, RemoveDelete, ClearLock, ClearDelete, ClearFinished, Query,
     CurrentCheck, CurrentRead, StartCheck, StartRunning, StartStart, StartThread,
     StartSwap, StartJoin, StopCheck, StopStart, StopKill, StopRunning, ServerDies,
     LoopLabels, loops
<1>3. ASSUME NEW l \in Loops, LoopStep(l) PROVE LoopType'
  BY <1>3 DEF LoopStep, LoopCheck, LoopHalt, LoopSelect, LoopSelectFails, LoopPick,
     LoopIdle, LoopStart, LoopFork, LoopSetup, LoopUnstuck, LoopPoll, LoopFinLock,
     LoopFinDelete, LoopFinDeleteFails, LoopFinInsert, LoopFailed, LoopGoto,
     FinReturns, StartRefused, ChildRuns, LoopLabels
<1>4. ASSUME NEW p \in Pids, ChildExit(p) PROVE LoopType'
  BY <1>4 DEF ChildExit, loops
<1>5. Crash => LoopType'
  BY DEF Crash, ServerDies, LoopLabels
<1> QED  BY <1>1, <1>2, <1>3, <1>4, <1>5 DEF Next

LEMMA ClientTypeNext == ASSUME TypeOK, Next PROVE ClientType'
<1> USE DEF TypeOK, ClientType
<1>1. ASSUME NEW c \in Clients, CallAny(c) PROVE ClientType'
  <2>1. ASSUME NEW op, NEW label \in ClientLabels \ StartLabels, NEW a \in Nat,
               Call(c, op, label, a)
        PROVE  ClientType'
    BY <2>1 DEF Call
  <2>2. ASSUME starts < MaxStarts, Call(c, "start", "start.check", starts + 1)
        PROVE  ClientType'
    BY <2>2, BoundsAreNat DEF Call, HistoryType, Loops, ClientLabels
  <2>3. ASSUME NEW id \in IDs, Call(c, "removeTask", "remove.lock", id)
        PROVE  ClientType'
    <3>1. id \in Nat /\ "remove.lock" \in ClientLabels \ StartLabels
      BY DEF IDs, ClientLabels, StartLabels
    <3> QED  BY <2>1, <2>3, <3>1
  <2>4. Call(c, "addTask", "add.select", 0) => ClientType'
    BY <2>1 DEF ClientLabels, StartLabels
  <2>5. Call(c, "clearPending", "clear.lock", 0) => ClientType'
    BY <2>1 DEF ClientLabels, StartLabels
  <2>6. Call(c, "clearFinished", "clearFinished", 0) => ClientType'
    BY <2>1 DEF ClientLabels, StartLabels
  <2>7. Call(c, "currentTask", "current.check", 0) => ClientType'
    BY <2>1 DEF ClientLabels, StartLabels
  <2>8. Call(c, "query", "query", 0) => ClientType'
    BY <2>1 DEF ClientLabels, StartLabels
  <2>9. Call(c, "stop", "stop.check", 0) => ClientType'
    BY <2>1 DEF ClientLabels, StartLabels
  <2> HIDE DEF TypeOK, ClientType
  <2> QED  BY <1>1, <2>2, <2>3, <2>4, <2>5, <2>6, <2>7, <2>8, <2>9 DEF CallAny
<1>2. ASSUME NEW c \in Clients, AddSelect(c) PROVE ClientType'
  BY <1>2 DEF AddSelect, FileType, ClientLabels, StartLabels
<1>3. ASSUME NEW c \in Clients, StartThread(c) PROVE ClientType'
  BY <1>3 DEF StartThread, FlagType, ClientLabels, StartLabels
<1>4. ASSUME NEW c \in Clients, ClientStep(c), ~AddSelect(c), ~StartThread(c)
      PROVE  ClientType'
  <2>1. ASSUME NEW label \in ClientLabels, Goto(c, label),
               label \in StartLabels => pc[c] \in StartLabels
        PROVE  ClientType'
    BY <2>1 DEF Goto
  <2>2. Return(c) => ClientType'
    BY DEF Return, ClientLabels, StartLabels, NoLoop
  <2>3. ServerDies => ClientType'
    BY DEF ServerDies, ClientLabels, StartLabels, NoLoop
  <2>4. \/ \E label \in ClientLabels :
              Goto(c, label) /\ (label \in StartLabels => pc[c] \in StartLabels)
        \/ Return(c) \/ ServerDies
    BY <1>4 DEF ClientStep, AddUpdate, AddInsert, StatementFails, RemoveLock,
       RemoveCheck, RemoveDelete, ClearLock, ClearDelete, ClearFinished, Query,
       CurrentCheck, CurrentRead, StartCheck, StartRunning, StartStart, StartSwap,
       StartJoin, StopCheck, StopStart, StopKill, StopRunning, ClientLabels,
       StartLabels
  <2> QED  BY <2>1, <2>2, <2>3, <2>4
<1>5. ASSUME NEW l \in Loops, LoopStep(l) PROVE ClientType'
  BY <1>5 DEF LoopStep, LoopCheck, LoopHalt, LoopSelect, LoopSelectFails, LoopPick,
     LoopIdle, LoopStart, LoopFork, LoopSetup, LoopUnstuck, LoopPoll, LoopFinLock,
     LoopFinDelete, LoopFinDeleteFails, LoopFinInsert, LoopFailed, clients
<1>6. ASSUME NEW p \in Pids, ChildExit(p) PROVE ClientType'
  BY <1>6 DEF ChildExit, clients
<1>7. Crash => ClientType'
  BY DEF Crash, ServerDies, ClientLabels, StartLabels, NoLoop
<1> QED  BY <1>1, <1>2, <1>3, <1>4, <1>5, <1>6, <1>7 DEF Next

LEMMA HistoryTypeNext == ASSUME TypeOK, Next PROVE HistoryType'
<1> USE DEF TypeOK, HistoryType
<1>1. ASSUME NEW c \in Clients, CallAny(c) PROVE HistoryType'
  <2>1. ASSUME NEW op, NEW label, NEW a, Call(c, op, label, a) PROVE HistoryType'
    BY <2>1 DEF Call
  <2> HIDE DEF TypeOK, HistoryType
  <2> QED  BY <1>1, <2>1 DEF CallAny
<1>2. ASSUME NEW c \in Clients, AddInsert(c) PROVE HistoryType'
  BY <1>2 DEF AddInsert, ClientType
<1>3. ASSUME NEW c \in Clients, RemoveDelete(c) PROVE HistoryType'
  BY <1>3 DEF RemoveDelete, ClientType
<1>4. ASSUME NEW c \in Clients, ClearDelete(c) PROVE HistoryType'
  <2>1. RowIDs(pending) \subseteq Nat
    BY DEF RowIDs, FileType
  <2> QED  BY <1>4, <2>1 DEF ClearDelete
<1>5. ASSUME NEW c \in Clients, ClearFinished(c) PROVE HistoryType'
  <2>1. DoneIDs(done) \subseteq Nat
    BY DEF DoneIDs, FileType
  <2> QED  BY <1>5, <2>1 DEF ClearFinished
<1>6. ASSUME NEW c \in Clients, ClientStep(c), ~AddInsert(c), ~RemoveDelete(c),
             ~ClearDelete(c), ~ClearFinished(c)
      PROVE  HistoryType'
  <2>1. StartThread(c) => HistoryType'
    BY DEF StartThread, Incidents
  <2>2. ServerDies => HistoryType'
    BY DEF ServerDies, Incidents
  <2>3. UNCHANGED history => HistoryType'
    BY DEF history
  <2>4. StartThread(c) \/ ServerDies \/ UNCHANGED history
    BY <1>6 DEF ClientStep, AddSelect, AddUpdate, StatementFails, RemoveLock,
       RemoveCheck, ClearLock, Query, CurrentCheck, CurrentRead, StartCheck,
       StartRunning, StartStart, StartSwap, StartJoin, StopCheck, StopStart,
       StopKill, StopRunning
  <2> QED  BY <2>1, <2>2, <2>3, <2>4
<1>7. ASSUME NEW l \in Loops, LoopStep(l) PROVE HistoryType'
  BY <1>7 DEF LoopStep, LoopCheck, LoopHalt, LoopSelect, LoopSelectFails, LoopPick,
     LoopIdle, LoopStart, LoopFork, LoopSetup, LoopUnstuck, LoopPoll, LoopFinLock,
     LoopFinDelete, LoopFinDeleteFails, LoopFinInsert, LoopFailed, TaskType,
     Incidents, history
<1>8. ASSUME NEW p \in Pids, ChildExit(p) PROVE HistoryType'
  BY <1>8 DEF ChildExit
<1>9. Crash => HistoryType'
  BY DEF Crash, ServerDies, Incidents
<1> QED  BY <1>1, <1>2, <1>3, <1>4, <1>5, <1>6, <1>7, <1>8, <1>9 DEF Next

-----------------------------------------------------------------------------
(* Mutual exclusion. *)

LEMMA LockInit == Init => LockInv
  BY DEF Init, LockInv

\* A client takes or gives back only its own locks.
LEMMA LockClient == ASSUME TypeOK, LockInv, NEW c \in Clients, ClientStep(c) PROVE LockInv'
<1> USE OwnersDiffer DEF TypeOK, MutexType, LoopType, ClientType, LockInv
<1>1. CASE ServerDies
  BY <1>1 DEF ServerDies
<1>2. CASE AddSelect(c) \/ RemoveLock(c) \/ ClearLock(c)
  BY <1>2 DEF AddSelect, RemoveLock, ClearLock, LockToken, Goto, loops, file
<1>3. CASE AddUpdate(c)
  BY <1>3 DEF AddUpdate, Goto, loops, mutexes
<1>4. CASE AddInsert(c)
  <2>1. pending' # <<>>
    BY <1>4, AppendProperties DEF AddInsert, InsertPending, FileType
  <2> QED  BY <1>4, <2>1 DEF AddInsert, UnlockToken, Return, loops
<1>5. CASE StatementFails(c)
  BY <1>5 DEF StatementFails, UnlockToken, Return, loops, file
<1>6. CASE RemoveCheck(c)
  BY <1>6 DEF RemoveCheck, UnlockToken, Return, Goto, loops, file
<1>7. CASE RemoveDelete(c) \/ ClearDelete(c)
  BY <1>7 DEF RemoveDelete, ClearDelete, UnlockToken, Return, loops
<1>8. CASE StartThread(c)
  BY <1>8 DEF StartThread, file, mutexes, StartLabels
<1>9. CASE \/ ClearFinished(c) \/ Query(c) \/ CurrentRead(c) \/ StartJoin(c)
           \/ StopRunning(c)
  BY <1>9 DEF ClearFinished, Query, CurrentRead, StartJoin, StopRunning, Return,
     file, mutexes, loops
<1>10. CASE \/ CurrentCheck(c) \/ StartCheck(c) \/ StartRunning(c) \/ StartStart(c)
            \/ StopCheck(c) \/ StopStart(c)
  BY <1>10 DEF CurrentCheck, StartCheck, StartRunning, StartStart, StopCheck,
     StopStart, Return, Goto, file, mutexes, loops
<1>11. CASE (StartSwap(c) \/ StopKill(c)) /\ ~ServerDies
  BY <1>11 DEF StartSwap, StopKill, Goto, file, mutexes, loops
<1> QED  BY <1>1, <1>2, <1>3, <1>4, <1>5, <1>6, <1>7, <1>8, <1>9, <1>10, <1>11
         DEF ClientStep

\* So does a main loop.
LEMMA LockLoop == ASSUME TypeOK, LockInv, NEW l \in Loops, LoopStep(l) PROVE LockInv'
<1> USE OwnersDiffer DEF TypeOK, MutexType, LoopType, ClientType, LockInv
<1>1. CASE \/ LoopCheck(l) \/ LoopHalt(l) \/ LoopSelectFails(l)
           \/ LoopUnstuck(l) \/ LoopFailed(l)
  BY <1>1 DEF LoopCheck, LoopHalt, LoopSelectFails, LoopUnstuck, LoopFailed,
     LoopGoto, file, mutexes, clients
<1>2. CASE LoopSelect(l)
  BY <1>2 DEF LoopSelect, LockToken, LoopGoto, file, clients
<1>3. CASE LoopPick(l)
  BY <1>3 DEF LoopPick, UnlockToken, LoopGoto, file, clients
<1>4. CASE LoopIdle(l)
  BY <1>4 DEF LoopIdle, UnlockToken, LoopGoto, file, clients
<1>5. CASE LoopStart(l) \/ LoopFork(l) \/ LoopSetup(l) \/ LoopPoll(l)
  BY <1>5 DEF LoopStart, LoopFork, LoopSetup, LoopPoll, LoopGoto, file, mutexes, clients
<1>6. CASE LoopFinLock(l)
  BY <1>6 DEF LoopFinLock, FinReturns, LoopGoto, file, clients
<1>7. CASE LoopFinDelete(l)
  BY <1>7 DEF LoopFinDelete, LockToken, LoopGoto, clients
<1>8. CASE LoopFinDeleteFails(l)
  BY <1>8 DEF LoopFinDeleteFails, FinReturns, LoopGoto, file, clients
<1>9. CASE LoopFinInsert(l)
  BY <1>9 DEF LoopFinInsert, FinReturns, UnlockToken, LoopGoto, clients
<1> QED  BY <1>1, <1>2, <1>3, <1>4, <1>5, <1>6, <1>7, <1>8, <1>9 DEF LoopStep

LEMMA LockNext == TypeOK /\ LockInv /\ Next => LockInv'
<1> SUFFICES ASSUME TypeOK, LockInv, Next PROVE LockInv'
  OBVIOUS
<1>1. ASSUME NEW c \in Clients, CallAny(c) PROVE LockInv'
  <2>1. ASSUME NEW op, NEW a, NEW label, Call(c, op, label, a),
               label \notin {"add.update", "add.insert", "remove.check",
                             "remove.delete", "clear.delete"}
        PROVE  LockInv'
    BY <2>1 DEF Call, file, mutexes, loops, LockInv, TypeOK, ClientType
  <2> QED  BY <1>1, <2>1 DEF CallAny
<1>2. ASSUME NEW p \in Pids, ChildExit(p) PROVE LockInv'
  BY <1>2 DEF ChildExit, file, mutexes, loops, clients, LockInv
<1>3. Crash => LockInv'
  BY DEF Crash, ServerDies, LockInv, TypeOK, LoopType
<1> QED  BY <1>1, <1>2, <1>3, LockClient, LockLoop DEF Next

-----------------------------------------------------------------------------
(* The main loops have slots of their own. *)

LEMMA SlotInit == Init => SlotInv
  BY DEF Init, SlotInv, Spawning

\* A main loop moves itself, and only once it exists.
LEMMA LoopMoves ==
    ASSUME LoopType, NEW l \in Loops, LoopStep(l)
    PROVE  /\ loopPc[l] # "none" /\ loopPc' = [loopPc EXCEPT ![l] = loopPc'[l]]
           /\ UNCHANGED <<clients, starts>>
  BY DEF LoopType, LoopStep, LoopCheck, LoopHalt, LoopSelect, LoopSelectFails, LoopPick,
     LoopIdle, LoopStart, LoopFork, LoopSetup, LoopUnstuck, LoopPoll, LoopFinLock,
     LoopFinDelete, LoopFinDeleteFails, LoopFinInsert, LoopFailed, FinReturns,
     LoopGoto, history

LEMMA SlotNext == ASSUME TypeOK, SlotInv, Next PROVE SlotInv'
<1> USE DEF TypeOK, LoopType, ClientType, HistoryType
<1>1. CASE ServerDies
  BY <1>1 DEF ServerDies, SlotInv, Spawning
<1>2. ASSUME NEW c \in Clients, CallAny(c) PROVE SlotInv'
  <2>1. ASSUME starts < MaxStarts, Call(c, "start", "start.check", starts + 1)
        PROVE  SlotInv'
    <3>1. /\ starts' = starts + 1 /\ loopPc' = loopPc /\ starts + 1 \in Loops
          /\ pc' = [pc EXCEPT ![c] = "start.check"]
          /\ arg' = [arg EXCEPT ![c] = starts + 1]
      BY <2>1, BoundsAreNat DEF Call, loops, Loops
    <3>2. loopPc[starts + 1] = "none"
      BY <3>1 DEF SlotInv, Loops
    <3>3. \A d \in Clients : pc[d] \in Spawning => arg[d] # starts + 1
      BY DEF SlotInv
    <3>4. \A d \in Clients : pc[d] \in Spawning => arg[d] <= starts + 1
      BY DEF SlotInv
    <3>5. \A l \in Loops : l > starts + 1 => l > starts
      BY DEF Loops
    <3> QED  BY <3>1, <3>2, <3>3, <3>4, <3>5 DEF SlotInv
  <2>2. ASSUME NEW op, NEW a, NEW label, Call(c, op, label, a), op # "start",
               label \notin Spawning
        PROVE  SlotInv'
    BY <2>2 DEF Call, loops, SlotInv
  <2> QED  BY <1>2, <2>1, <2>2 DEF CallAny, Spawning
<1>3. ASSUME NEW c \in Clients, ClientStep(c), ~ServerDies PROVE SlotInv'
  <2>1. CASE StartThread(c)
    <3>1. /\ arg[c] \in Loops /\ pc[c] \in Spawning /\ UNCHANGED <<arg, starts>>
          /\ loopPc' = [loopPc EXCEPT ![arg[c]] = "check"]
          /\ pc' = [pc EXCEPT ![c] = "start.swap"]
      BY <2>1 DEF StartThread, StartLabels, Spawning
    <3>2. "start.swap" \notin Spawning
      BY DEF Spawning
    <3>3. \A d \in Clients \ {c} : pc[d] \in Spawning => arg[d] # arg[c]
      BY <3>1 DEF SlotInv
    <3>4. arg[c] <= starts
      BY <3>1 DEF SlotInv
    <3>5. \A l \in Loops : l > starts => l # arg[c]
      BY <3>4 DEF Loops
    <3> QED  BY <3>1, <3>2, <3>3, <3>5 DEF SlotInv
  <2>2. /\ pc[c] \in Spawning \/ pc'[c] \notin Spawning
        /\ StartThread(c) \/ UNCHANGED loopPc
        /\ pc' = [pc EXCEPT ![c] = pc'[c]]
        /\ pc'[c] \in Spawning => UNCHANGED arg
        /\ \A d \in Clients \ {c} : arg'[d] = arg[d]
        /\ UNCHANGED starts
    BY <1>3 DEF ClientStep, AddSelect, AddUpdate, AddInsert, StatementFails, RemoveLock,
       RemoveCheck, RemoveDelete, ClearLock, ClearDelete, ClearFinished, Query,
       CurrentCheck, CurrentRead, StartCheck, StartRunning, StartStart, StartThread,
       StartSwap, StartJoin, StopCheck, StopStart, StopKill, StopRunning,
       Goto, Return, loops, history, Spawning
  <2> QED  BY <2>1, <2>2 DEF SlotInv
<1>4. ASSUME NEW l \in Loops, LoopStep(l) PROVE SlotInv'
  <2>1. /\ loopPc[l] # "none" /\ loopPc' = [loopPc EXCEPT ![l] = loopPc'[l]]
        /\ UNCHANGED <<pc, arg, starts>>
    BY <1>4, LoopMoves DEF clients
  <2>2. \A k \in Loops : loopPc[k] = "none" => loopPc'[k] = "none"
    BY <2>1
  <2>3. \A c \in Clients : pc[c] \in Spawning => arg[c] \in Loops
    BY DEF Spawning, StartLabels
  <2> QED  BY <2>1, <2>2, <2>3 DEF SlotInv
<1>5. ASSUME NEW p \in Pids, ChildExit(p) PROVE SlotInv'
  BY <1>5 DEF ChildExit, loops, clients, SlotInv
<1> QED  BY <1>1, <1>2, <1>3, <1>4, <1>5 DEF Next, Crash
-----------------------------------------------------------------------------
(* The life of a task. *)

\* A step that neither commits to the file nor takes a task in hand.
Quiet ==
    /\ UNCHANGED <<pending, done, lastID, accepted, removed, cleared>>
    /\ m_currentTask'.ID \in {m_currentTask.ID, 0}
    /\ incidents \subseteq incidents'
    /\ \A c \in Clients :
          pc'[c] \in {"add.update", "add.insert", "remove.delete"} =>
              pc'[c] = pc[c] /\ arg'[c] = arg[c]
    /\ \A l \in Loops :
          /\ loopPc'[l] \in Busy => loopPc[l] \in Busy
          /\ loopPc'[l] = "fin.insert" =>
                loopPc[l] = "fin.insert" /\ m_currentTask'.ID = m_currentTask.ID
          /\ loopPc[l] = "fin.insert" =>
                loopPc'[l] = "fin.insert" \/ "unfinished" \in incidents'

\* The others.
Commits(c) ==
    \/ AddSelect(c) \/ AddUpdate(c) \/ AddInsert(c) \/ RemoveCheck(c)
    \/ RemoveDelete(c) \/ ClearDelete(c) \/ ClearFinished(c)
Takes(l) == LoopPick(l) \/ LoopFinDelete(l) \/ LoopFinInsert(l)

LEMMA QuietDeath == ASSUME ServerDies, TypeOK PROVE Quiet
  BY DEF ServerDies, Quiet, Busy, NoTask, file, TypeOK, LoopType, ClientType

LEMMA QuietClient ==
    ASSUME TypeOK, SlotInv, NEW c \in Clients, ClientStep(c)
    PROVE  Quiet \/ Commits(c)
<1> USE DEF TypeOK, ClientType, LoopType
<1>1. CASE ServerDies
  BY <1>1, QuietDeath
<1>2. CASE StartThread(c)
  <2>1. arg[c] \in Loops /\ loopPc[arg[c]] = "none"
    BY <1>2 DEF StartThread, StartLabels, SlotInv, Spawning
  <2> QED  BY <1>2, <2>1 DEF StartThread, Quiet, file, Busy
<1>3. CASE StatementFails(c) \/ RemoveLock(c) \/ ClearLock(c)
  BY <1>3 DEF StatementFails, RemoveLock, ClearLock, Goto, Return, Quiet, file, loops,
     history
<1>4. CASE Query(c) \/ CurrentRead(c) \/ StartJoin(c) \/ StopRunning(c)
  BY <1>4 DEF Query, CurrentRead, StartJoin, StopRunning, Return, Quiet, file, loops,
     history
<1>5. CASE \/ CurrentCheck(c) \/ StartCheck(c) \/ StartRunning(c) \/ StartStart(c)
           \/ StopCheck(c) \/ StopStart(c)
  BY <1>5 DEF CurrentCheck, StartCheck, StartRunning, StartStart, StopCheck,
     StopStart, Return, Goto, Quiet, file, loops, history
<1>6. CASE (StartSwap(c) \/ StopKill(c)) /\ ~ServerDies
  BY <1>6 DEF StartSwap, StopKill, Goto, Quiet, file, loops, history
<1> QED  BY <1>1, <1>2, <1>3, <1>4, <1>5, <1>6 DEF ClientStep, Commits

\* No other main loop is moving a task while this one holds a mutex, or takes it.
LEMMA NobodyMoves ==
    ASSUME TypeOK, LockInv, NEW l \in Loops, NEW k \in Loops \ {l},
           \/ currentTaskMutex \in {Nobody, l}
           \/ tokenMutex \in {Nobody, l}
    PROVE  loopPc[k] # "fin.insert"
  BY OwnersDiffer DEF LockInv

LEMMA QuietLoop ==
    ASSUME TypeOK, LockInv, NEW l \in Loops, LoopStep(l)
    PROVE  Quiet \/ Takes(l)
<1> USE DEF TypeOK, LoopType, TaskType
<1>1. CASE \/ LoopCheck(l) \/ LoopHalt(l) \/ LoopSelect(l) \/ LoopSelectFails(l)
           \/ LoopIdle(l) \/ LoopFailed(l)
  BY <1>1 DEF LoopCheck, LoopHalt, LoopSelect, LoopSelectFails, LoopIdle, LoopFailed,
     LoopGoto, Quiet, Busy, file, clients, history
<1>2. CASE LoopStart(l) \/ LoopFork(l) \/ LoopSetup(l) \/ LoopUnstuck(l) \/ LoopPoll(l)
  BY <1>2 DEF LoopStart, LoopFork, LoopSetup, LoopUnstuck, LoopPoll, LoopGoto, Quiet,
     Busy, file, clients, history
<1>3. CASE LoopFinLock(l)
  <2>1. \A k \in Loops \ {l} : loopPc[k] # "fin.insert"
    BY <1>3, NobodyMoves DEF LoopFinLock
  <2> QED  BY <1>3, <2>1 DEF LoopFinLock, FinReturns, LoopGoto, NoTask, Quiet, Busy,
              file, clients, history
<1>4. CASE LoopFinDeleteFails(l)
  <2>1. \A k \in Loops \ {l} : loopPc[k] # "fin.insert"
    BY <1>4, NobodyMoves DEF LoopFinDeleteFails
  <2> QED  BY <1>4, <2>1 DEF LoopFinDeleteFails, FinReturns, LoopGoto, NoTask, Quiet,
              Busy, file, clients, history
<1> QED  BY <1>1, <1>2, <1>3, <1>4 DEF LoopStep, Takes

LEMMA QuietOrNot ==
    ASSUME TypeOK, LockInv, SlotInv, Next
    PROVE  \/ Quiet
           \/ \E c \in Clients : Commits(c)
           \/ \E l \in Loops : Takes(l)
<1>1. ASSUME NEW c \in Clients, CallAny(c) PROVE Quiet
  <2>1. ASSUME NEW op, NEW a, NEW label, Call(c, op, label, a),
               label \notin {"add.update", "add.insert", "remove.delete"}
        PROVE  Quiet
    BY <2>1 DEF Call, file, loops, Quiet, TypeOK, ClientType
  <2> QED  BY <1>1, <2>1 DEF CallAny
<1>2. ASSUME NEW p \in Pids, ChildExit(p) PROVE Quiet
  BY <1>2 DEF ChildExit, file, loops, clients, Quiet
<1>3. CASE Crash
  BY <1>3, QuietDeath DEF Crash
<1> QED  BY <1>1, <1>2, <1>3, QuietClient, QuietLoop DEF Next
-----------------------------------------------------------------------------
(* IDs. *)

LEMMA KnownAreNat == ASSUME TypeOK PROVE Known \subseteq Nat /\ RowIDs(pending) \subseteq Nat
<1>1. RowIDs(pending) \subseteq Nat
  BY LenProperties DEF TypeOK, FileType, RowIDs
<1>2. DoneIDs(done) \subseteq Nat
  BY DEF TypeOK, FileType, DoneIDs
<1> QED  BY <1>1, <1>2 DEF TypeOK, HistoryType, Known

LEMMA IDInit == Init => IDInv
  BY DEF Init, IDInv, InIDOrder, RowIDs, DoneIDs, Known, NoTask, Busy

LEMMA IDQuiet == ASSUME TypeOK, IDInv, Quiet PROVE IDInv'
<1>1. /\ Known' = Known /\ RowIDs(pending)' = RowIDs(pending) /\ pending' = pending
      /\ lastID' = lastID /\ accepted' = accepted
      /\ InIDOrder(pending)' = InIDOrder(pending)
  BY DEF Quiet, Known, RowIDs, DoneIDs, InIDOrder
<1>2. \A c \in Clients :
        /\ pc'[c] = "add.update" => arg'[c] = lastID
        /\ pc'[c] = "add.insert" =>
              lastID = arg'[c] + 1 /\ \A id \in Known : id < arg'[c]
  BY DEF Quiet, IDInv
<1>3. \A l \in Loops : loopPc'[l] \in Busy => lastID > 0
  BY DEF Quiet, IDInv
<1>4. m_currentTask'.ID = 0 \/ m_currentTask'.ID < lastID
  BY DEF Quiet, IDInv
<1>5. \A w \in RowIDs(pending) : m_currentTask'.ID <= w
  BY KnownAreNat DEF Quiet, IDInv
<1> QED  BY <1>1, <1>2, <1>3, <1>4, <1>5 DEF IDInv

\* addTask: the ID is taken, the counter moves, the row enters.
LEMMA IDAdd ==
    ASSUME TypeOK, LockInv, IDInv, NEW c \in Clients,
           AddSelect(c) \/ AddUpdate(c) \/ AddInsert(c)
    PROVE  IDInv'
<1> USE DEF TypeOK, ClientType, FileType, TaskType
<1>1. CASE AddSelect(c)
  BY <1>1 DEF AddSelect, IDInv, Known, file, loops, history
<1>2. CASE AddUpdate(c)
  <2>1. /\ pc[c] = "add.update" /\ arg[c] = lastID /\ lastID' = lastID + 1
        /\ pc' = [pc EXCEPT ![c] = "add.insert"]
        /\ UNCHANGED <<pending, done, arg, accepted, loopPc, m_currentTask>>
        /\ tokenMutex = c
    BY <1>2 DEF AddUpdate, NextID, Goto, IDInv, loops, history, LockInv
  <2>2. \A d \in Clients \ {c} : pc[d] \notin {"add.update", "add.insert"}
    BY <2>1 DEF LockInv
  <2>3. Known' = Known /\ RowIDs(pending)' = RowIDs(pending)
        /\ InIDOrder(pending)' = InIDOrder(pending)
    BY <2>1 DEF Known, RowIDs, DoneIDs, InIDOrder
  <2>4. \A id \in Known : id < lastID + 1 /\ id < lastID
    BY KnownAreNat DEF IDInv
  <2>5. m_currentTask.ID = 0 \/ m_currentTask.ID < lastID + 1
    BY DEF IDInv
  <2>6. \A d \in Clients :
          /\ pc'[d] = "add.update" => arg'[d] = lastID'
          /\ pc'[d] = "add.insert" =>
                lastID' = arg'[d] + 1 /\ \A id \in Known : id < arg'[d]
    BY <2>1, <2>2, <2>4
  <2>7. \A w \in RowIDs(pending) : m_currentTask.ID <= w
    BY DEF IDInv
  <2>8. InIDOrder(pending) /\ RowIDs(pending) \subseteq accepted /\ lastID' > 0
    BY <2>1 DEF IDInv
  <2> QED  BY <2>1, <2>3, <2>4, <2>5, <2>6, <2>7, <2>8 DEF IDInv
<1>3. CASE AddInsert(c)
  <2>1. /\ pc[c] = "add.insert" /\ lastID = arg[c] + 1
        /\ \A id \in Known : id < arg[c]
        /\ pending' = InsertPending(pending, arg[c])
        /\ accepted' = accepted \cup {arg[c]}
        /\ pc' = [pc EXCEPT ![c] = "idle"]
        /\ \A d \in Clients \ {c} : arg'[d] = arg[d]
        /\ UNCHANGED <<done, lastID, loopPc, m_currentTask>>
        /\ tokenMutex = c
    BY <1>3 DEF AddInsert, Return, IDInv, loops, LockInv
  <2>2. \A d \in Clients : pc'[d] \notin {"add.update", "add.insert"}
    BY <2>1 DEF LockInv
  <2>3. RowIDs(pending') = RowIDs(pending) \cup {arg[c]} /\ InIDOrder(pending')
    BY <2>1, InsertRows DEF IDInv, Known
  <2>4. Known' = Known \cup {arg[c]}
    BY <2>1, <2>3 DEF Known
  <2>5. \A id \in Known' : id < lastID
    BY <2>1, <2>4, KnownAreNat DEF IDInv
  <2>6. \A w \in RowIDs(pending') : m_currentTask.ID <= w
    BY <2>1, <2>3 DEF IDInv
  <2>7. RowIDs(pending') \subseteq accepted'
    BY <2>1, <2>3 DEF IDInv
  <2>8. /\ m_currentTask.ID = 0 \/ m_currentTask.ID < lastID
        /\ \A l \in Loops : loopPc[l] \in Busy => lastID > 0
    BY DEF IDInv
  <2> QED  BY <2>1, <2>2, <2>3, <2>5, <2>6, <2>7, <2>8 DEF IDInv
<1> QED  BY <1>1, <1>2, <1>3

\* The statements that delete rows.
LEMMA IDShrinks ==
    ASSUME IDInv, InIDOrder(pending'), RowIDs(pending') \subseteq RowIDs(pending),
           DoneIDs(done') \subseteq DoneIDs(done),
           UNCHANGED <<lastID, accepted, loopPc, m_currentTask>>,
           \A c \in Clients : pc'[c] \in {"add.update", "add.insert"} =>
                                  pc'[c] = pc[c] /\ arg'[c] = arg[c]
    PROVE  IDInv'
<1>1. Known' \subseteq Known
  BY DEF Known
<1>2. \A c \in Clients :
        /\ pc'[c] = "add.update" => arg'[c] = lastID
        /\ pc'[c] = "add.insert" =>
              lastID = arg'[c] + 1 /\ \A id \in Known : id < arg'[c]
  BY DEF IDInv
<1>3. /\ \A id \in Known : id < lastID
      /\ \A w \in RowIDs(pending') : m_currentTask.ID <= w
      /\ RowIDs(pending') \subseteq accepted
      /\ m_currentTask.ID = 0 \/ m_currentTask.ID < lastID
      /\ \A l \in Loops : loopPc[l] \in Busy => lastID > 0
  BY DEF IDInv
<1> QED  BY <1>1, <1>2, <1>3 DEF IDInv

LEMMA IDDelete ==
    ASSUME TypeOK, IDInv, NEW c \in Clients,
           RemoveCheck(c) \/ RemoveDelete(c) \/ ClearDelete(c) \/ ClearFinished(c)
    PROVE  IDInv'
<1> USE DEF TypeOK, ClientType, FileType
<1>1. CASE RemoveCheck(c)
  BY <1>1, IDShrinks DEF RemoveCheck, Return, Goto, file, loops, history, IDInv
<1>2. CASE RemoveDelete(c)
  <2>1. RowIDs(pending') \subseteq RowIDs(pending) /\ InIDOrder(pending')
    BY <1>2, DeleteRows DEF RemoveDelete, IDInv
  <2> QED  BY <1>2, <2>1, IDShrinks DEF RemoveDelete, Return, loops
<1>3. CASE ClearDelete(c)
  <2>1. RowIDs(pending') \subseteq RowIDs(pending) /\ InIDOrder(pending')
    <3>1. pending' = <<>> \/ pending' = pending
      BY <1>3 DEF ClearDelete
    <3>2. RowIDs(<<>>) = {} /\ InIDOrder(<<>>)
      BY DEF RowIDs, InIDOrder
    <3> QED  BY <3>1, <3>2 DEF IDInv
  <2> QED  BY <1>3, <2>1, IDShrinks DEF ClearDelete, Return, loops
<1>4. CASE ClearFinished(c)
  <2>1. DoneIDs(done') \subseteq DoneIDs(done)
    BY <1>4 DEF ClearFinished, DoneIDs
  <2> QED  BY <1>4, <2>1, IDShrinks DEF ClearFinished, Return, loops, IDInv
<1> QED  BY <1>1, <1>2, <1>3, <1>4
\* A main loop takes the oldest row, deletes it, and inserts it into done.
LEMMA IDTakes == ASSUME TypeOK, LockInv, IDInv, NEW l \in Loops, Takes(l) PROVE IDInv'
<1> USE DEF TypeOK, FileType, TaskType
<1>1. CASE LoopPick(l)
  <2>1. /\ m_currentTask'.ID = FirstRow(pending) /\ pending # <<>>
        /\ loopPc' = [loopPc EXCEPT ![l] = "start"]
        /\ UNCHANGED <<pending, done, lastID, accepted, pc, arg>>
    BY <1>1 DEF LoopPick, LoopGoto, LockInv, file, clients, history
  <2>2. /\ Known' = Known /\ RowIDs(pending)' = RowIDs(pending)
        /\ InIDOrder(pending)' = InIDOrder(pending)
    BY <2>1 DEF Known, RowIDs, DoneIDs, InIDOrder
  <2>3. /\ FirstRow(pending) \in RowIDs(pending)
        /\ \A w \in RowIDs(pending) : FirstRow(pending) <= w
    BY <2>1, FirstIsOldest DEF IDInv
  <2>4. m_currentTask'.ID < lastID /\ lastID > 0
    BY <2>1, <2>3, KnownAreNat DEF IDInv, Known
  <2>5. /\ InIDOrder(pending) /\ RowIDs(pending) \subseteq accepted
        /\ \A id \in Known : id < lastID
        /\ \A c \in Clients :
              /\ pc[c] = "add.update" => arg[c] = lastID
              /\ pc[c] = "add.insert" =>
                    lastID = arg[c] + 1 /\ \A id \in Known : id < arg[c]
    BY DEF IDInv
  <2> QED  BY <2>1, <2>2, <2>3, <2>4, <2>5 DEF IDInv
<1>2. CASE LoopFinDelete(l)
  <2>1. RowIDs(pending') \subseteq RowIDs(pending) /\ InIDOrder(pending')
    BY <1>2, DeleteRows DEF LoopFinDelete, IDInv
  <2>2. /\ loopPc[l] \in Busy /\ loopPc' = [loopPc EXCEPT ![l] = "fin.insert"]
        /\ UNCHANGED <<done, lastID, accepted, pc, arg, m_currentTask>>
    BY <1>2 DEF LoopFinDelete, LoopGoto, clients, Busy
  <2>3. Known' \subseteq Known
    BY <2>1, <2>2 DEF Known
  <2>4. \A w \in RowIDs(pending') : m_currentTask.ID <= w
    BY <2>1 DEF IDInv
  <2>5. \A k \in Loops : loopPc'[k] \in Busy => lastID > 0
    BY <2>2 DEF IDInv
  <2>6. /\ RowIDs(pending') \subseteq accepted
        /\ \A id \in Known : id < lastID
        /\ m_currentTask.ID = 0 \/ m_currentTask.ID < lastID
        /\ \A c \in Clients :
              /\ pc[c] = "add.update" => arg[c] = lastID
              /\ pc[c] = "add.insert" =>
                    lastID = arg[c] + 1 /\ \A id \in Known : id < arg[c]
    BY <2>1 DEF IDInv
  <2> QED  BY <2>1, <2>2, <2>3, <2>4, <2>5, <2>6 DEF IDInv
<1>3. CASE LoopFinInsert(l)
  <2>1. /\ loopPc[l] = "fin.insert" /\ tokenMutex = l
        /\ m_currentTask' = NoTask /\ \A k \in Loops \ {l} : loopPc'[k] = loopPc[k]
        /\ loopPc'[l] \in {"check", "failed"}
        /\ UNCHANGED <<pending, lastID, accepted, pc, arg>>
        /\ done' = done \/ done' = done \cup {m_currentTask}
    BY <1>3 DEF LoopFinInsert, FinReturns, LoopGoto, InsertDone, LockInv, clients, LoopType
  <2>2. DoneIDs(done') \subseteq DoneIDs(done) \cup {m_currentTask.ID}
    BY <2>1 DEF DoneIDs
  <2>3. /\ RowIDs(pending)' = RowIDs(pending) /\ InIDOrder(pending)' = InIDOrder(pending)
        /\ Known' \subseteq Known \cup {m_currentTask.ID}
    BY <2>1, <2>2 DEF Known, RowIDs, InIDOrder
  <2>4. lastID > 0 /\ m_currentTask.ID < lastID
    BY <2>1 DEF IDInv, Busy
  <2>5. \A c \in Clients : pc[c] \notin {"add.update", "add.insert"}
    BY <2>1, OwnersDiffer DEF LockInv
  <2>6. /\ InIDOrder(pending) /\ RowIDs(pending) \subseteq accepted
        /\ \A id \in Known : id < lastID
    BY DEF IDInv
  <2>7. m_currentTask'.ID = 0 /\ \A w \in RowIDs(pending) : 0 <= w
    BY <2>1, KnownAreNat DEF NoTask
  <2> QED  BY <2>1, <2>3, <2>4, <2>5, <2>6, <2>7 DEF IDInv
<1> QED  BY <1>1, <1>2, <1>3 DEF Takes

LEMMA IDNext == ASSUME TypeOK, LockInv, SlotInv, IDInv, Next PROVE IDInv'
  BY QuietOrNot, IDQuiet, IDAdd, IDDelete, IDTakes DEF Commits

-----------------------------------------------------------------------------
(* From pending to done. *)

LEMMA MoveInit == Init => MoveInv
  BY DEF Init, MoveInv, Moving, RowIDs, DoneIDs

LEMMA MoveNext == ASSUME TypeOK, LockInv, SlotInv, IDInv, MoveInv, Next PROVE MoveInv'
<1> USE DEF TypeOK, FileType, TaskType, ClientType, LoopType
<1> SUFFICES ASSUME "undeleted" \notin incidents' PROVE MoveInv'
  BY DEF MoveInv
<1>1. CASE Quiet
  <2>1. /\ RowIDs(pending)' = RowIDs(pending) /\ DoneIDs(done)' = DoneIDs(done)
        /\ "undeleted" \notin incidents
    BY <1>1 DEF Quiet, RowIDs, DoneIDs
  <2>2. Moving' # {} => Moving # {} /\ m_currentTask'.ID = m_currentTask.ID
    BY <1>1 DEF Quiet, Moving
  <2> QED  BY <2>1, <2>2 DEF MoveInv
<1>2. ASSUME NEW c \in Clients, Commits(c) PROVE MoveInv'
  <2>1. UNCHANGED <<loopPc, m_currentTask, incidents>>
    BY <1>2 DEF Commits, AddSelect, AddUpdate, AddInsert, RemoveCheck, RemoveDelete,
       ClearDelete, ClearFinished, loops, history
  <2>2. Moving' = Moving
    BY <2>1 DEF Moving
  <2>3. CASE AddInsert(c)
    <3>1. /\ done' = done /\ RowIDs(pending') = RowIDs(pending) \cup {arg[c]}
          /\ tokenMutex = c /\ \A id \in Known : id < arg[c]
          /\ arg[c] \in Nat
      BY <2>3, InsertRows DEF AddInsert, LockInv, IDInv
    <3>2. Moving = {}
      BY <3>1, OwnersDiffer DEF Moving, LockInv
    <3>3. arg[c] \notin DoneIDs(done)
      BY <3>1 DEF Known
    <3>4. RowIDs(pending) \cap DoneIDs(done) = {}
      BY <2>1 DEF MoveInv
    <3> QED  BY <2>2, <3>1, <3>2, <3>3, <3>4 DEF MoveInv
  <2>4. CASE ~AddInsert(c)
    <3>1. /\ RowIDs(pending') \subseteq RowIDs(pending)
          /\ DoneIDs(done') \subseteq DoneIDs(done)
      <4>1. CASE AddSelect(c) \/ AddUpdate(c) \/ RemoveCheck(c)
        BY <4>1 DEF AddSelect, AddUpdate, RemoveCheck, file
      <4>2. CASE RemoveDelete(c)
        BY <4>2, DeleteRows DEF RemoveDelete, IDInv
      <4>3. CASE ClearDelete(c) \/ ClearFinished(c)
        BY <4>3 DEF ClearDelete, ClearFinished, RowIDs, DoneIDs
      <4> QED  BY <1>2, <2>4, <4>1, <4>2, <4>3 DEF Commits
    <3> QED  BY <2>1, <2>2, <3>1 DEF MoveInv
  <2> QED  BY <2>3, <2>4
<1>3. ASSUME NEW l \in Loops, Takes(l) PROVE MoveInv'
  <2>1. CASE LoopPick(l)
    <3>1. /\ tokenMutex = l /\ loopPc' = [loopPc EXCEPT ![l] = "start"]
          /\ UNCHANGED <<pending, done, incidents>>
      BY <2>1 DEF LoopPick, LoopGoto, LockInv, file, history
    <3>2. Moving' = {}
      BY <3>1, NobodyMoves DEF Moving
    <3> QED  BY <3>1, <3>2 DEF MoveInv
  <2>2. CASE LoopFinDelete(l)
    <3>1. /\ RowIDs(pending') = RowIDs(pending) \ {m_currentTask.ID}
          /\ UNCHANGED <<done, m_currentTask, incidents>>
      BY <2>2, DeleteRows DEF LoopFinDelete, IDInv
    <3> QED  BY <3>1 DEF MoveInv
  <2>3. CASE LoopFinInsert(l)
    <3>1. /\ loopPc[l] = "fin.insert" /\ tokenMutex = l
          /\ loopPc'[l] # "fin.insert"
          /\ \A k \in Loops \ {l} : loopPc'[k] = loopPc[k]
          /\ pending' = pending /\ "undeleted" \notin incidents
          /\ done' = done \/ done' = done \cup {m_currentTask}
      BY <2>3 DEF LoopFinInsert, FinReturns, LoopGoto, InsertDone, LockInv
    <3>2. Moving' = {}
      BY <3>1, NobodyMoves DEF Moving
    <3>3. DoneIDs(done') \subseteq DoneIDs(done) \cup {m_currentTask.ID}
      BY <3>1 DEF DoneIDs
    <3>4. l \in Moving
      BY <3>1 DEF Moving
    <3> QED  BY <3>1, <3>2, <3>3, <3>4 DEF MoveInv
  <2> QED  BY <1>3, <2>1, <2>2, <2>3 DEF Takes
<1> QED  BY <1>1, <1>2, <1>3, QuietOrNot
-----------------------------------------------------------------------------
(* Removed tasks. *)

LEMMA RemovedInit == Init => RemovedInv
  BY DEF Init, RemovedInv

LEMMA RemovedNext ==
    ASSUME TypeOK, LockInv, SlotInv, IDInv, RemovedInv, Next PROVE RemovedInv'
<1> USE DEF TypeOK, FileType, TaskType, ClientType
<1>1. CASE Quiet
  <2>1. /\ RowIDs(pending)' = RowIDs(pending)
        /\ UNCHANGED <<accepted, removed>>
        /\ m_currentTask'.ID \in {m_currentTask.ID, 0}
    BY <1>1 DEF Quiet, RowIDs
  <2>2. ASSUME NEW c \in Clients, pc'[c] = "remove.delete", arg'[c] \in RowIDs(pending)
        PROVE  arg'[c] # m_currentTask'.ID
    <3>1. arg[c] = arg'[c] /\ arg[c] # m_currentTask.ID /\ m_currentTask.ID <= arg[c]
      BY <1>1, <2>2 DEF Quiet, RemovedInv, IDInv
    <3> QED  BY <2>1, <3>1
  <2> QED  BY <2>1, <2>2 DEF RemovedInv
<1>2. ASSUME NEW c \in Clients, Commits(c) PROVE RemovedInv'
  <2>1. CASE AddSelect(c) \/ AddUpdate(c)
    <3>1. /\ UNCHANGED <<pending, accepted, removed, m_currentTask>>
          /\ pc'[c] # "remove.delete"
          /\ \A d \in Clients \ {c} : pc'[d] = pc[d] /\ arg'[d] = arg[d]
      BY <2>1 DEF AddSelect, AddUpdate, Goto, file, history
    <3> QED  BY <3>1 DEF RemovedInv, RowIDs
  <2>2. CASE AddInsert(c)
    <3>1. /\ RowIDs(pending') = RowIDs(pending) \cup {arg[c]}
          /\ accepted' = accepted \cup {arg[c]}
          /\ UNCHANGED <<removed, m_currentTask>> /\ arg[c] \in Nat
          /\ \A d \in Clients : pc'[d] \in {"idle", pc[d]}
          /\ pc'[c] = "idle"
      BY <2>2, InsertRows DEF AddInsert, Return
    <3>2. \A d \in Clients : pc'[d] # "remove.delete"
      BY <2>2, <3>1 DEF AddInsert, Return, LockInv
    <3>3. arg[c] \notin removed
      BY <2>2, <3>1 DEF AddInsert, IDInv, Known, RemovedInv
    <3> QED  BY <3>1, <3>2, <3>3 DEF RemovedInv
  <2>3. CASE RemoveCheck(c)
    <3>1. /\ UNCHANGED <<pending, accepted, removed, m_currentTask>>
          /\ pc'[c] = "remove.delete" => arg'[c] = arg[c] /\ arg[c] # m_currentTask.ID
          /\ \A d \in Clients \ {c} : pc'[d] = pc[d] /\ arg'[d] = arg[d]
      BY <2>3 DEF RemoveCheck, IsCurrent, Goto, Return, file, history
    <3> QED  BY <3>1 DEF RemovedInv, RowIDs
  <2>4. CASE RemoveDelete(c)
    <3>1. /\ RowIDs(pending') = RowIDs(pending) \ {arg[c]}
          /\ removed' = removed \cup ({arg[c]} \cap RowIDs(pending))
          /\ UNCHANGED <<accepted, m_currentTask>>
          /\ pc[c] = "remove.delete" /\ pc'[c] = "idle"
          /\ \A d \in Clients \ {c} : pc'[d] = pc[d]
      BY <2>4, DeleteRows DEF RemoveDelete, Return, IDInv
    <3>2. \A d \in Clients : pc'[d] # "remove.delete"
      BY <3>1 DEF LockInv
    <3>3. arg[c] \in RowIDs(pending) =>
             arg[c] # m_currentTask.ID /\ m_currentTask.ID <= arg[c] /\ arg[c] \in accepted
      BY <3>1 DEF RemovedInv, IDInv
    <3>4. arg[c] \in RowIDs(pending) => arg[c] # 0
      BY <3>3
    <3> QED  BY <3>1, <3>2, <3>3, <3>4 DEF RemovedInv
  <2>5. CASE ClearDelete(c) \/ ClearFinished(c)
    <3>1. /\ RowIDs(pending') \subseteq RowIDs(pending)
          /\ UNCHANGED <<accepted, removed, m_currentTask>>
          /\ pc'[c] = "idle"
          /\ \A d \in Clients \ {c} : pc'[d] = pc[d] /\ arg'[d] = arg[d]
      BY <2>5 DEF ClearDelete, ClearFinished, Return, RowIDs
    <3> QED  BY <3>1 DEF RemovedInv
  <2> QED  BY <1>2, <2>1, <2>2, <2>3, <2>4, <2>5 DEF Commits
<1>3. ASSUME NEW l \in Loops, Takes(l) PROVE RemovedInv'
  <2>1. UNCHANGED <<accepted, removed, pc, arg>>
    BY <1>3 DEF Takes, LoopPick, LoopFinDelete, LoopFinInsert, clients, history
  <2>2. \A c \in Clients : pc[c] # "remove.delete"
    BY <1>3, OwnersDiffer DEF Takes, LoopPick, LoopFinDelete, LoopFinInsert, LockToken,
       LockInv
  <2>3. /\ RowIDs(pending') \subseteq RowIDs(pending)
        /\ m_currentTask'.ID \in {0, m_currentTask.ID} \cup RowIDs(pending)
    <3>1. CASE LoopPick(l)
      <4>1. pending # <<>> /\ pending' = pending
            /\ m_currentTask'.ID = FirstRow(pending)
        BY <3>1 DEF LoopPick, LockInv, file
      <4> QED  BY <4>1, FirstIsOldest DEF IDInv
    <3>2. CASE LoopFinDelete(l)
      BY <3>2, DeleteRows DEF LoopFinDelete, IDInv
    <3>3. CASE LoopFinInsert(l)
      BY <3>3 DEF LoopFinInsert, FinReturns, NoTask
    <3> QED  BY <1>3, <3>1, <3>2, <3>3 DEF Takes
  <2> QED  BY <2>1, <2>2, <2>3 DEF RemovedInv
<1> QED  BY <1>1, <1>2, <1>3, QuietOrNot

-----------------------------------------------------------------------------
(* No accepted task is lost. *)

LEMMA LostInit == Init => NothingLost
  BY DEF Init, NothingLost

LEMMA LostNext == ASSUME TypeOK, LockInv, SlotInv, IDInv, NothingLost, Next PROVE NothingLost'
<1> USE DEF TypeOK, FileType, TaskType, ClientType, LoopType
<1> SUFFICES ASSUME "unfinished" \notin incidents', NEW id \in accepted'
             PROVE  \/ id \in RowIDs(pending') \cup DoneIDs(done') \cup removed' \cup cleared'
                    \/ Moving' # {} /\ m_currentTask'.ID = id
  BY DEF NothingLost, RowIDs, DoneIDs
<1> DEFINE Kept == \/ id \in RowIDs(pending) \cup DoneIDs(done) \cup removed \cup cleared
                   \/ Moving # {} /\ m_currentTask.ID = id
<1>0. "unfinished" \notin incidents /\ id \in accepted => Kept
  BY DEF NothingLost
<1> HIDE DEF Kept
<1>1. CASE Quiet
  <2>1. /\ UNCHANGED <<pending, done, accepted, removed, cleared>>
        /\ "unfinished" \notin incidents
    BY <1>1 DEF Quiet
  <2>2. Moving # {} => Moving' # {} /\ m_currentTask'.ID = m_currentTask.ID
    BY <1>1 DEF Quiet, Moving
  <2> QED  BY <1>0, <2>1, <2>2 DEF Kept
<1>2. ASSUME NEW c \in Clients, Commits(c)
      PROVE  \/ id \in RowIDs(pending') \cup DoneIDs(done') \cup removed' \cup cleared'
             \/ Moving' # {} /\ m_currentTask'.ID = id
  <2>1. UNCHANGED <<loopPc, m_currentTask, incidents>>
    BY <1>2 DEF Commits, AddSelect, AddUpdate, AddInsert, RemoveCheck, RemoveDelete,
       ClearDelete, ClearFinished, loops, history
  <2>2. Moving' = Moving
    BY <2>1 DEF Moving
  <2>3. CASE AddInsert(c)
    <3>1. /\ RowIDs(pending') = RowIDs(pending) \cup {arg[c]}
          /\ accepted' = accepted \cup {arg[c]}
          /\ UNCHANGED <<done, removed, cleared>>
      BY <2>3, InsertRows DEF AddInsert
    <3> QED  BY <1>0, <2>1, <2>2, <3>1 DEF Kept
  <2>4. CASE RemoveDelete(c)
    <3>1. /\ RowIDs(pending') = RowIDs(pending) \ {arg[c]}
          /\ removed' = removed \cup ({arg[c]} \cap RowIDs(pending))
          /\ UNCHANGED <<accepted, done, cleared>>
      BY <2>4, DeleteRows DEF RemoveDelete, IDInv
    <3> QED  BY <1>0, <2>1, <2>2, <3>1 DEF Kept
  <2>5. CASE ClearDelete(c) \/ ClearFinished(c)
    BY <1>0, <2>1, <2>2, <2>5 DEF ClearDelete, ClearFinished, Kept
  <2>6. CASE AddSelect(c) \/ AddUpdate(c) \/ RemoveCheck(c)
    BY <1>0, <2>1, <2>2, <2>6 DEF AddSelect, AddUpdate, RemoveCheck, file, history, Kept
  <2> QED  BY <1>2, <2>3, <2>4, <2>5, <2>6 DEF Commits
<1>3. ASSUME NEW l \in Loops, Takes(l)
      PROVE  \/ id \in RowIDs(pending') \cup DoneIDs(done') \cup removed' \cup cleared'
             \/ Moving' # {} /\ m_currentTask'.ID = id
  <2>1. UNCHANGED <<accepted, removed, cleared>> /\ incidents \subseteq incidents'
    BY <1>3 DEF Takes, LoopPick, LoopFinDelete, LoopFinInsert, history
  <2>2. CASE LoopPick(l)
    <3>1. tokenMutex = l /\ UNCHANGED <<pending, done>> /\ loopPc[l] = "pick"
      BY <2>2 DEF LoopPick, LockInv, file
    <3>2. Moving = {}
      BY <3>1, NobodyMoves DEF Moving
    <3> QED  BY <1>0, <2>1, <3>1, <3>2 DEF Kept
  <2>3. CASE LoopFinDelete(l)
    <3>1. /\ RowIDs(pending) \subseteq RowIDs(pending') \cup {m_currentTask.ID}
          /\ UNCHANGED <<done, m_currentTask>> /\ loopPc'[l] = "fin.insert"
      BY <2>3, DeleteRows DEF LoopFinDelete, LoopGoto, IDInv
    <3>2. Moving' # {}
      BY <3>1 DEF Moving
    <3> QED  BY <1>0, <2>1, <3>1, <3>2 DEF Kept
  <2>4. CASE LoopFinInsert(l)
    <3>1. /\ UNCHANGED pending
          /\ \/ done' = InsertDone(done, m_currentTask)
             \/ ~CanInsertDone(done, m_currentTask) /\ UNCHANGED done
      <4>1. "unfinished" \notin incidents'
        BY <1>0
      <4> QED  BY <2>4, <4>1 DEF LoopFinInsert
    <3>2. CASE done' = InsertDone(done, m_currentTask)
      <4>1. DoneIDs(done') = DoneIDs(done) \cup {m_currentTask.ID}
        BY <3>2 DEF InsertDone, DoneIDs
      <4> QED  BY <1>0, <2>1, <3>1, <4>1 DEF Kept
    <3>3. CASE ~CanInsertDone(done, m_currentTask) /\ UNCHANGED done
      <4>1. DoneIDs(done') = DoneIDs(done) \cup {m_currentTask.ID}
        BY <3>3 DEF CanInsertDone, DoneIDs
      <4> QED  BY <1>0, <2>1, <3>1, <4>1 DEF Kept
    <3> QED  BY <3>1, <3>2, <3>3
  <2> QED  BY <1>3, <2>2, <2>3, <2>4 DEF Takes
<1> QED  BY <1>1, <1>2, <1>3, QuietOrNot
-----------------------------------------------------------------------------
(* The theorems. *)

\* The inductive invariant.
Inv == TypeOK /\ LockInv /\ SlotInv /\ IDInv /\ MoveInv /\ RemovedInv /\ NothingLost

LEMMA InvInit == Init => Inv
  BY TypeInit, LockInit, SlotInit, IDInit, MoveInit, RemovedInit, LostInit DEF Inv

LEMMA InvStutters == Inv /\ UNCHANGED vars => Inv'
<1> SUFFICES ASSUME Inv, UNCHANGED vars PROVE Inv'
  OBVIOUS
<1>1. FileType' /\ MutexType' /\ FlagType' /\ TaskType'
  BY DEF Inv, vars, file, mutexes, flags, TypeOK, FileType, MutexType, FlagType, TaskType
<1>2. ProcessType' /\ LoopType'
  BY DEF Inv, vars, process, loops, TypeOK, ProcessType, LoopType
<1>3. ClientType' /\ HistoryType'
  BY DEF Inv, vars, clients, history, TypeOK, ClientType, HistoryType
<1>4. LockInv' /\ SlotInv'
  BY DEF Inv, vars, file, mutexes, loops, clients, history, LockInv, SlotInv
<1>5. IDInv' /\ RemovedInv'
  BY DEF Inv, vars, file, loops, clients, history, IDInv, RemovedInv, Known, RowIDs,
     DoneIDs, InIDOrder
<1>6. MoveInv' /\ NothingLost'
  BY DEF Inv, vars, file, loops, history, MoveInv, NothingLost, Moving, RowIDs, DoneIDs
<1> QED  BY <1>1, <1>2, <1>3, <1>4, <1>5, <1>6 DEF Inv, TypeOK

LEMMA InvNext == Inv /\ [Next]_vars => Inv'
<1> SUFFICES ASSUME Inv, Next PROVE Inv'
  BY InvStutters
<1>1. TypeOK'
  BY FileTypeNext, MutexTypeNext, FlagTypeNext, TaskTypeNext, ProcessTypeNext,
     LoopTypeNext, ClientTypeNext, HistoryTypeNext DEF Inv, TypeOK
<1> QED  BY <1>1, LockNext, SlotNext, IDNext, MoveNext, RemovedNext, LostNext DEF Inv

THEOREM Invariance == Spec => []Inv
<1> QED  BY InvInit, InvNext, PTL DEF Spec

\* Every variable keeps its type, with any bounds, operations and faults.
THEOREM TypeCorrect == Spec => []TypeOK
<1>1. Inv => TypeOK
  BY DEF Inv
<1> QED  BY <1>1, Invariance, PTL

\* addTask and getID, under any interleaving, error and crash: the pending rows
\* are in the order of their IDs, and the counter is ahead of every ID.
THEOREM OrderCorrect == Spec => []IDOrder
<1>1. Inv => IDOrder
  BY DEF Inv, IDInv, Known, IDOrder
<1> QED  BY <1>1, Invariance, PTL

\* No ID is given to two tasks, even across crashes between the update of the
\* counter and the insert of the row.
THEOREM IDsAreFresh == Spec => FreshIDs
<1>1. ASSUME Inv, [Next]_vars
      PROVE  [(RowIDs(pending') \ RowIDs(pending)) \cap accepted = {}]_vars
  <2> USE DEF Inv
  <2>1. CASE UNCHANGED vars
    BY <2>1
  <2>2. CASE Quiet
    BY <2>2 DEF Quiet, RowIDs
  <2>3. ASSUME NEW c \in Clients, Commits(c)
        PROVE  (RowIDs(pending') \ RowIDs(pending)) \cap accepted = {}
    <3>1. CASE AddInsert(c)
      <4>1. /\ RowIDs(pending') = RowIDs(pending) \cup {arg[c]}
            /\ \A id \in Known : id < arg[c]
            /\ arg[c] \in Nat
        BY <1>1, <3>1, InsertRows DEF AddInsert, TypeOK, FileType, ClientType, IDInv
      <4> QED  BY <4>1 DEF Known
    <3>2. CASE RemoveDelete(c)
      BY <1>1, <3>2, DeleteRows DEF RemoveDelete, IDInv, TypeOK, FileType, ClientType
    <3>3. CASE ClearDelete(c) \/ ClearFinished(c)
      BY <3>3 DEF ClearDelete, ClearFinished, RowIDs
    <3>4. CASE AddSelect(c) \/ AddUpdate(c) \/ RemoveCheck(c)
      BY <3>4 DEF AddSelect, AddUpdate, RemoveCheck, file
    <3> QED  BY <2>3, <3>1, <3>2, <3>3, <3>4 DEF Commits
  <2>4. ASSUME NEW l \in Loops, Takes(l)
        PROVE  (RowIDs(pending') \ RowIDs(pending)) \cap accepted = {}
    <3>1. CASE LoopFinDelete(l)
      BY <1>1, <3>1, DeleteRows DEF LoopFinDelete, IDInv, TypeOK, FileType, TaskType
    <3>2. CASE LoopPick(l) \/ LoopFinInsert(l)
      BY <3>2 DEF LoopPick, LoopFinInsert, file
    <3> QED  BY <2>4, <3>1, <3>2 DEF Takes
  <2> QED  BY <1>1, <2>1, <2>2, <2>3, <2>4, QuietOrNot
<1> QED  BY <1>1, Invariance, PTL DEF FreshIDs, Spec

\* mainLoopFin: a task is not both waiting and finished.
THEOREM TablesAreDisjoint == Spec => []DisjointTables
<1>1. Inv => DisjointTables
  BY DEF Inv, MoveInv, DisjointTables
<1> QED  BY <1>1, Invariance, PTL

\* However calls, main loops, errors and crashes interleave, an accepted task is
\* somewhere unless the row of a finished one was between the two tables.
THEOREM NoTaskLost == Spec => []NothingLost
<1>1. Inv => NothingLost
  BY DEF Inv
<1> QED  BY <1>1, Invariance, PTL

\* A child is made for the current task, by a main loop.
LEMMA ForkIsOfCurrent ==
    ASSUME Inv, Next, NEW id, Forks(id)
    PROVE  id = m_currentTask.ID /\ UNCHANGED m_currentTask
<1> PICK p \in Pids : proc[p] = "none" /\ proc'[p] = "running" /\ taskOf'[p] = id
  BY DEF Forks
<1> USE DEF Inv, TypeOK, ProcessType, HistoryType
<1>1. proc' # proc
  OBVIOUS
<1>2. ASSUME NEW c \in Clients, CallAny(c) PROVE FALSE
  BY <1>1, <1>2 DEF CallAny, Call, process
<1>3. ~ServerDies
  BY DEF ServerDies
<1>4. ASSUME NEW c \in Clients, ClientStep(c) PROVE FALSE
  <2>1. CASE StopKill(c)
    BY <1>3, <2>1 DEF StopKill, Killed
  <2> QED  BY <1>1, <1>3, <1>4, <2>1 DEF ClientStep, AddSelect, AddUpdate, AddInsert,
     StatementFails, RemoveLock, RemoveCheck, RemoveDelete, ClearLock, ClearDelete,
     ClearFinished, Query, CurrentCheck, CurrentRead, StartCheck, StartRunning,
     StartStart, StartThread, StartSwap, StartJoin, StopCheck, StopStart, StopRunning,
     process
<1>5. ASSUME NEW q \in Pids, ChildExit(q) PROVE FALSE
  BY <1>5 DEF ChildExit, Alive
<1>6. ASSUME Reap PROVE FALSE
  BY <1>6 DEF Reap, Zombies, Statuses
<1>7. ASSUME NEW l \in Loops, LoopStep(l)
      PROVE  id = m_currentTask.ID /\ UNCHANGED m_currentTask
  <2>1. CASE LoopFork(l)
    BY <2>1 DEF LoopFork
  <2>2. CASE LoopSetup(l)
    BY <2>2 DEF LoopSetup, Killed
  <2> QED  BY <1>1, <1>6, <1>7, <2>1, <2>2 DEF LoopStep, LoopCheck, LoopHalt, LoopSelect,
     LoopSelectFails, LoopPick, LoopIdle, LoopStart, LoopUnstuck, LoopPoll, LoopFinLock,
     LoopFinDelete, LoopFinDeleteFails, LoopFinInsert, LoopFailed, process
<1> QED  BY <1>2, <1>3, <1>4, <1>5, <1>7 DEF Next, Crash

\* removeTask: no child is ever made for a task it removed, whatever it raced with.
THEOREM RemovedStayRemoved == Spec => RemovedNeverRuns
<1>1. Inv /\ [Next]_vars => [\A id \in removed : ~Forks(id)]_vars
  BY ForkIsOfCurrent DEF Inv, RemovedInv
<1> QED  BY <1>1, Invariance, PTL DEF RemovedNeverRuns, Spec

\* mainLoopInit: the task that is started is the oldest one there is.
THEOREM FirstInFirstOut == Spec => Fifo
<1>1. Inv /\ [Next]_vars =>
        [\A id \in IDs : Forks(id) => \A w \in RowIDs(pending) : id <= w]_vars
  BY ForkIsOfCurrent DEF Inv, IDInv
<1> QED  BY <1>1, Invariance, PTL DEF Fifo, Spec

-----------------------------------------------------------------------------
(* One child at a time.                                                    *)

\* Unless a main loop was created while another was alive, there is one at most; the
\* child that is alive is the one of m_pid, and none is when a child is made.
OneInv ==
    \/ "overlap" \in incidents
    \/ /\ \A k, l \in Loops : LoopAlive(k) /\ LoopAlive(l) => k = l
       /\ \A p \in Pids : Alive(p) => p = m_pid
       /\ \A l \in Loops : loopPc[l] = "fork" => \A p \in Pids : ~Alive(p)

\* What went wrong is not forgotten.
LEMMA IncidentsGrow == ASSUME Next PROVE incidents \subseteq incidents'
<1>1. ServerDies => incidents \subseteq incidents'
  BY DEF ServerDies
<1>2. ASSUME NEW c \in Clients, CallAny(c) PROVE incidents \subseteq incidents'
  BY <1>2 DEF CallAny, Call
<1>3. ASSUME NEW c \in Clients, ClientStep(c) PROVE incidents \subseteq incidents'
  BY <1>1, <1>3 DEF ClientStep, AddSelect, AddUpdate, AddInsert, StatementFails, RemoveLock,
     RemoveCheck, RemoveDelete, ClearLock, ClearDelete, ClearFinished, Query,
     CurrentCheck, CurrentRead, StartCheck, StartRunning, StartStart, StartThread,
     StartSwap, StartJoin, StopCheck, StopStart, StopKill, StopRunning, history
<1>4. ASSUME NEW l \in Loops, LoopStep(l) PROVE incidents \subseteq incidents'
  BY <1>4 DEF LoopStep, LoopCheck, LoopHalt, LoopSelect, LoopSelectFails, LoopPick,
     LoopIdle, LoopStart, LoopFork, LoopSetup, LoopUnstuck, LoopPoll, LoopFinLock,
     LoopFinDelete, LoopFinDeleteFails, LoopFinInsert, LoopFailed, history
<1>5. ASSUME NEW p \in Pids, ChildExit(p) PROVE incidents \subseteq incidents'
  BY <1>5 DEF ChildExit
<1> QED  BY <1>1, <1>2, <1>3, <1>4, <1>5 DEF Next, Crash

\* Clients and main loops: what of OneInv they touch.
LEMMA ClientTouches ==
    ASSUME NEW c \in Clients, ClientStep(c), ~ServerDies
    PROVE  /\ UNCHANGED <<m_pid, m_exitCode, m_currentTask, taskOf, ran>>
           /\ proc' \in {proc, Killed}
           /\ StartThread(c) \/ UNCHANGED loopPc
  BY DEF ClientStep, AddSelect, AddUpdate, AddInsert, StatementFails, RemoveLock,
     RemoveCheck, RemoveDelete, ClearLock, ClearDelete, ClearFinished, Query,
     CurrentCheck, CurrentRead, StartCheck, StartRunning, StartStart, StartThread,
     StartSwap, StartJoin, StopCheck, StopStart, StopKill, StopRunning, history, process, loops

\* A killed child is alive until it ends.
LEMMA KilledLive ==
    ASSUME ProcessType, proc' \in {proc, Killed}
    PROVE  \A p \in Pids :
             /\ Alive(p)' <=> Alive(p)
             /\ proc'[p] = "none" <=> proc[p] = "none"
             /\ proc'[p] \in Statuses => proc'[p] = proc[p]
  BY DEF ProcessType, Killed, Alive, Statuses

\* Reaping makes no child.
LEMMA Reaping ==
    ASSUME ProcessType, Reap
    PROVE  \A p \in Pids : Alive(p)' => Alive(p)
  BY DEF ProcessType, Reap, Alive

\* The child of m_pid is what isRunning() sees.
LEMMA ChildSeen ==
    ASSUME ProcessType, m_pid \in Pids, Alive(m_pid)
    PROVE  ChildRuns
<1>1. Awaited = {m_pid}
  BY DEF Awaited, Pids
<1> QED  BY <1>1 DEF ChildRuns, Zombies, Alive, Statuses

LEMMA OneInit == Init => OneInv
  BY DEF Init, OneInv, LoopAlive, Alive

LEMMA OneDies == ASSUME ServerDies PROVE OneInv'
  BY DEF ServerDies, OneInv, LoopAlive, Alive

LEMMA OneNext == ASSUME TypeOK, OneInv, Next PROVE OneInv'
<1> SUFFICES ASSUME "overlap" \notin incidents' PROVE OneInv'
  BY DEF OneInv
<1> USE DEF TypeOK
<1>1. /\ "overlap" \notin incidents
      /\ \A k, l \in Loops : LoopAlive(k) /\ LoopAlive(l) => k = l
      /\ \A p \in Pids : Alive(p) => p = m_pid
      /\ \A l \in Loops : loopPc[l] = "fork" => \A p \in Pids : ~Alive(p)
  BY IncidentsGrow DEF OneInv
<1>2. CASE ServerDies
  BY <1>2, OneDies
<1>3. ASSUME NEW c \in Clients, CallAny(c) PROVE OneInv'
  <2>1. UNCHANGED <<loopPc, proc, m_pid, incidents>>
    BY <1>3 DEF CallAny, Call, process, loops
  <2> QED  BY <1>1, <2>1 DEF OneInv, LoopAlive, Alive
<1>4. ASSUME NEW c \in Clients, ClientStep(c), ~ServerDies PROVE OneInv'
  <2>1. \A p \in Pids : Alive(p)' => Alive(p) /\ p = m_pid'
    BY <1>1, <1>4, ClientTouches, KilledLive
  <2>2. CASE UNCHANGED loopPc
    BY <1>1, <2>1, <2>2 DEF OneInv, LoopAlive
  <2>3. CASE StartThread(c)
    <3>1. loopPc' = [loopPc EXCEPT ![arg[c]] = "check"] /\ \A l \in Loops : ~LoopAlive(l)
      BY <2>3 DEF StartThread
    <3>2. \A l \in Loops : LoopAlive(l)' => l = arg[c]
      BY <3>1 DEF LoopType, LoopAlive
    <3>3. \A l \in Loops : loopPc'[l] # "fork"
      BY <3>1 DEF LoopType, LoopAlive
    <3> QED  BY <2>1, <3>2, <3>3 DEF OneInv
  <2> QED  BY <1>4, <2>2, <2>3, ClientTouches
<1>5. ASSUME NEW l \in Loops, LoopStep(l) PROVE OneInv'
  <2>1. LoopAlive(l) /\ loopPc' = [loopPc EXCEPT ![l] = loopPc'[l]]
    <3>1. LoopAlive(l)
      BY <1>5 DEF LoopStep, LoopCheck, LoopHalt, LoopSelect, LoopSelectFails, LoopPick,
         LoopIdle, LoopStart, LoopFork, LoopSetup, LoopUnstuck, LoopPoll, LoopFinLock,
         LoopFinDelete, LoopFinDeleteFails, LoopFinInsert, LoopFailed, LoopAlive
    <3> QED  BY <1>5, <3>1, LoopMoves
  <2>2. \A k \in Loops : /\ k # l => loopPc'[k] = loopPc[k] /\ ~LoopAlive(k)
                         /\ LoopAlive(k)' => k = l
                         /\ loopPc'[k] = "fork" => k = l
    BY <1>1, <2>1 DEF LoopType, LoopAlive
  <2>3. CASE LoopFork(l)
    <3>1. loopPc[l] = "fork" /\ loopPc'[l] # "fork"
          /\ \/ \E p \in Pids : proc' = [proc EXCEPT ![p] = "running"] /\ m_pid' = p
             \/ proc' = proc
      BY <2>3 DEF LoopFork, LoopGoto, LoopType
    <3>2. \A p \in Pids : Alive(p)' => p = m_pid'
      BY <1>1, <3>1 DEF Alive, ProcessType
    <3> QED  BY <2>2, <3>1, <3>2 DEF OneInv
  <2>4. CASE ~LoopFork(l)
    <3>1. m_pid' = m_pid /\ (Reap \/ proc' \in {proc, Killed})
      BY <1>5, <2>4 DEF LoopStep, LoopCheck, LoopHalt, LoopSelect, LoopSelectFails, LoopPick,
         LoopIdle, LoopStart, LoopSetup, LoopUnstuck, LoopPoll, LoopFinLock,
         LoopFinDelete, LoopFinDeleteFails, LoopFinInsert, LoopFailed, process
    <3>2. \A p \in Pids : Alive(p)' => Alive(p) /\ p = m_pid'
      BY <1>1, <3>1, KilledLive, Reaping
    <3>3. ASSUME loopPc'[l] = "fork", NEW p \in Pids PROVE ~Alive(p)'
      <4>1. LoopStart(l) /\ ~ChildRuns
        BY <1>5, <2>4, <3>3 DEF LoopStep, LoopCheck, LoopHalt, LoopSelect, LoopSelectFails,
           LoopPick, LoopIdle, LoopStart, LoopSetup, LoopUnstuck, LoopPoll, LoopFinLock,
           LoopFinDelete, LoopFinDeleteFails, LoopFinInsert, LoopFailed, LoopGoto, FinReturns,
           LoopType, StartRefused
      <4>2. Alive(p) => m_pid \in Pids /\ Alive(m_pid)
        BY <1>1
      <4> QED  BY <3>2, <4>1, <4>2, ChildSeen
    <3> QED  BY <2>2, <3>2, <3>3 DEF OneInv
  <2> QED  BY <2>3, <2>4
<1>6. ASSUME NEW p \in Pids, ChildExit(p) PROVE OneInv'
  <2>1. UNCHANGED <<loopPc, m_pid>> /\ \A q \in Pids : Alive(q)' => Alive(q)
    BY <1>6 DEF ChildExit, loops, Alive, ProcessType, Statuses
  <2> QED  BY <1>1, <2>1 DEF OneInv, LoopAlive
<1> QED  BY <1>2, <1>3, <1>4, <1>5, <1>6 DEF Next, Crash

\* Unless two main loops overlapped, the queue never runs two children at once,
\* whatever fails and however often it is stopped, started or killed.
\* (LinuxProc::start)
THEOREM OneChildOnly == Spec => []OneChild
<1>1. Inv /\ OneInv => OneChild
  <2> SUFFICES ASSUME OneInv, "overlap" \notin incidents
               PROVE  Cardinality({p \in Pids : Alive(p)}) <= 1
    BY DEF OneChild
  <2>1. {p \in Pids : Alive(p)} \subseteq {m_pid}
    BY DEF OneInv
  <2>2. {p \in Pids : Alive(p)} = {} \/ {p \in Pids : Alive(p)} = {m_pid}
    BY <2>1
  <2>3. Cardinality({}) = 0 /\ Cardinality({m_pid}) = 1
    BY FS_EmptySet, FS_Singleton
  <2> QED  BY <2>2, <2>3
<1>2. OneInv /\ UNCHANGED vars => OneInv'
  BY DEF OneInv, vars, loops, process, history, LoopAlive, Alive
<1>3. Inv /\ OneInv /\ [Next]_vars => OneInv'
  BY <1>2, OneNext DEF Inv
<1> QED  BY <1>1, <1>3, OneInit, Invariance, PTL DEF Spec

-----------------------------------------------------------------------------
(* What done says.                                                         *)

\* Calls that have yet to take an ID keep one free.
Coming == {d \in Clients : pc[d] \in {"add.select", "add.update"}}
BoundInv == lastID + Cardinality(Coming) <= MaxID

LEMMA ComingIsFinite == IsFiniteSet(Coming) /\ Cardinality(Coming) \in Nat
<1>1. Coming \subseteq Clients
  BY DEF Coming
<1> QED  BY <1>1, FiniteClients, FS_Subset, FS_CardinalityType

LEMMA ComingWillBeFinite == IsFiniteSet(Coming') /\ Cardinality(Coming') \in Nat
<1>1. Coming' \subseteq Clients
  BY DEF Coming
<1> QED  BY <1>1, FiniteClients, FS_Subset, FS_CardinalityType

LEMMA BoundInit == Init => BoundInv
<1> SUFFICES ASSUME Init PROVE BoundInv
  OBVIOUS
<1>1. Coming = {} /\ lastID = 0
  BY DEF Init, Coming
<1> QED  BY <1>1, FS_EmptySet, BoundsAreNat DEF BoundInv

\* Where none comes and none is taken.
LEMMA BoundStays ==
    ASSUME TypeOK, BoundInv, lastID' = lastID,
           \A c \in Clients : pc'[c] \in {"add.select", "add.update"} =>
                              pc[c] \in {"add.select", "add.update"}
    PROVE  BoundInv'
<1>1. Coming' \subseteq Coming
  BY DEF Coming
<1>2. Cardinality(Coming') <= Cardinality(Coming)
  BY <1>1, ComingIsFinite, FS_Subset
<1> QED  BY <1>2, ComingIsFinite, ComingWillBeFinite, BoundsAreNat DEF BoundInv, TypeOK, FileType

LEMMA BoundNext == ASSUME TypeOK, LockInv, IDInv, BoundInv, Next PROVE BoundInv'
<1> USE DEF TypeOK, ClientType
<1>1. CASE ServerDies
  BY <1>1, BoundStays DEF ServerDies, file
<1>2. ASSUME NEW c \in Clients, CallAny(c) PROVE BoundInv'
  <2>1. CASE IDsLeft /\ Call(c, "addTask", "add.select", 0)
    <3>1. lastID' = lastID /\ Coming' = Coming \cup {c} /\ c \notin Coming
      BY <2>1 DEF Call, Coming, file
    <3>2. Cardinality(Coming') = Cardinality(Coming) + 1
      BY <3>1, ComingIsFinite, FS_AddElement
    <3>3. lastID + Cardinality(Coming) < MaxID
      BY <2>1 DEF IDsLeft, Coming
    <3> QED  BY <3>1, <3>2, <3>3, ComingIsFinite, BoundsAreNat DEF BoundInv, FileType
  <2>2. ASSUME NEW op, NEW a, NEW label, Call(c, op, label, a),
               label \notin {"add.select", "add.update"}
        PROVE  BoundInv'
    <3>1. lastID' = lastID /\ pc' = [pc EXCEPT ![c] = label]
      BY <2>2 DEF Call, file
    <3> QED  BY <2>2, <3>1, BoundStays
  <2> QED  BY <1>2, <2>1, <2>2 DEF CallAny
<1>3. ASSUME NEW c \in Clients, ClientStep(c), ~ServerDies PROVE BoundInv'
  <2>1. CASE AddUpdate(c)
    <3>1. /\ Coming' = Coming \ {c} /\ c \in Coming /\ lastID' = lastID + 1
      BY <2>1 DEF AddUpdate, Goto, NextID, Coming, IDInv
    <3>2. Cardinality(Coming') = Cardinality(Coming) - 1
      BY <3>1, ComingIsFinite, FS_RemoveElement
    <3> QED  BY <3>1, <3>2, ComingIsFinite, BoundsAreNat DEF BoundInv, FileType
  <2>2. CASE ~AddUpdate(c)
    <3>1. /\ lastID' = lastID /\ pc' = [pc EXCEPT ![c] = pc'[c]]
          /\ pc'[c] \in {"add.select", "add.update"} => pc[c] \in {"add.select", "add.update"}
      BY <1>3, <2>2 DEF ClientStep, AddSelect, AddInsert, StatementFails, RemoveLock,
         RemoveCheck, RemoveDelete, ClearLock, ClearDelete, ClearFinished, Query,
         CurrentCheck, CurrentRead, StartCheck, StartRunning, StartStart, StartThread,
         StartSwap, StartJoin, StopCheck, StopStart, StopKill, StopRunning, Goto, Return, file
    <3> QED  BY <3>1, BoundStays
  <2> QED  BY <2>1, <2>2
<1>4. ASSUME NEW l \in Loops, LoopStep(l) PROVE BoundInv'
  <2>1. lastID' = lastID /\ pc' = pc
    BY <1>4 DEF LoopStep, LoopCheck, LoopHalt, LoopSelect, LoopSelectFails, LoopPick,
       LoopIdle, LoopStart, LoopFork, LoopSetup, LoopUnstuck, LoopPoll, LoopFinLock,
       LoopFinDelete, LoopFinDeleteFails, LoopFinInsert, LoopFailed, clients, file
  <2> QED  BY <2>1, BoundStays
<1>5. ASSUME NEW p \in Pids, ChildExit(p) PROVE BoundInv'
  BY <1>5, BoundStays DEF ChildExit, clients, file
<1> QED  BY <1>1, <1>2, <1>3, <1>4, <1>5 DEF Next, Crash

\* Nothing has happened that DoneIsTrue excepts, and the server is no super user's.
Blameless ==
    "admin" \notin Faults /\ incidents \cap {"overlap", "fork", "setup", "undeleted"} = {}

\* While a main loop waits for a child it is the current task's and the only one, and
\* how it ended is what ran says; otherwise there is none, not even a zombie.
Holding == {"setup", "stuck", "poll"}
HasChild ==
    /\ m_pid \in Pids /\ taskOf[m_pid] = m_currentTask.ID
    /\ proc[m_pid] # "none"
    /\ proc[m_pid] \in Statuses => ran[m_currentTask.ID] = proc[m_pid]
    /\ \A p \in Pids : p # m_pid => proc[p] = "none"
NoChild == \A p \in Pids : proc[p] = "none"

\* A task in hand is not done; on its way there it has its child's code.
InHand == {"start", "fork", "fin.lock", "fin.delete", "fin.insert"} \cup Holding
HandPart(l) ==
    /\ loopPc[l] \in Holding => HasChild
    /\ loopPc[l] \in InHand => m_currentTask.ID \in IDs \ DoneIDs(done)
    /\ loopPc[l] = "fin.lock" => m_exitCode = ran[m_currentTask.ID]
    /\ loopPc[l] \in {"fin.delete", "fin.insert"} =>
          m_currentTask.exitCode = ran[m_currentTask.ID]

CodesAreTrue == \A r \in done : ran[r.ID] = r.exitCode

DoneInv ==
    \/ ~Blameless
    \/ /\ \A l \in Loops : HandPart(l)
       /\ (\A l \in Loops : loopPc[l] \notin Holding) => NoChild
       /\ CodesAreTrue

LEMMA DoneInit == Init => DoneInv
  BY DEF Init, DoneInv, HandPart, Holding, InHand, NoChild, CodesAreTrue

LEMMA DoneDies == ASSUME DoneInv, ServerDies PROVE DoneInv'
<1> SUFFICES ASSUME Blameless' PROVE DoneInv'
  BY DEF DoneInv
<1>1. Blameless /\ UNCHANGED <<done, ran>>
  BY DEF ServerDies, Blameless, file
<1>2. NoChild' /\ \A l \in Loops : loopPc'[l] \in {"none", "ended"}
  BY DEF ServerDies, NoChild
<1>3. CodesAreTrue'
  BY <1>1 DEF DoneInv, CodesAreTrue
<1>4. \A l \in Loops : HandPart(l)'
  BY <1>2 DEF HandPart, InHand, Holding
<1> QED  BY <1>2, <1>3, <1>4 DEF DoneInv

\* Nothing happens to a main loop.
LEMMA DoneStays ==
    ASSUME TypeOK, DoneInv, Blameless, proc' \in {proc, Killed}, done' \subseteq done,
           UNCHANGED <<m_pid, m_exitCode, taskOf, ran, loopPc, m_currentTask>>
    PROVE  DoneInv'
<1>1. \A p \in Pids : /\ proc'[p] = "none" <=> proc[p] = "none"
                      /\ proc'[p] \in Statuses => proc'[p] = proc[p]
  BY KilledLive DEF TypeOK
<1>2. DoneIDs(done') \subseteq DoneIDs(done)
  BY DEF DoneIDs
<1>3. HasChild => HasChild'
  BY <1>1 DEF HasChild
<1>4. NoChild => NoChild'
  BY <1>1 DEF NoChild
<1>5. CodesAreTrue'
  BY DEF DoneInv, CodesAreTrue
<1>6. ASSUME NEW l \in Loops PROVE HandPart(l)'
  <2>1. HandPart(l)
    BY DEF DoneInv
  <2> QED  BY <1>2, <1>3, <2>1 DEF HandPart
<1> QED  BY <1>4, <1>5, <1>6 DEF DoneInv

LEMMA DoneClient ==
    ASSUME TypeOK, DoneInv, Blameless', Blameless, NEW c \in Clients, ClientStep(c), ~ServerDies
    PROVE  DoneInv'
<1> USE DEF TypeOK
<1>1. /\ UNCHANGED <<m_pid, m_exitCode, m_currentTask, taskOf, ran>>
      /\ proc' \in {proc, Killed}
      /\ StartThread(c) \/ UNCHANGED loopPc
  BY ClientTouches
<1>2. done' \subseteq done
  BY DEF ClientStep, AddSelect, AddUpdate, AddInsert, StatementFails, RemoveLock,
     RemoveCheck, RemoveDelete, ClearLock, ClearDelete, ClearFinished, Query,
     CurrentCheck, CurrentRead, StartCheck, StartRunning, StartStart, StartThread,
     StartSwap, StartJoin, StopCheck, StopStart, StopKill, StopRunning, file
<1>3. CASE StartThread(c)
  <2>1. /\ loopPc' = [loopPc EXCEPT ![arg[c]] = "check"] /\ proc' = proc /\ done' = done
        /\ \A l \in Loops : ~LoopAlive(l)
    BY <1>3 DEF StartThread, Blameless, process, file
  <2>2. \A l \in Loops : /\ loopPc[l] \notin Holding
                         /\ loopPc'[l] \notin InHand \cup Holding
    BY <2>1 DEF LoopType, LoopAlive, Holding, InHand
  <2>3. NoChild'
    BY <2>1, <2>2 DEF DoneInv, NoChild
  <2>4. CodesAreTrue'
    BY <1>1, <2>1 DEF DoneInv, CodesAreTrue
  <2>5. \A l \in Loops : HandPart(l)'
    BY <2>2 DEF HandPart, InHand
  <2> QED  BY <2>3, <2>4, <2>5 DEF DoneInv
<1>4. CASE UNCHANGED loopPc
  BY <1>1, <1>2, <1>4, DoneStays
<1> QED  BY <1>1, <1>3, <1>4

LEMMA DoneChild ==
    ASSUME TypeOK, OneInv, DoneInv, Blameless, NEW p \in Pids, ChildExit(p)
    PROVE  DoneInv'
<1> USE DEF TypeOK, ProcessType, HistoryType
<1>1. PICK s \in Statuses : /\ proc' = [proc EXCEPT ![p] = s]
                            /\ ran' = [ran EXCEPT ![taskOf[p]] = s]
  BY DEF ChildExit
<1>2. /\ Alive(p) /\ UNCHANGED <<done, m_pid, m_exitCode, taskOf, loopPc, m_currentTask>>
  BY DEF ChildExit, file, loops
<1>3. PICK l \in Loops : loopPc[l] \in Holding
  BY <1>2 DEF DoneInv, NoChild, Alive
<1>4. HandPart(l) /\ HasChild /\ m_currentTask.ID \in IDs \ DoneIDs(done)
  BY <1>3 DEF DoneInv, HandPart, InHand
<1>5. p = m_pid /\ taskOf[p] = m_currentTask.ID
  BY <1>2, <1>4 DEF HasChild, Alive
<1>6. /\ ran'[m_currentTask.ID] = s /\ proc'[m_pid] = s
      /\ \A id \in IDs : id # m_currentTask.ID => ran'[id] = ran[id]
      /\ \A q \in Pids : q # m_pid => proc'[q] = proc[q]
  BY <1>1, <1>4, <1>5
<1>7. HasChild'
  BY <1>2, <1>4, <1>5, <1>6 DEF HasChild, Statuses
<1>8. CodesAreTrue'
  <2>1. \A r \in done : r.ID \in DoneIDs(done) /\ r.ID # m_currentTask.ID
    BY <1>4 DEF DoneIDs
  <2>2. \A r \in done : ran'[r.ID] = ran[r.ID]
    BY <1>1, <1>4, <1>5, <2>1
  <2> QED  BY <1>2, <2>2 DEF DoneInv, CodesAreTrue
<1>9. ASSUME NEW k \in Loops PROVE HandPart(k)'
  <2>1. CASE k = l
    BY <1>2, <1>3, <1>4, <1>7, <2>1 DEF HandPart, Holding
  <2>2. CASE k # l
    <3>1. ~LoopAlive(k)
      BY <1>3, <2>2 DEF OneInv, Blameless, LoopAlive, Holding
    <3> QED  BY <1>2, <3>1 DEF HandPart, LoopAlive, Holding, InHand
  <2> QED  BY <2>1, <2>2
<1> QED  BY <1>2, <1>3, <1>8, <1>9 DEF DoneInv

LEMMA DoneLoop ==
    ASSUME TypeOK, LockInv, IDInv, MoveInv, BoundInv, OneInv, DoneInv, Blameless, Blameless',
           NEW l \in Loops, LoopStep(l)
    PROVE  DoneInv'
<1> USE DEF TypeOK
<1>1. LoopAlive(l) /\ loopPc' = [loopPc EXCEPT ![l] = loopPc'[l]]
  <2>1. LoopAlive(l)
    BY DEF LoopStep, LoopCheck, LoopHalt, LoopSelect, LoopSelectFails, LoopPick,
       LoopIdle, LoopStart, LoopFork, LoopSetup, LoopUnstuck, LoopPoll, LoopFinLock,
       LoopFinDelete, LoopFinDeleteFails, LoopFinInsert, LoopFailed, LoopAlive
  <2> QED  BY <2>1, LoopMoves
<1>2. \A k \in Loops \ {l} : ~LoopAlive(k) /\ loopPc'[k] = loopPc[k]
  BY <1>1 DEF OneInv, Blameless, LoopType
<1>3. \A k \in Loops \ {l} : loopPc[k] \notin InHand /\ HandPart(k)'
  BY <1>2 DEF LoopAlive, HandPart, InHand, Holding
<1>4. HandPart(l) /\ CodesAreTrue /\ (loopPc[l] \notin Holding => NoChild)
  BY <1>3 DEF DoneInv, InHand
<1>5. SUFFICES /\ HandPart(l)' /\ CodesAreTrue'
               /\ loopPc'[l] \notin Holding => NoChild'
  BY <1>3 DEF DoneInv
\* Without a child there is nothing to wait for, nor to be refused for.
<1>6. NoChild => Zombies = {} /\ ~ChildRuns /\ ~StartRefused
  <2>1. Awaited \subseteq Pids
    BY BoundsAreNat DEF Awaited, ProcessType, Pids
  <2>2. NoChild => Zombies = {} /\ ~ChildRuns
    BY <2>1 DEF NoChild, Zombies, ChildRuns, Alive, Statuses
  <2> QED  BY <2>2 DEF StartRefused, Blameless
<1>7. ASSUME loopPc[l] \notin InHand, loopPc'[l] \notin InHand, UNCHANGED <<proc, done, ran>>
      PROVE  HandPart(l)' /\ CodesAreTrue' /\ NoChild'
  BY <1>4, <1>7 DEF HandPart, CodesAreTrue, NoChild, InHand
<1>8. CASE LoopCheck(l) \/ LoopHalt(l) \/ LoopSelect(l) \/ LoopSelectFails(l) \/ LoopIdle(l)
           \/ LoopFailed(l)
  BY <1>7, <1>8 DEF LoopCheck, LoopHalt, LoopSelect, LoopSelectFails, LoopIdle, LoopFailed,
     LoopGoto, LoopType, InHand, Holding, process, file, history
<1>9. CASE LoopPick(l)
  <2>1. /\ loopPc[l] = "pick" /\ loopPc'[l] = "start" /\ m_currentTask'.ID = FirstRow(pending)
        /\ UNCHANGED <<proc, done, ran>>
    BY <1>1, <1>9 DEF LoopPick, LoopGoto, LoopType, process, file, history
  <2>2. FirstRow(pending) \in RowIDs(pending)
    BY <2>1, FirstIsOldest DEF LockInv, IDInv, FileType
  <2>3. FirstRow(pending) \notin DoneIDs(done)
    BY <2>2 DEF MoveInv, Blameless
  <2>4. FirstRow(pending) \in Nat /\ FirstRow(pending) < lastID /\ lastID <= MaxID
    <3>1. FirstRow(pending) \in Nat
      BY <2>2, KnownAreNat
    <3>2. lastID <= MaxID
      BY ComingIsFinite, BoundsAreNat DEF BoundInv, FileType
    <3> QED  BY <2>2, <3>1, <3>2 DEF IDInv, Known
  <2>5. FirstRow(pending) \in IDs
    BY <2>4, BoundsAreNat DEF IDs, FileType
  <2>6. HandPart(l)'
    BY <2>1, <2>3, <2>5 DEF HandPart, Holding
  <2> QED  BY <1>4, <2>1, <2>6 DEF CodesAreTrue, NoChild, Holding
<1>10. CASE LoopStart(l)
  <2>1. loopPc[l] = "start" /\ NoChild
    BY <1>4, <1>10 DEF LoopStart, Holding
  <2>2. /\ loopPc'[l] = "fork"
        /\ UNCHANGED <<proc, done, ran, m_currentTask>>
    BY <1>6, <1>10, <2>1 DEF LoopStart, Reap, LoopGoto, LoopType, file, history
  <2>3. HandPart(l)'
    BY <1>4, <2>1, <2>2 DEF HandPart, Holding, InHand
  <2> QED  BY <1>4, <2>1, <2>2, <2>3 DEF CodesAreTrue, NoChild
<1>11. CASE LoopFork(l)
  <2>1. loopPc[l] = "fork" /\ NoChild /\ UNCHANGED <<done, ran, m_currentTask>>
    BY <1>4, <1>11 DEF LoopFork, Holding, file
  <2>2. PICK p \in Pids : /\ proc' = [proc EXCEPT ![p] = "running"] /\ m_pid' = p
                          /\ taskOf' = [taskOf EXCEPT ![p] = m_currentTask.ID]
                          /\ LoopGoto(l, "setup")
    BY <1>11 DEF LoopFork, Blameless
  <2>3. loopPc'[l] = "setup"
    BY <2>2 DEF LoopGoto, LoopType
  <2>4. HasChild'
    BY <2>1, <2>2 DEF HasChild, NoChild, ProcessType, HistoryType, Statuses
  <2>5. HandPart(l)'
    BY <1>4, <2>1, <2>3, <2>4 DEF HandPart, InHand, Holding
  <2> QED  BY <1>4, <2>1, <2>3, <2>5 DEF CodesAreTrue, Holding
<1>12. CASE LoopSetup(l) \/ LoopUnstuck(l)
  <2>1. /\ loopPc[l] \in {"setup", "stuck"} /\ loopPc'[l] \in {"poll", "stuck"}
        /\ UNCHANGED <<proc, done, ran, m_pid, taskOf, m_currentTask>>
    BY <1>12 DEF LoopSetup, LoopUnstuck, LoopGoto, LoopType, Blameless, process, file, history
  <2>2. HasChild'
    BY <1>4, <2>1 DEF HandPart, HasChild, Holding
  <2>3. HandPart(l)'
    BY <1>4, <2>1, <2>2 DEF HandPart, InHand, Holding
  <2> QED  BY <1>4, <2>1, <2>3 DEF CodesAreTrue, Holding
<1>13. CASE LoopPoll(l)
  <2>1. /\ loopPc[l] = "poll" /\ loopPc'[l] = "fin.lock" /\ ~ChildRuns /\ Reap
        /\ UNCHANGED <<done, ran, m_currentTask>>
    BY <1>13 DEF LoopPoll, LoopGoto, LoopType, file, history
  <2>2. HasChild
    BY <1>4, <2>1 DEF HandPart, Holding
  <2>3. Zombies = {m_pid}
    <3>1. Awaited = {m_pid} /\ ~Alive(m_pid)
      BY <2>1, <2>2, ChildSeen DEF HasChild, Awaited, Pids
    <3>2. proc[m_pid] \in Statuses
      BY <2>2, <3>1 DEF HasChild, Alive, ProcessType, Statuses
    <3> QED  BY <3>1, <3>2 DEF Zombies
  <2>4. m_exitCode' = ran[m_currentTask.ID] /\ proc' = [proc EXCEPT ![m_pid] = "none"]
    BY <2>1, <2>2, <2>3 DEF Reap, HasChild, Zombies
  <2>5. NoChild'
    BY <2>2, <2>4 DEF NoChild, HasChild, ProcessType
  <2>6. HandPart(l)'
    BY <1>4, <2>1, <2>4 DEF HandPart, InHand, Holding
  <2> QED  BY <1>4, <2>1, <2>5, <2>6 DEF CodesAreTrue
<1>14. CASE LoopFinLock(l)
  <2>1. loopPc[l] = "fin.lock" /\ NoChild
    BY <1>4, <1>14 DEF LoopFinLock, Holding
  <2>2. /\ loopPc'[l] = "fin.delete"
        /\ UNCHANGED <<proc, m_exitCode, done, ran>>
        /\ m_currentTask' = [m_currentTask EXCEPT !.exitCode = m_exitCode]
    BY <1>6, <1>14, <2>1 DEF LoopFinLock, Reap, LoopGoto, LoopType, file, history
  <2>3. m_currentTask'.ID = m_currentTask.ID /\ m_currentTask'.exitCode = m_exitCode
    BY <2>2 DEF TaskType
  <2>4. HandPart(l)'
    BY <1>4, <2>1, <2>2, <2>3 DEF HandPart, InHand, Holding
  <2> QED  BY <1>4, <2>1, <2>2, <2>4 DEF CodesAreTrue, NoChild
<1>15. CASE LoopFinDelete(l)
  <2>1. /\ loopPc[l] = "fin.delete" /\ loopPc'[l] = "fin.insert"
        /\ UNCHANGED <<proc, done, ran, m_currentTask>>
    BY <1>15 DEF LoopFinDelete, LoopGoto, LoopType, process
  <2>2. HandPart(l)'
    BY <1>4, <2>1 DEF HandPart, InHand, Holding
  <2> QED  BY <1>4, <2>1, <2>2 DEF CodesAreTrue, NoChild, Holding
<1>16. CASE LoopFinDeleteFails(l) \/ LoopFinInsert(l)
  <2>1. /\ loopPc[l] \in {"fin.delete", "fin.insert"} /\ loopPc'[l] \in {"failed", "check"}
        /\ UNCHANGED <<proc, ran>> /\ done' \in {done, done \cup {m_currentTask}}
    BY <1>16 DEF LoopFinDeleteFails, LoopFinInsert, FinReturns, LoopGoto, LoopType, InsertDone,
       process, file, history
  <2>2. m_currentTask.exitCode = ran[m_currentTask.ID]
    BY <1>4, <2>1 DEF HandPart
  <2>3. CodesAreTrue'
    BY <1>4, <2>1, <2>2 DEF CodesAreTrue
  <2>4. HandPart(l)' /\ NoChild'
    BY <1>4, <2>1 DEF HandPart, NoChild, InHand, Holding
  <2> QED  BY <2>3, <2>4
<1> QED  BY <1>8, <1>9, <1>10, <1>11, <1>12, <1>13, <1>14, <1>15, <1>16 DEF LoopStep

LEMMA DoneNext ==
    ASSUME TypeOK, LockInv, IDInv, MoveInv, BoundInv, OneInv, DoneInv, Next
    PROVE  DoneInv'
<1> SUFFICES ASSUME Blameless' PROVE DoneInv'
  BY DEF DoneInv
<1>1. Blameless
  BY IncidentsGrow DEF Blameless
<1>2. CASE ServerDies
  BY <1>2, DoneDies
<1>3. ASSUME NEW c \in Clients, CallAny(c) PROVE DoneInv'
  <2>1. UNCHANGED <<proc, done, m_pid, m_exitCode, taskOf, ran, loopPc, m_currentTask>>
    BY <1>3 DEF CallAny, Call, process, loops, file
  <2> QED  BY <1>1, <2>1, DoneStays
<1>4. ASSUME NEW c \in Clients, ClientStep(c), ~ServerDies PROVE DoneInv'
  BY <1>1, <1>4, DoneClient
<1>5. ASSUME NEW l \in Loops, LoopStep(l) PROVE DoneInv'
  BY <1>1, <1>5, DoneLoop
<1>6. ASSUME NEW p \in Pids, ChildExit(p) PROVE DoneInv'
  BY <1>1, <1>6, DoneChild
<1> QED  BY <1>2, <1>3, <1>4, <1>5, <1>6 DEF Next, Crash

\* The exit code of a finished task is how its last child ended, unless something
\* went wrong that DoneIsTrue excepts or the server runs as super user, whom start()
\* turns away.  (LinuxProc::isRunning, exitCode, mainLoopFin)
THEOREM DoneTrue == ASSUME "admin" \notin Faults PROVE Spec => []DoneIsTrue
<1> DEFINE LedgerInv == BoundInv /\ OneInv /\ DoneInv
<1>1. Init => LedgerInv
  BY OneInit, BoundInit, DoneInit
<1>2. Inv /\ LedgerInv /\ [Next]_vars => LedgerInv'
  <2>1. CASE Next
    BY <2>1, OneNext, BoundNext, DoneNext DEF Inv
  <2>2. CASE UNCHANGED vars
    <3>1. Inv /\ LedgerInv => OneInv'
      BY <2>2 DEF OneInv, vars, loops, process, history, LoopAlive, Alive
    <3>2. Inv /\ LedgerInv => BoundInv'
      BY <2>2, BoundStays DEF Inv, vars, file, clients
    <3>3. Inv /\ LedgerInv => DoneInv'
      <4>1. Blameless' => Blameless
        BY <2>2 DEF Blameless, vars, history
      <4> QED  BY <2>2, <4>1, DoneStays DEF Inv, DoneInv, vars, loops, process, history, file
    <3> QED  BY <3>1, <3>2, <3>3
  <2> QED  BY <2>1, <2>2
<1>3. LedgerInv => DoneIsTrue
  BY DEF DoneInv, Blameless, CodesAreTrue, DoneIsTrue
<1> HIDE DEF LedgerInv
<1> QED  BY <1>1, <1>2, <1>3, Invariance, PTL DEF Spec

-----------------------------------------------------------------------------
(* The ledger.                                                             *)

\* What the main loop has in hand is a task that was accepted and is not done; its
\* row is there until mainLoopFin deletes it, unless somebody clears the queue.  A
\* task that was cleared is not pending again.
LedgerInv ==
    /\ incidents \cap {"overlap", "undeleted"} = {}
    /\ DoneIDs(done) \subseteq accepted
    /\ cleared \subseteq accepted /\ cleared \cap RowIDs(pending) = {}
    /\ \A l \in Loops : loopPc[l] \in InHand =>
          /\ m_currentTask.ID \in accepted \ DoneIDs(done)
          /\ loopPc[l] # "fin.insert" => m_currentTask.ID \in RowIDs(pending) \cup cleared
KeptInv == Inv /\ BoundInv /\ OneInv /\ LedgerInv

\* The row of a finished task is deleted.
RowsDeleted == "undeleted" \notin incidents'

\* A step of a client that does not commit, of a child, or an arriving call.
LEMMA LedgerIdle ==
    ASSUME KeptInv,
           \/ \E c \in Clients : CallAny(c) \/ (ClientStep(c) /\ ~ServerDies /\ ~Commits(c))
           \/ \E p \in Pids : ChildExit(p)
    PROVE  /\ UNCHANGED <<pending, done, accepted, removed, cleared, m_currentTask>>
           /\ incidents' \subseteq incidents \cup {"overlap"}
           /\ \A l \in Loops : loopPc'[l] = loopPc[l] \/ (loopPc'[l] = "check" /\ ~LoopAlive(l))
<1>1. ASSUME NEW c \in Clients, CallAny(c)
      PROVE  UNCHANGED <<file, accepted, removed, cleared, m_currentTask, loopPc, incidents>>
  BY <1>1 DEF CallAny, Call, loops
<1>2. ASSUME NEW p \in Pids, ChildExit(p)
      PROVE  UNCHANGED <<file, accepted, removed, cleared, m_currentTask, loopPc, incidents>>
  BY <1>2 DEF ChildExit, loops
<1>3. ASSUME NEW c \in Clients, ClientStep(c), ~ServerDies, ~Commits(c), ~StartThread(c)
      PROVE  UNCHANGED <<file, accepted, removed, cleared, m_currentTask, loopPc, incidents>>
  BY <1>3 DEF ClientStep, Commits, StatementFails, RemoveLock, ClearLock, Query, CurrentCheck,
     CurrentRead, StartCheck, StartRunning, StartStart, StartSwap, StartJoin, StopCheck,
     StopStart, StopKill, StopRunning, loops, history
<1>4. ASSUME NEW c \in Clients, StartThread(c)
      PROVE  /\ UNCHANGED <<file, accepted, removed, cleared, m_currentTask>>
             /\ incidents' \subseteq incidents \cup {"overlap"}
             /\ \A l \in Loops : loopPc'[l] = loopPc[l] \/ (loopPc'[l] = "check" /\ ~LoopAlive(l))
  <2>1. loopPc[arg[c]] = "none" /\ arg[c] \in Loops
    BY <1>4 DEF StartThread, KeptInv, Inv, TypeOK, ClientType, StartLabels, SlotInv, Spawning
  <2>2. \A l \in Loops \ {arg[c]} : loopPc'[l] = loopPc[l]
    BY <1>4 DEF StartThread, KeptInv, Inv, TypeOK, LoopType
  <2>3. loopPc'[arg[c]] = "check" /\ ~LoopAlive(arg[c])
    BY <1>4, <2>1 DEF StartThread, LoopAlive, KeptInv, Inv, TypeOK, LoopType
  <2>4. \A l \in Loops : loopPc'[l] = loopPc[l] \/ (loopPc'[l] = "check" /\ ~LoopAlive(l))
    <3> TAKE l \in Loops
    <3>1. CASE l = arg[c]
      BY <2>3, <3>1
    <3>2. CASE l # arg[c]
      BY <2>2, <3>2
    <3> QED  BY <3>1, <3>2
  <2>5. incidents' \subseteq incidents \cup {"overlap"}
    BY <1>4 DEF StartThread
  <2> QED  BY <1>4, <2>4, <2>5 DEF StartThread
<1>5. ASSUME UNCHANGED <<file, accepted, removed, cleared, m_currentTask, loopPc, incidents>>
      PROVE  /\ UNCHANGED <<pending, done, accepted, removed, cleared, m_currentTask>>
             /\ incidents' \subseteq incidents \cup {"overlap"}
             /\ \A l \in Loops : loopPc'[l] = loopPc[l] \/ (loopPc'[l] = "check" /\ ~LoopAlive(l))
  <2>1. UNCHANGED <<pending, done, accepted, removed, cleared, m_currentTask>>
    BY <1>5 DEF file
  <2>2. loopPc' = loopPc /\ incidents' = incidents
    BY <1>5
  <2> QED  BY <2>1, <2>2
<1>6. CASE \E p \in Pids : ChildExit(p)
  BY <1>2, <1>5, <1>6
<1>7. ASSUME NEW c \in Clients, CallAny(c) \/ (ClientStep(c) /\ ~ServerDies /\ ~Commits(c))
      PROVE  /\ UNCHANGED <<pending, done, accepted, removed, cleared, m_currentTask>>
             /\ incidents' \subseteq incidents \cup {"overlap"}
             /\ \A l \in Loops : loopPc'[l] = loopPc[l] \/ (loopPc'[l] = "check" /\ ~LoopAlive(l))
  <2>1. CASE UNCHANGED <<file, accepted, removed, cleared, m_currentTask, loopPc, incidents>>
    BY <1>5, <2>1
  <2>2. CASE StartThread(c)
    <3>1. UNCHANGED <<pending, done>>
      BY <2>2 DEF StartThread, file
    <3> QED  BY <1>4, <2>2, <3>1
  <2> QED  BY <1>1, <1>3, <1>7, <2>1, <2>2
<1> QED  BY <1>6, <1>7

\* One main loop is at work, if any.
LEMMA OnlyLoop ==
    ASSUME KeptInv, NEW l \in Loops, LoopStep(l)
    PROVE  /\ LoopAlive(l) /\ UNCHANGED <<accepted, removed, cleared, lastID, clients>>
           /\ loopPc' = [loopPc EXCEPT ![l] = loopPc'[l]]
           /\ \A k \in Loops \ {l} : loopPc'[k] = loopPc[k] /\ ~LoopAlive(k)
<1>1. LoopAlive(l) /\ UNCHANGED <<accepted, removed, cleared, lastID>>
  BY DEF LoopStep, LoopCheck, LoopHalt, LoopSelect, LoopSelectFails, LoopPick,
     LoopIdle, LoopStart, LoopFork, LoopSetup, LoopUnstuck, LoopPoll, LoopFinLock,
     LoopFinDelete, LoopFinDeleteFails, LoopFinInsert, LoopFailed, LoopAlive, file, history
<1>2. loopPc' = [loopPc EXCEPT ![l] = loopPc'[l]] /\ UNCHANGED clients
  BY LoopMoves DEF KeptInv, Inv, TypeOK
<1>3. \A k \in Loops \ {l} : loopPc'[k] = loopPc[k] /\ ~LoopAlive(k)
  BY <1>1, <1>2 DEF KeptInv, OneInv, LedgerInv, Inv, TypeOK, LoopType
<1> QED  BY <1>1, <1>2, <1>3

LEMMA LedgerInit == Init => LedgerInv
  BY DEF Init, LedgerInv, InHand, Holding, DoneIDs

LEMMA LedgerLoop ==
    ASSUME KeptInv, NEW l \in Loops, LoopStep(l), incidents' \cap {"overlap", "undeleted"} = {}
    PROVE  LedgerInv'
<1> USE DEF KeptInv, Inv, TypeOK, LoopType
<1>1. /\ UNCHANGED <<accepted, removed, cleared>> /\ LoopAlive(l)
      /\ \A k \in Loops \ {l} : loopPc'[k] = loopPc[k] /\ ~LoopAlive(k)
  BY OnlyLoop
<1>2. \A k \in Loops \ {l} : loopPc'[k] \notin InHand
  BY <1>1 DEF LoopAlive, InHand, Holding
<1>3. "undeleted" \notin incidents'
  BY DEF LedgerInv, LoopStep, LoopCheck, LoopHalt, LoopSelect, LoopSelectFails, LoopPick,
     LoopIdle, LoopStart, LoopFork, LoopSetup, LoopUnstuck, LoopPoll, LoopFinLock,
     LoopFinDelete, LoopFinDeleteFails, LoopFinInsert, LoopFailed, history
<1>13. cleared \cap RowIDs(pending') = {}
  <2>1. RowIDs(pending') \subseteq RowIDs(pending)
    <3>1. CASE LoopFinDelete(l)
      BY <3>1, DeleteRows DEF LoopFinDelete, IDInv, FileType, TaskType
    <3> QED  BY <3>1 DEF LoopStep, LoopCheck, LoopHalt, LoopSelect, LoopSelectFails, LoopPick,
       LoopIdle, LoopStart, LoopFork, LoopSetup, LoopUnstuck, LoopPoll, LoopFinLock,
       LoopFinDeleteFails, LoopFinInsert, LoopFailed, file
  <2> QED  BY <2>1 DEF LedgerInv
<1>4. SUFFICES /\ DoneIDs(done') \subseteq accepted
               /\ loopPc'[l] \in InHand =>
                    /\ m_currentTask'.ID \in accepted \ DoneIDs(done')
                    /\ loopPc'[l] # "fin.insert" =>
                         m_currentTask'.ID \in RowIDs(pending') \cup cleared
  BY <1>1, <1>2, <1>3, <1>13 DEF LedgerInv
<1>5. /\ DoneIDs(done) \subseteq accepted
      /\ loopPc[l] \in InHand =>
            /\ m_currentTask.ID \in accepted \ DoneIDs(done)
            /\ loopPc[l] # "fin.insert" => m_currentTask.ID \in RowIDs(pending) \cup cleared
  BY DEF LedgerInv
<1>6. ASSUME UNCHANGED <<pending, done>>,
             loopPc'[l] \in InHand => /\ loopPc[l] \in InHand \ {"fin.insert"}
                                      /\ m_currentTask'.ID = m_currentTask.ID
      PROVE  /\ DoneIDs(done') \subseteq accepted
             /\ loopPc'[l] \in InHand =>
                    /\ m_currentTask'.ID \in accepted \ DoneIDs(done')
                    /\ loopPc'[l] # "fin.insert" =>
                         m_currentTask'.ID \in RowIDs(pending') \cup cleared
  BY <1>5, <1>6
<1>7. CASE \/ LoopCheck(l) \/ LoopHalt(l) \/ LoopSelect(l) \/ LoopSelectFails(l)
           \/ LoopIdle(l) \/ LoopFailed(l)
  BY <1>6, <1>7 DEF LoopCheck, LoopHalt, LoopSelect, LoopSelectFails, LoopIdle, LoopFailed,
     LoopGoto, InHand, Holding, file
<1>8. CASE LoopStart(l) \/ LoopFork(l) \/ LoopSetup(l) \/ LoopUnstuck(l) \/ LoopPoll(l)
  BY <1>6, <1>8 DEF LoopStart, LoopFork, LoopSetup, LoopUnstuck, LoopPoll, InHand, Holding, file
<1>9. CASE LoopFinLock(l) \/ LoopFinDeleteFails(l)
  BY <1>6, <1>9 DEF LoopFinLock, LoopFinDeleteFails, FinReturns, LoopGoto, InHand, Holding, file,
     TaskType
<1>10. CASE LoopPick(l)
  <2>1. /\ m_currentTask'.ID = FirstRow(pending) /\ pending # <<>>
        /\ UNCHANGED <<pending, done>>
    BY <1>10 DEF LoopPick, LockInv, file
  <2>2. FirstRow(pending) \in RowIDs(pending)
    BY <2>1, FirstIsOldest DEF IDInv, FileType
  <2>3. FirstRow(pending) \in accepted \ DoneIDs(done)
    BY <2>2 DEF IDInv, MoveInv, LedgerInv
  <2> QED  BY <1>5, <2>1, <2>2, <2>3
<1>11. CASE LoopFinDelete(l)
  <2>1. /\ loopPc[l] = "fin.delete" /\ loopPc'[l] = "fin.insert"
        /\ UNCHANGED <<done, m_currentTask>>
    BY <1>11 DEF LoopFinDelete, LoopGoto
  <2> QED  BY <1>5, <2>1 DEF InHand
<1>12. CASE LoopFinInsert(l)
  <2>1. /\ loopPc[l] = "fin.insert" /\ loopPc'[l] \notin InHand
        /\ done' = done \/ done' = done \cup {m_currentTask}
    BY <1>12 DEF LoopFinInsert, FinReturns, LoopGoto, InsertDone, InHand, Holding
  <2>2. DoneIDs(done') \subseteq DoneIDs(done) \cup {m_currentTask.ID}
    BY <2>1 DEF DoneIDs
  <2> QED  BY <1>5, <2>1, <2>2 DEF InHand
<1> QED  BY <1>7, <1>8, <1>9, <1>10, <1>11, <1>12 DEF LoopStep

LEMMA LedgerNext ==
    ASSUME KeptInv, Next, Serial, RowsDeleted PROVE LedgerInv'
<1> USE DEF KeptInv, Inv, TypeOK, Serial, RowsDeleted
<1>1. CASE ServerDies
  BY <1>1 DEF ServerDies, LedgerInv, InHand, Holding, file
<1>2. CASE \/ \E c \in Clients : CallAny(c) \/ (ClientStep(c) /\ ~ServerDies /\ ~Commits(c))
           \/ \E p \in Pids : ChildExit(p)
  <2>1. /\ UNCHANGED <<pending, done, accepted, removed, cleared, m_currentTask>>
        /\ incidents' \subseteq incidents \cup {"overlap"}
        /\ \A l \in Loops : loopPc'[l] = loopPc[l] \/ loopPc'[l] = "check"
    BY <1>2, LedgerIdle
  <2>2. \A l \in Loops : loopPc'[l] \in InHand => loopPc'[l] = loopPc[l]
    BY <2>1 DEF InHand, Holding
  <2> QED  BY <2>1, <2>2 DEF LedgerInv
<1>3. ASSUME NEW c \in Clients, Commits(c) PROVE LedgerInv'
  <2>1. UNCHANGED <<loopPc, m_currentTask, incidents>>
    BY <1>3 DEF Commits, AddSelect, AddUpdate, AddInsert, RemoveCheck, RemoveDelete,
       ClearDelete, ClearFinished, loops, history
  <2>2. /\ accepted \subseteq accepted' /\ DoneIDs(done') \subseteq DoneIDs(done)
        /\ cleared \subseteq cleared'
    BY <1>3 DEF Commits, AddSelect, AddUpdate, AddInsert, RemoveCheck, RemoveDelete,
       ClearDelete, ClearFinished, file, history, DoneIDs
  <2>3. \A id \in RowIDs(pending) : \/ id \in RowIDs(pending') \cup cleared'
                                    \/ id \in removed'
    <3>1. CASE AddSelect(c) \/ AddUpdate(c) \/ RemoveCheck(c) \/ ClearFinished(c)
      BY <3>1 DEF AddSelect, AddUpdate, RemoveCheck, ClearFinished, file
    <3>2. CASE AddInsert(c)
      BY <3>2, InsertRows DEF AddInsert, FileType, ClientType
    <3>3. CASE RemoveDelete(c)
      BY <3>3, DeleteRows DEF RemoveDelete, IDInv, FileType, ClientType
    <3>4. CASE ClearDelete(c)
      BY <3>4 DEF ClearDelete
    <3> QED  BY <1>3, <3>1, <3>2, <3>3, <3>4 DEF Commits
  <2>4. m_currentTask.ID \notin removed'
    <3>1. RemovedInv'
      BY RemovedNext
    <3> QED  BY <2>1, <3>1 DEF RemovedInv
  <2>5. cleared' \subseteq accepted' /\ cleared' \cap RowIDs(pending') = {}
    <3> USE DEF LedgerInv
    <3>1. CASE AddSelect(c) \/ AddUpdate(c) \/ RemoveCheck(c)
      BY <3>1 DEF AddSelect, AddUpdate, RemoveCheck, file, history
    <3>2. CASE AddInsert(c)
      <4>1. /\ RowIDs(pending') = RowIDs(pending) \cup {arg[c]}
            /\ accepted' = accepted \cup {arg[c]} /\ cleared' = cleared
        BY <3>2, InsertRows DEF AddInsert, FileType, ClientType
      <4>2. arg[c] \notin accepted
        BY <3>2 DEF AddInsert, IDInv, Known, ClientType
      <4> QED  BY <4>1, <4>2
    <3>3. CASE RemoveDelete(c)
      BY <3>3, DeleteRows DEF RemoveDelete, IDInv, FileType, ClientType
    <3>4. CASE ClearDelete(c)
      BY <3>4 DEF ClearDelete, RowIDs, IDInv
    <3>5. CASE ClearFinished(c)
      BY <3>5 DEF ClearFinished, MoveInv
    <3> QED  BY <1>3, <3>1, <3>2, <3>3, <3>4, <3>5 DEF Commits
  <2> QED  BY <2>1, <2>2, <2>3, <2>4, <2>5 DEF LedgerInv
<1>4. ASSUME NEW l \in Loops, LoopStep(l) PROVE LedgerInv'
  BY <1>4, LedgerLoop
<1> QED  BY <1>1, <1>2, <1>3, <1>4 DEF Next, Crash

\* The ledger changes in at most one state.
LEMMA OneStateChanges ==
    ASSUME NEW i \in IDs, NEW s, StateOf(i)' = s,
           \A id \in IDs \ {i} : StateOf(id)' = StateOf(id)
    PROVE  States' = [States EXCEPT ![i] = s]
  BY DEF States

LEMMA SameStates ==
    ASSUME \A id \in IDs : StateOf(id)' = StateOf(id)
    PROVE  States' = States
  BY DEF States

\* A task that is nobody's in the move is where its row is.
LEMMA Resting ==
    ASSUME NEW id, ~InMove(id)
    PROVE  StateOf(id) = IF id \in DoneIDs(done) THEN "finished"
                         ELSE IF id \in RowIDs(pending) THEN "waiting"
                         ELSE IF id \in accepted THEN "gone" ELSE "unborn"
  BY DEF StateOf

LEMMA AcceptedAreIDs ==
    ASSUME KeptInv PROVE accepted \subseteq IDs /\ RowIDs(pending) \subseteq accepted
<1>1. \A id \in accepted : id \in Nat /\ id < lastID
  BY DEF KeptInv, Inv, TypeOK, HistoryType, IDInv, Known
<1>2. lastID \in Nat /\ lastID <= MaxID
  BY ComingIsFinite, BoundsAreNat DEF KeptInv, Inv, TypeOK, FileType, BoundInv
<1> QED  BY <1>1, <1>2, BoundsAreNat DEF IDs, KeptInv, Inv, IDInv

\* What the ledger sees of the one main loop that is at work.
LEMMA LoopSeen ==
    ASSUME KeptInv, NEW l \in Loops, LoopStep(l)
    PROVE  /\ RunningIDs = IF loopPc[l] \in Runs THEN {m_currentTask.ID} ELSE {}
           /\ RunningIDs' = IF loopPc'[l] \in Runs THEN {m_currentTask'.ID} ELSE {}
           /\ Moving # {} <=> loopPc[l] = "fin.insert"
           /\ Moving' # {} <=> loopPc'[l] = "fin.insert"
<1>1. \A k \in Loops \ {l} : loopPc'[k] = loopPc[k] /\ loopPc[k] \notin Runs
  BY OnlyLoop DEF LoopAlive, Runs
<1>2. \A k \in Loops : loopPc[k] = "fin.insert" => loopPc[k] \in Runs
  BY DEF Runs
<1> QED  BY <1>1, <1>2 DEF RunningIDs, Moving

LEMMA LedgerStarts == Init => LedgerView!Init
<1> SUFFICES ASSUME Init PROVE LedgerView!Init
  OBVIOUS
<1>1. \A id \in IDs : StateOf(id) = "unborn"
  BY DEF Init, StateOf, InMove, DoneIDs, RowIDs
<1>2. RunningIDs = {}
  BY DEF Init, RunningIDs, Runs
<1> QED  BY <1>1, <1>2 DEF LedgerView!Init, States, IDs, LedgerView!IDs

\* Steps in which no row and no task in the move changes.
LEMMA LedgerStays ==
    ASSUME UNCHANGED <<pending, done, accepted, removed, cleared>>,
           \A id \in IDs : InMove(id)' <=> InMove(id)
    PROVE  States' = States
<1>1. \A id \in IDs : StateOf(id)' = StateOf(id)
  BY DEF StateOf
<1> QED  BY <1>1, SameStates

LEMMA LedgerIdles ==
    ASSUME KeptInv,
           \/ \E c \in Clients : CallAny(c) \/ (ClientStep(c) /\ ~ServerDies /\ ~Commits(c))
           \/ \E p \in Pids : ChildExit(p)
    PROVE  UNCHANGED LedgerView!ledger
<1>1. /\ UNCHANGED <<pending, done, accepted, removed, cleared, m_currentTask>>
      /\ \A l \in Loops : loopPc'[l] = loopPc[l] \/ (loopPc'[l] = "check" /\ ~LoopAlive(l))
  BY LedgerIdle
<1>2. \A l \in Loops : /\ loopPc'[l] \in Runs <=> loopPc[l] \in Runs
                       /\ loopPc'[l] = "fin.insert" <=> loopPc[l] = "fin.insert"
  BY <1>1 DEF LoopAlive, Runs
<1>3. RunningIDs' = RunningIDs
  BY <1>1, <1>2 DEF RunningIDs
<1>4. Moving' = Moving
  BY <1>2 DEF Moving
<1>5. States' = States
  BY <1>1, <1>4, LedgerStays DEF InMove
<1> QED  BY <1>3, <1>5 DEF LedgerView!ledger

\* A statement that commits: a task is born, removed, or the tables are cleared.
LEMMA LedgerCommits ==
    ASSUME KeptInv, "undeleted" \notin incidents, NEW c \in Clients, Commits(c)
    PROVE  LedgerView!Next \/ UNCHANGED LedgerView!ledger
<1> USE DEF KeptInv, Inv, TypeOK, FileType, ClientType
<1>1. UNCHANGED <<loopPc, m_currentTask>> /\ RunningIDs' = RunningIDs /\ Moving' = Moving
  BY DEF Commits, AddSelect, AddUpdate, AddInsert, RemoveCheck, RemoveDelete,
     ClearDelete, ClearFinished, loops, RunningIDs, Moving
<1>2. /\ RowIDs(pending) \cap DoneIDs(done) = {}
      /\ RowIDs(pending) \subseteq accepted /\ DoneIDs(done) \subseteq accepted
  BY DEF MoveInv, IDInv, LedgerInv
<1>3. ASSUME UNCHANGED <<pending, done, accepted, removed, cleared>>
      PROVE  UNCHANGED LedgerView!ledger
  BY <1>1, <1>3, LedgerStays DEF InMove, LedgerView!ledger
<1>4. CASE AddSelect(c) \/ AddUpdate(c) \/ RemoveCheck(c)
  BY <1>3, <1>4 DEF AddSelect, AddUpdate, RemoveCheck, file, history
<1>5. CASE AddInsert(c)
  <2> PICK i \in Nat : i = arg[c]
    OBVIOUS
  <2>1. /\ RowIDs(pending') = RowIDs(pending) \cup {i} /\ accepted' = accepted \cup {i}
        /\ UNCHANGED <<done, removed, cleared>> /\ lastID = i + 1
        /\ \A id \in Known : id < i
    BY <1>5, InsertRows DEF AddInsert, IDInv
  <2>2. i \in IDs
    BY <2>1, ComingIsFinite, BoundsAreNat DEF BoundInv, IDs
  <2>3. \A j \in IDs : j >= i => j \notin Known
    BY <2>1, <2>2 DEF IDs
  <2>4. \A j \in IDs : j >= i => StateOf(j) = "unborn"
    BY <2>3 DEF StateOf, Known
  <2>5. StateOf(i)' = "waiting"
    BY <2>1, <2>2, <2>3 DEF StateOf, Known, IDs
  <2>6. \A id \in IDs \ {i} : StateOf(id)' = StateOf(id)
    BY <1>1, <2>1 DEF StateOf, InMove
  <2>7. LedgerView!Accept(i)
    BY <1>1, <2>2, <2>4, <2>5, <2>6, OneStateChanges
       DEF LedgerView!Accept, States, IDs, LedgerView!IDs
  <2> QED  BY <2>2, <2>7 DEF LedgerView!Next, IDs, LedgerView!IDs
<1>6. CASE RemoveDelete(c)
  <2> PICK i \in Nat : i = arg[c]
    OBVIOUS
  <2>1. /\ RowIDs(pending') = RowIDs(pending) \ {i} /\ UNCHANGED <<done, accepted, cleared>>
        /\ removed' = removed \cup ({i} \cap RowIDs(pending))
    BY <1>6, DeleteRows DEF RemoveDelete, IDInv
  <2>2. CASE i \notin RowIDs(pending)
    BY <1>3, <1>6, <2>1, <2>2 DEF RemoveDelete, DeletePending
  <2>3. CASE i \in RowIDs(pending)
    <3>1. i \in IDs /\ i \notin DoneIDs(done) /\ i \in accepted
      BY <1>2, <2>3, AcceptedAreIDs
    <3>2. i # m_currentTask.ID
      BY <1>6, <2>3 DEF RemoveDelete, RemovedInv
    <3>3. StateOf(i) = "waiting" /\ StateOf(i)' = "gone"
      BY <1>1, <2>1, <2>3, <3>1, <3>2 DEF StateOf, InMove
    <3>4. \A id \in IDs \ {i} : StateOf(id)' = StateOf(id)
      BY <1>1, <2>1 DEF StateOf, InMove
    <3>5. i \notin RunningIDs
      BY <3>2 DEF RunningIDs
    <3>6. LedgerView!Remove(i)
      BY <1>1, <3>1, <3>3, <3>4, <3>5, OneStateChanges DEF LedgerView!Remove, States
    <3> QED  BY <3>1, <3>6 DEF LedgerView!Next, IDs, LedgerView!IDs
  <2> QED  BY <2>2, <2>3
<1>7. ASSUME Moving = {}, NEW what \in {"waiting", "finished"},
             \A id \in IDs : StateOf(id)' = IF StateOf(id) = what THEN "gone" ELSE StateOf(id)
      PROVE  LedgerView!Next
  <2>1. LedgerView!Clear(what)
    BY <1>1, <1>7 DEF LedgerView!Clear, States, IDs, LedgerView!IDs
  <2> QED  BY <2>1 DEF LedgerView!Next
<1>8. CASE ClearDelete(c)
  <2>1. Moving = {}
    BY <1>8, OwnersDiffer DEF ClearDelete, Moving, LockInv
  <2>2. CASE pending' = pending /\ cleared' = cleared
    BY <1>3, <1>8, <2>2 DEF ClearDelete
  <2>3. CASE pending' = <<>>
    <3>1. RowIDs(pending') = {} /\ UNCHANGED <<done, accepted>>
      BY <1>8, <2>3 DEF ClearDelete, RowIDs
    <3>2. \A id \in IDs :
             StateOf(id)' = IF StateOf(id) = "waiting" THEN "gone" ELSE StateOf(id)
      BY <1>1, <1>2, <2>1, <3>1 DEF StateOf, InMove
    <3> QED  BY <1>7, <2>1, <3>2
  <2> QED  BY <1>8, <2>2, <2>3 DEF ClearDelete
<1>9. CASE ClearFinished(c)
  <2>1. Moving = {}
    BY <1>9, OwnersDiffer DEF ClearFinished, Moving, LockInv
  <2>2. CASE done' = done /\ cleared' = cleared
    BY <1>3, <1>9, <2>2 DEF ClearFinished
  <2>3. CASE done' = {}
    <3>1. DoneIDs(done') = {} /\ UNCHANGED <<pending, accepted>>
      BY <1>9, <2>3 DEF ClearFinished, DoneIDs
    <3>2. \A id \in IDs :
             StateOf(id)' = IF StateOf(id) = "finished" THEN "gone" ELSE StateOf(id)
      BY <1>1, <1>2, <2>1, <3>1 DEF StateOf, InMove
    <3> QED  BY <1>7, <2>1, <3>2
  <2> QED  BY <1>9, <2>2, <2>3 DEF ClearFinished
<1> QED  BY <1>4, <1>5, <1>6, <1>8, <1>9 DEF Commits

\* The server dies: the task in the move is lost, another run comes to nothing.
LEMMA LedgerDies ==
    ASSUME KeptInv, "undeleted" \notin incidents, ServerDies
    PROVE  LedgerView!Next
<1>1. /\ RunningIDs' = {} /\ Moving' = {}
      /\ UNCHANGED <<pending, done, accepted, removed, cleared>>
  BY DEF ServerDies, RunningIDs, Runs, Moving, file
<1>2. CASE Moving = {}
  <2>1. States' = States
    BY <1>1, <1>2, LedgerStays DEF InMove
  <2> QED  BY <1>1, <2>1 DEF LedgerView!Next, LedgerView!Abandon
<1>3. CASE Moving # {}
  <2>1. PICK l \in Loops : loopPc[l] = "fin.insert"
    BY <1>3 DEF Moving
  <2>2. PICK i \in Nat : i = m_currentTask.ID
    BY DEF KeptInv, Inv, TypeOK, TaskType
  <2>3. /\ i \in accepted \ DoneIDs(done) /\ i \notin RowIDs(pending) /\ RunningIDs = {i}
    BY <1>3, <2>1, <2>2 DEF KeptInv, LedgerInv, Inv, MoveInv, InHand, RunningIDs, Runs
  <2>4. StateOf(i)' = "gone" /\ \A id \in IDs \ {i} : StateOf(id)' = StateOf(id)
    BY <1>1, <2>2, <2>3 DEF StateOf, InMove
  <2>5. i \in IDs
    BY <2>3, AcceptedAreIDs
  <2>6. LedgerView!Lose(i)
    BY <1>1, <2>3, <2>4, <2>5, OneStateChanges DEF LedgerView!Lose
  <2> QED  BY <2>5, <2>6 DEF LedgerView!Next, IDs, LedgerView!IDs
<1> QED  BY <1>2, <1>3

\* A main loop starts the oldest task, gives it up, finishes or loses it.
LEMMA LedgerLoops ==
    ASSUME KeptInv, "undeleted" \notin incidents, RowsDeleted, NEW l \in Loops, LoopStep(l)
    PROVE  LedgerView!Next \/ UNCHANGED LedgerView!ledger
<1> USE DEF KeptInv, Inv, TypeOK, FileType, LoopType, TaskType
<1> DEFINE from == loopPc[l]
           to == loopPc'[l]
<1>1. /\ RunningIDs = IF from \in Runs THEN {m_currentTask.ID} ELSE {}
      /\ RunningIDs' = IF to \in Runs THEN {m_currentTask'.ID} ELSE {}
      /\ Moving # {} <=> from = "fin.insert"
      /\ Moving' # {} <=> to = "fin.insert"
  BY LoopSeen
<1>2. UNCHANGED <<accepted, removed, cleared>>
  BY OnlyLoop
<1>3. PICK i \in Nat : i = m_currentTask.ID
  OBVIOUS
<1>4. from \in InHand =>
        /\ i \in accepted \ DoneIDs(done) /\ i \in IDs /\ i \notin removed
        /\ from # "fin.insert" => i \in RowIDs(pending) \cup cleared
  BY <1>3, AcceptedAreIDs DEF LedgerInv, RemovedInv
<1>5. ASSUME UNCHANGED <<pending, done>>, from # "fin.insert", to # "fin.insert"
      PROVE  States' = States
  BY <1>1, <1>2, <1>5, LedgerStays DEF InMove
<1>6. CASE \/ LoopCheck(l) \/ LoopHalt(l) \/ LoopSelect(l) \/ LoopSelectFails(l)
           \/ LoopPick(l) \/ LoopIdle(l) \/ LoopFailed(l) \/ (LoopStart(l) /\ to = "fork")
  <2>1. UNCHANGED <<pending, done>> /\ from \notin Runs /\ to \notin Runs
    BY <1>6 DEF LoopCheck, LoopHalt, LoopSelect, LoopSelectFails, LoopPick, LoopIdle,
       LoopFailed, LoopStart, LoopGoto, Runs, file
  <2>2. UNCHANGED RunningIDs /\ UNCHANGED States
    BY <1>1, <1>5, <2>1 DEF Runs
  <2> QED  BY <2>2 DEF LedgerView!ledger
<1>7. CASE \/ LoopSetup(l) \/ LoopUnstuck(l) \/ LoopPoll(l)
           \/ (LoopFinLock(l) /\ to = "fin.delete")
  <2>1. /\ UNCHANGED <<pending, done>> /\ m_currentTask'.ID = m_currentTask.ID
        /\ from \in Runs \ {"fin.insert"} /\ to \in Runs \ {"fin.insert"}
    BY <1>7 DEF LoopSetup, LoopUnstuck, LoopPoll, LoopFinLock, FinReturns, LoopGoto, Runs, file
  <2>2. UNCHANGED RunningIDs /\ UNCHANGED States
    BY <1>1, <1>5, <2>1
  <2> QED  BY <2>2 DEF LedgerView!ledger
<1>8. CASE LoopFork(l) \/ (LoopStart(l) /\ to # "fork")
  <2>1. /\ UNCHANGED <<pending, done>> /\ m_currentTask' = m_currentTask
        /\ from \in {"start", "fork"} /\ to \in {"setup", "fin.lock"}
    BY <1>8 DEF LoopFork, LoopStart, LoopGoto, file
  <2>2. /\ RunningIDs = {} /\ RunningIDs' = {i} /\ States' = States /\ Moving = {}
    BY <1>1, <1>3, <1>5, <2>1 DEF Runs
  <2>3. i \in IDs /\ StateOf(i) \in {"waiting", "gone"}
    BY <1>4, <2>1 DEF InHand, StateOf
  <2>4. \A j \in IDs : StateOf(j) = "waiting" => i <= j
    BY <1>3, <2>2 DEF StateOf, InMove, IDInv
  <2>5. LedgerView!Start(i)
    BY <2>2, <2>3, <2>4 DEF LedgerView!Start, States, IDs, LedgerView!IDs
  <2> QED  BY <2>3, <2>5 DEF LedgerView!Next, IDs, LedgerView!IDs
<1>9. CASE LoopFinDeleteFails(l) \/ (LoopFinLock(l) /\ to # "fin.delete")
  <2>1. UNCHANGED <<pending, done>> /\ from \in {"fin.lock", "fin.delete"} /\ to \notin Runs
    BY <1>9 DEF LoopFinDeleteFails, LoopFinLock, FinReturns, LoopGoto, Runs, file
  <2>2. RunningIDs' = {} /\ States' = States
    BY <1>1, <1>5, <2>1 DEF Runs
  <2> QED  BY <2>2 DEF LedgerView!Next, LedgerView!Abandon
<1>10. CASE LoopFinDelete(l)
  <2>1. /\ from = "fin.delete" /\ to = "fin.insert" /\ UNCHANGED <<done, m_currentTask>>
        /\ RowIDs(pending') = RowIDs(pending) \ {i}
    BY <1>3, <1>10, DeleteRows DEF LoopFinDelete, LoopGoto, IDInv, RowsDeleted
  <2>2. RunningIDs' = RunningIDs /\ Moving = {} /\ Moving' # {}
    BY <1>1, <2>1 DEF Runs
  <2>3. /\ i \in accepted \ DoneIDs(done) /\ i \notin removed
        /\ i \in RowIDs(pending) \cup cleared /\ ~(i \in RowIDs(pending) /\ i \in cleared)
    BY <1>4, <2>1 DEF InHand, LedgerInv
  <2>4. StateOf(i)' = StateOf(i)
    BY <1>2, <1>3, <2>1, <2>2, <2>3 DEF StateOf, InMove
  <2>5. \A id \in IDs \ {i} : StateOf(id)' = StateOf(id)
    BY <1>2, <1>3, <2>1, <2>2 DEF StateOf, InMove
  <2>6. States' = States
    BY <2>4, <2>5, SameStates
  <2> QED  BY <2>2, <2>6 DEF LedgerView!ledger
<1>11. CASE LoopFinInsert(l)
  <2>1. /\ from = "fin.insert" /\ to \in {"failed", "check"} /\ UNCHANGED pending
        /\ done' \in {done, done \cup {m_currentTask}}
    BY <1>11 DEF LoopFinInsert, FinReturns, LoopGoto, InsertDone
  <2>2. RunningIDs = {i} /\ RunningIDs' = {} /\ Moving # {} /\ Moving' = {}
    BY <1>1, <1>3, <2>1 DEF Runs
  <2>3. i \in accepted \ DoneIDs(done) /\ i \in IDs /\ i \notin RowIDs(pending)
    BY <1>3, <1>4, <2>1, <2>2 DEF InHand, MoveInv
  <2>4. CASE done' = done
    <3>1. StateOf(i)' = "gone" /\ \A id \in IDs \ {i} : StateOf(id)' = StateOf(id)
      BY <1>2, <1>3, <2>1, <2>2, <2>3, <2>4 DEF StateOf, InMove
    <3>2. LedgerView!Lose(i)
      BY <2>2, <2>3, <3>1, OneStateChanges DEF LedgerView!Lose
    <3> QED  BY <2>3, <3>2 DEF LedgerView!Next, IDs, LedgerView!IDs
  <2>5. CASE done' = done \cup {m_currentTask}
    <3>1. DoneIDs(done') = DoneIDs(done) \cup {i}
      BY <1>3, <2>5 DEF DoneIDs
    <3>2. StateOf(i)' = "finished" /\ \A id \in IDs \ {i} : StateOf(id)' = StateOf(id)
      BY <1>2, <1>3, <2>1, <2>2, <3>1 DEF StateOf, InMove
    <3>3. StateOf(i) \in {"waiting", "gone"}
      BY <2>3 DEF StateOf
    <3>4. LedgerView!Finish(i)
      BY <2>2, <2>3, <3>2, <3>3, OneStateChanges DEF LedgerView!Finish, States
    <3> QED  BY <2>3, <3>4 DEF LedgerView!Next, IDs, LedgerView!IDs
  <2> QED  BY <2>1, <2>4, <2>5
<1> QED  BY <1>6, <1>7, <1>8, <1>9, <1>10, <1>11 DEF LoopStep

LEMMA KeptStutters == KeptInv /\ UNCHANGED vars => KeptInv' /\ UNCHANGED LedgerView!ledger
<1> SUFFICES ASSUME KeptInv, UNCHANGED vars PROVE KeptInv' /\ UNCHANGED LedgerView!ledger
  OBVIOUS
<1>1. Inv'
  BY InvStutters DEF KeptInv
<1>2. OneInv'
  BY DEF KeptInv, OneInv, vars, loops, process, history, LoopAlive, Alive
<1>3. BoundInv'
  BY BoundStays DEF KeptInv, Inv, vars, file, clients
<1>4. LedgerInv'
  BY DEF KeptInv, LedgerInv, vars, loops, history, file
<1>5. RunningIDs' = RunningIDs /\ States' = States
  BY LedgerStays DEF vars, loops, history, file, RunningIDs, InMove, Moving
<1> QED  BY <1>1, <1>2, <1>3, <1>4, <1>5 DEF KeptInv, LedgerView!ledger

\* Whatever crashes and whichever statements fail, the queue keeps the ledger as long
\* as start() creates a main loop only when the last one has ended: tasks start one at
\* a time and oldest first, and each is finished at most once.  A delete that fails
\* after it was prepared is excepted: the row of a finished task then stays in pending
\* and the task runs again.  (mainLoopFin)
THEOREM KeepsLedger ==
    Spec /\ [][Serial /\ RowsDeleted]_vars => Ledger
<1>1. Init => LedgerView!Init /\ KeptInv
  BY LedgerStarts, InvInit, BoundInit, OneInit, LedgerInit DEF KeptInv
<1>2. KeptInv /\ [Next]_vars /\ [Serial /\ RowsDeleted]_vars =>
        KeptInv' /\ [LedgerView!Next]_(LedgerView!ledger)
  <2> SUFFICES ASSUME KeptInv, [Next]_vars, [Serial /\ RowsDeleted]_vars
               PROVE  KeptInv' /\ (LedgerView!Next \/ UNCHANGED LedgerView!ledger)
    OBVIOUS
  <2>1. CASE UNCHANGED vars
    BY <2>1, KeptStutters
  <2>2. CASE Next /\ Serial /\ RowsDeleted
    <3>1. KeptInv'
      BY <2>2, InvNext, BoundNext, OneNext, LedgerNext DEF KeptInv, Inv
    <3>2. "undeleted" \notin incidents
      BY DEF KeptInv, LedgerInv
    <3>3. CASE ServerDies
      BY <3>1, <3>2, <3>3, LedgerDies
    <3>4. ASSUME NEW c \in Clients, CallAny(c) \/ ClientStep(c), ~ServerDies
          PROVE  LedgerView!Next \/ UNCHANGED LedgerView!ledger
      BY <3>2, <3>4, LedgerIdles, LedgerCommits
    <3>5. ASSUME NEW l \in Loops, LoopStep(l)
          PROVE  LedgerView!Next \/ UNCHANGED LedgerView!ledger
      BY <2>2, <3>2, <3>5, LedgerLoops
    <3>6. ASSUME NEW p \in Pids, ChildExit(p)
          PROVE  LedgerView!Next \/ UNCHANGED LedgerView!ledger
      BY <3>6, LedgerIdles
    <3> QED  BY <2>2, <3>1, <3>3, <3>4, <3>5, <3>6 DEF Next, Crash
  <2> QED  BY <2>1, <2>2
<1> QED  BY <1>1, <1>2, PTL DEF Spec, Ledger, LedgerView!Spec
=============================================================================
