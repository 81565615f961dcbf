# Simple Task Queue: a TLA+ model of the server and its queues

This directory models the core of Simple Task Queue, checks it with TLC on small
instances and proves theorems about it with TLAPS. All file names below are
relative to the repository's root; `SQ` is `model/dao/sqlitequeue.cpp`, `LP` is
`model/proc/linuxproc.cpp`, `WP` is `model/proc/winproc.cpp`, `QL` is
`model/dao/sqlitequeuelist.cpp`.

A server keeps named queues of tasks. A task is a program to execute; each queue
runs its tasks one after the other, in the order in which they were added, and keeps
the finished ones with their exit codes. Clients reach the server by gRPC; the CLI
can also work on the same classes without a server.

## 1. Inventory

| component | state | operations | talks to |
|---|---|---|---|
| **SQLiteQueue** (`SQ`) | the SQLite file (tables `pending`, `done`, the counter `lastID`), `m_token->mutex` around it, `m_currentTask` and its mutex, `m_isRunning`, `m_start`, the main loop's `m_thread` | add, remove, clear (two), list and details (four), current, start, stop; `mainLoop` with `mainLoopInit`, `mainLoopFin` | called by RPC threads, calls its LinuxProc |
| **LinuxProc** (`LP`) | `m_pid`, `m_exitCode`, `m_masterFD`, `m_epoll_fd`, the reader thread, `m_deque` and its mutex | `start` (forkpty), `isRunning` (waitpid), `exitCode`, `stop` (SIGKILL), `readCurrentOutput`, `readOutputLoop` | the queue's main loop, the children, RPC threads |
| **SQLiteQueueList** (`QL`) | `m_queueList`, from names to shared pointers, without a lock | `init` (opens every file), create, list, delete, rename, get | RPC threads; creates and destroys queues |
| **WinProc** (`WP`), in a build for Windows in the place of LinuxProc | the handles of a pipe, a pseudo console and a process, `m_exitCode`, the reader thread, `m_deque` and its mutex | the same | the same |
| **argument lists** (`SQ` 916-952, `controller/cli/args.cpp`, `LP` 205-264, `WP` 247-259) | a column of the tables | a line into words, words into one text and back, into `argv` or a command line | the CLI, the queue, the child |
| **handlers** (`controller/grpcserver/*impl.cpp`) | none | one per RPC, on a thread of gRPC's pool | the list, the queues |
| **server** (`servermain.cpp`, `server.cpp`, `init.cpp`) | the promise `m_exitRequested`, static objects | open every file, listen, shut down when the promise is set, by a signal | the list |
| **RPC client** (`model/dao/grpc*.cpp`) | the stub, the queue's name | the same interfaces `IQueue`, `IQueueList`, over gRPC with a deadline | the handlers |
| **CLI** (`controller/cli`) | the command line, `keepRunning` | one per command | `IQueue`, `IQueueList` of either kind |
| configuration, paths, logging, AccessImpl, connections | | | |

What makes it hard:

- *Threads.* A queue has a main loop, a reader thread and as many callers as gRPC has
  threads. Two mutexes and two atomics order them, none of which covers `start()`,
  `m_pid`, the descriptors or the list.
- *Commits.* No transaction spans two SQL statements. A server that dies between two
  of them leaves what the first one did.
- *Processes.* `m_pid` is 0, -1, a running child or one that was reaped, and is used
  as it is in `kill` and `waitpid`.
- *Lifetimes.* A queue dies in the thread that lets go of it last, which waits there
  for its main loop. The order in which static objects are declared is the order in which
  the server goes down.

What makes it correct, by component:

- the queue: tasks run in order, each accepted task is somewhere, none is at two
  places, removed ones never run, recorded exit codes are true, calls return, a
  running queue finishes what is pending, a stopped one comes to rest;
- the process: one child at a time, output in order, the reader ends with the child,
  on Windows nothing of the output is left behind, the destructor returns;
- the arguments: what is typed is what the program finds;
- the list: a queue that can be called has a sound file, nobody uses a destroyed
  queue, the server comes up again after a crash, its list is that of the files, and
  when it is told to stop it does, with all that runs in it.

`PROJECT.json` lists the hazards with their lines and the properties that watch them.

## 2. The modules

| module | models | code |
|---|---|---|
| `TaskTable` | the SQL statements on the tables, as operators | `SQ` 670-914 |
| `TaskTableProofs` | lemmas about these operators | |
| `SqliteQueue` | one queue: its callers, its main loops, its LinuxProc, its children, crashes | `SQ` 114-216, 954-1176; `LP` 60-146, 266-325 |
| `TaskLedger` | what a queue promises: an abstract specification; the mapping to it (`LedgerView`) is at the end of `SqliteQueue` | |
| `MCSqliteQueue` | instances for TLC, what the code's messages claim | |
| `SqliteQueueProofs` | theorems about `SqliteQueue` | |
| `ProcReader` | LinuxProc's reader threads, descriptors and output, its destruction | `LP` 46-169, 277-378; `model/proc/linuxproc.hpp` 87-91 |
| `WinReader` | WinProc: start, stop, readers, handles, output, destruction | `WP` 39-385; `model/proc/winproc.hpp` 91-95 |
| `TaskArgs` | arguments, from the line of the CLI to the program | `SQ` 816-817, 916-952, 1093-1103, 1154-1160; `controller/cli/args.cpp` 82-112; `LP` 184-264; `WP` 231-293 |
| `MCReader` | instances for TLC of these three, one at a time | |
| `ChunkOrder` | lemmas about chunks on their way through sequences, which both readers' proofs instantiate | |
| `WinReaderProofs`, `TaskArgsProofs` | theorems about `WinReader` and `TaskArgs` | |
| `MCReaderProofs` | theorems about `ProcReader`; those of the other two, for the specification that the runs check | |
| `QueueList` | the list, its handlers, opening files, the start and the end of the server | `QL` 46-214; `SQ` 114-140, 219-636; `controller/grpcserver/server.cpp`, `servermain.cpp`, `init.cpp` |
| `QueueListProofs` | theorems about `QueueList` | |
| `MCQueueList` | symmetry for TLC | |
| `RemoteQueue` | clients and handlers on either side of gRPC | `model/dao/grpcqueue.cpp` 91-297, `grpcqueuelist.cpp` 80-203, `grpcutils.cpp`; `controller/grpcserver/queueimpl.cpp` 38-437, `queuelistimpl.cpp` 38-189; `controller/cli/queue.cpp` 117-493, `controller/cli/queuelist.cpp` 72-345 |
| `CallOnce` | what a remote call promises: an abstract specification | |
| `MCRemoteQueue` | symmetry for TLC | |
| `RemoteQueueProofs` | theorems about `RemoteQueue` | |

**SqliteQueue.** The step of a thread is what it does between two points where another
thread, a child or a crash can tell the difference: a mutex is taken, an atomic is
read or written, a statement commits, a system call returns. The label `pc[c]` of a
caller or `loopPc[l]` of a main loop names the next such point (`"remove.check"`: about
to compare with `m_currentTask`). `start()` number `l` creates main loop `l`, so two
racing starts give two loops that share everything else, as in the code. Variables
carry the names of the members. `proc` is what the kernel knows of the children;
`Awaited`, `Reap` and `Killed` are `waitpid(m_pid)` and `kill(m_pid)` with their
treatment of 0 and -1. A row is abstracted to its ID and its exit code, the rest only
travels along. A crash keeps the file and starts everything else again; what becomes
of children that outlive the server is not followed.

**ProcReader.** `SqliteQueue` says only that a main loop that forks while an older
reader lives may be stuck forever ("stuck"). This module says when: it has the
descriptors, the readers of consecutive tasks and the queue of output, and
leaves out everything `SqliteQueue` has. At its end the members go in the reverse of the
order in which the class declares them: `m_deque` and `m_mutex` first, then the thread is
joined, so a reader that has output in its hands may use what is no longer there
(`lateUses`).

**WinReader.** The same for Windows, and with it what `SqliteQueue` has of LinuxProc: a
handle is known by the task it was opened for, null is `None`. `stop()` is two steps, the
console and then all handles, between any two of the main loop's and the readers'. Every
call of the operating system that the code tests may fail; a program may exit with 259,
`STILL_ACTIVE`, which is what a running one is said to return. `disturbed` names the
tasks that met a stop or whose start failed: properties that speak of a task's own output
or code except these.

**TaskArgs.** Texts are sequences over the four characters that something treats
specially (`_`, `,`, space, any other). The operators are those of the code; the actions
are where a list of arguments or a line meets them. The loops of the code are recursive
functions, so that they can be proved about.

**MCReader** is the disjoint union of the three: `subject` says which one runs and what is
not the subject does not move.

**QueueList.** A call on the unordered map is a window, `"in"`, open from when the thread may
make the call until it has; when two overlap and one
writes, the behaviour is undefined, and the outcomes are: as if they had not, an entry
not found, an insertion lost, the death of the server. `path` and `loop` are the queue
objects, kept alive by the list and by the threads that hold them (`obj`). Every
statement of `connectToDB` is a step with the result codes 0 (there), 1 (failed),
2 (created), and fails, too, when somebody else has the file open (`SQLITE_BUSY`).
The counter is a table, `lastID`, and its rows: `"zero"` stands at 0, `"moved"` does not, because
`AddTask` of a listed queue has moved it on. The insert of 0 is refused by a row `"zero"` only (the
primary key), so that the loser of a race to create a queue can put a second row beside the
winner's counter; `getID` and `verifyID` then refuse both. `shared` are the files that two queues
had open at once: it takes one of these. A thread that has looked a queue up uses it (`"use"`): it
starts it or adds a task. A main loop that is stopped ends or hangs (`LoopHangs`), in the join of a
reader (`reader_again`) or in the cycle of mutexes (`queue_deadlock`): who joins it then hangs, too.
`server` is where `main()` is: it opens the files (`"boot"`, with `todo`), listens, waits
for the promise (`"up"`), shuts gRPC down (`"closing"`, until the handlers are back), and then
destroys the list, declared after the server and so gone before it (`"ending"`), queue by
queue, which stops their main loops. A second signal before that, and `~Server` in any case,
set the promise again, which throws where nobody catches it: the process is gone.

**RemoteQueue.** A call is a number; `request`, `told` and `heard` are what its client
sent and got, `handler`, `queue` and `value` what its handler did. A client waits for one
call at a time, until it is answered (`Answered`), refused (`Refused`) or given up
(`GivesUp`: the deadline of `setupCtx`, or a broken channel). The handler goes on or
never starts, in its own time, since it does not look at its context. It has two steps, as
in the code: `Find` looks the queue up by its name, the second works on the queue
found, whatever is in the list by then. The operations on a queue are one step each
(`SqliteQueue` shows what is inside), and may fail; the handlers of the list are one step
(`QueueList` shows its races). `out` is what a client has read of the stream of
`listPending` when the call returns, with `ErrCode_OK` in any case. `stop`, `isRunning`,
`readCurrentOutput` and `listFinished`, which do not report failures either, are "silent":
what their client is told says nothing. `shared` are
the files that two queues had open at once: there, and only there, the counter that
`getID` read may be stale when it is advanced, for each queue has a mutex of its own.
(That lasts in both modules even when one of the two is gone: more behaviours than the
code has, not fewer.) For a `removeTask` or `clearPending`, `value` and
`heard` hold the counter at the time it was handled; only the properties read them.

The modules are composed by what they promise each other: `RemoteQueue` and `QueueList`
call a queue as `SqliteQueue` lets itself be called (each method from any thread at any
time), and `ProcReader` shows when `SqliteQueue`'s join is stuck.

History variables (`accepted`, `removed`, `cleared`, `taskOf`, `ran`, `incidents`,
`given`, `strayed`, `lateUses`, `recorded`, `disturbed`, `lost`, the `shared` of `QueueList`) are read by properties only. `incidents` names what happened that a
property excuses: `OneChild` does not speak of overlapping main loops, `DoneIsTrue` not
of a failed fork. Each exception is named in the property and is a hazard of its own.

## 3. Runs

Every bound is a CONSTANT in the `.cfg`. States are distinct ones.

| run | question | bounds | result |
|---|---|---|---|
| `queue_callers` | do the mutexes keep IDs in order and unique, tasks in one place, and removed tasks from running? | 2 callers (symmetric) adding, removing, clearing, starting and stopping; 1 loop, 2 IDs, 1 child, failing steps | pass, 894 k states |
| `queue_faults` | is the recorded exit code true, is there one child, do tasks keep their order? | 1 caller, 2 loops (stop, then start while the old loop lives), 2 IDs, 2 children; forks and set-ups fail, crashes | pass, 588 k |
| `queue_live` | does a queue finish what is pending, does a stopped one come to rest, do calls return? | 2 callers adding, asking for the current task, starting and stopping; 2 loops that may overlap, 2 IDs, 2 children; one caller from the last start on | pass, 104 k |
| `queue_ledger` | does `SqliteQueue` implement `TaskLedger`? | 1 caller, every operation, 2 starts at rest, 2 IDs, crashes, statements that cannot be prepared | pass, 251 k |
| `queue_deadlock` | the same `EveryCallReturns` with `removeTask` | 1 caller | violated |
| `queue_spares` | does a stop spare the server? | 2 callers | violated |
| `reader_two` | on either platform: is output in order and whole, are codes the tasks' own, do readers, joins, tasks and destructors end; do arguments survive? | 2 tasks, 2 chunks each, a queue of 2, on Windows 1 stop and all failures; all lines of up to 5 characters, all lists of up to 2 arguments with 5 together | pass, 124 k states |
| `reader_again` | does `start()` always get past the old reader? | 2 tasks, 1 chunk | violated |
| `list_calls` | may only sound files be called, is no queue used after its destruction, is the list that of the files? | 2 handlers, 2 names, 2 queue objects (all symmetric), a crash each time the server has come up, any statement and the listening fail, tasks are added | pass, 1.65 M |
| `list_live` | do calls that destroy queues return, does the server come up again, does it go down when told, with its queues? | 2 handlers, 1 name, 2 queue objects, 2 deaths, by crash or signal, each time the server has come up, main loops that hang | pass, 131 k |
| `list_two_loops` | is there one main loop per file? | 2 names, 1 handler | violated |
| `remote_calls` | is a call done once, before its client is told so; are IDs given once and in order; is what was removed not listed? | 1 client, 3 calls of any kind, 2 names (symmetric), 2 IDs a file, 1 death of the server | pass, 2.30 M |

`queue_ledger` has the action constraint `Serial`: only behaviours in which `start()`
makes a loop when the last one has ended. Two loops that overlap run one task twice and
break the ledger's order of states; what survives even then (`NothingLost`, `IDOrder`,
`Fifo`) is asked in the other runs and proved. Its faults leave out a delete of
`mainLoopFin` that fails after it was prepared, which would have a task finish twice; the
theorem `KeepsLedger` states both exceptions as hypotheses and takes every other fault.

*Are the bounds enough?* Two of everything that can race: two callers meet each other
and a main loop; two starts make two loops; two IDs make an order, and let the
youngest be removed while the oldest runs. A third ID or caller would repeat one of
the roles. A queue of output of two chunks overflows with the third of four. Two
consecutive tasks are what a reader can confuse; a stop may hit either, or begin in one and
end in the next. Five characters hold the delimiter of the column (`__,__`) alone, what ends in a
part of it, and two arguments that make it together. Two queue objects are one that is
replaced or renamed and its successor, or the two of a race to create one. In `queue_live`
two starts are one after the other, with a stop between them or at the same time; the action
constraint `LastStartAlone` has only one of the callers call anything from when the last of them
begins, for what the other could do beside two loops it does beside the first one. The number of
deaths of the server is bounded between two times it serves (`Listen` sets the count back), not in
all. One client is enough for `remote_calls`: the
handler of a call that it gave up acts as another client's would, and three calls are one
that is late, one that it interferes with and one that sees it. The proofs below have no
such bounds.

*Fairness.* Weak fairness of each thread's next step, which the scheduler
provides; of the end of children, in `queue_live` and the reader's runs (a task that
never ends keeps a queue busy, as it should); of a restart, in `list_live`. Nothing
is assumed of a mutex that others keep taking (`std::mutex` is not fair), of main
loops running out of tasks, of a main loop that is stuck in a join or hangs, of clients calling
anything, of anybody stopping a queue or
sending a signal; once a stop or a shutdown has begun it goes on (`MCSpec`, `FairSpec` of
`QueueList`: gRPC's `Shutdown()` waits for the handlers). The consequents say what else
may come first:

- `NoStrandedTask`: a stop; two starts at once, which end the server (`StartsCollide`); a reader that
  is never joined (`Stuck`, shown by `reader_again`); main loops that have overlapped. Of the last,
  both may pick the same row: LinuxProc refuses the second, whose `mainLoopFin` then halts
  the queue, with tasks pending and nobody having stopped it.
- `StopEnds`: a new start, a reader that is never joined, two loops that lock each other out
  (`LoopsLocked`: one has the token's mutex and waits for that of the current task, the other, in
  `mainLoopFin`, the reverse).
- `EveryCallReturns`: the same two loops, and `start()` joining an older loop that is stuck
  (`JoinsStuck`).
- `CallsReturn` and `ShutdownEnds`: a call or a destructor that waits for a main loop that hangs
  (`Hangs`). Nothing else keeps them.
- `ComesUp`: a file whose counter has no row, or two (`Unopenable`): `verifyID` turns it away each time.
- `EveryTaskEnds`: a program that exits with 259, for which the main loop waits forever.
- `JoinReturns`: a reader that has taken over the next task's descriptors.

`CHECK_DEADLOCK FALSE` is set where all bounds may be used up, or where the program
really stops (the deadlock, the reader that is never joined, the server that killed
itself, in `list_live` the main loop that hangs). `list_calls` and `list_two_loops` check for deadlock.

*What the violations show.*

1. `queue_deadlock`: `mainLoopFin` takes the mutex of the current task and then the
   token's, `removeTask` takes them in the other order. Both hang, and all later calls.
2. `queue_spares`: a stop after the start and before the first fork is
   `kill(0, SIGKILL)`, which ends the server.
3. `reader_again`: with two tasks in a row, the reader of the first adopts the
   descriptors of the second and `start()` joins it forever.
4. `list_two_loops`: a second queue on the file of a renamed one runs the same tasks.

## 4. Proofs

`SqliteQueueProofs` proves, for every number of clients, starts, IDs, children and every
set of operations and faults, that each of these holds in every behaviour of `Spec`:
`TypeOK`, `IDOrder`, `FreshIDs`, `DisjointTables`, `NothingLost`, `RemovedNeverRuns`, `Fifo`,
`OneChild` and, unless the server runs as super user, `DoneIsTrue`. (`start()` turns a super
user away before it asks anything: the task is then listed with an older code.)
The assumptions are those `SqliteQueue` names: bounds are naturals, clients are finitely
many, thread names differ, operations and faults are of the listed kinds.

None of them is inductive alone. The invariant is `TypeOK /\ LockInv /\ SlotInv /\ IDInv
/\ MoveInv /\ RemovedInv /\ NothingLost`:

- `LockInv` ties labels to mutexes: whoever is between the lock and the unlock owns the
  mutex, so that at most one thread is there; the row that was selected stays until it
  is picked.
- `IDInv` says where the counter is while an ID is being handed out: `IDOrder` and
  `FreshIDs` need that between the update of `lastID` and the insert of the row nobody
  else moves the counter. It also says that the current task is no younger than any
  row, from which `Fifo` follows.
- `SlotInv`: each start has a loop of its own, so a new thread is never one that runs.
- `MoveInv`: between the delete and the insert of `mainLoopFin` the row is in
  neither table.
- `RemovedInv`: a removed task is neither pending nor current, nor does the comparison
  in `removeTask` get stale before the delete, because picking a task takes the
  token's mutex; `RemovedNeverRuns` follows.

Most steps touch none of this. `Quiet` names the frame they leave alone, and one lemma
shows that a quiet step preserves the invariant; the steps that commit or
take a mutex have a lemma each. The lemmas on `TaskTable`'s operators (what a delete or
an insert does to the IDs and their order) come first. Action properties follow from
the invariant in the state before the step.

`OneChild` and `DoneIsTrue` have invariants of their own on top of this one.

- `OneInv`: unless main loops overlapped there is one, only the child of `m_pid` can be
  alive, and there is none when `forkpty` is called; `isRunning()` sees it (`ChildSeen`).
- `BoundInv`: IDs that calls have yet to take fit below the bound, so that `ran` is
  defined for the current task.
- `DoneInv`: while a main loop waits for a child, that child is the current task's, the only
  one, and `ran` says how it ended if it did; otherwise not even a zombie is left, hence
  a later `waitpid` cannot store an older task's status; from the last `waitpid` on,
  the code goes with the task into `done`, where the ID is not yet.

`KeepsLedger` says that `SqliteQueue` implements `TaskLedger`: `Spec /\ [][Serial /\
RowsDeleted]_vars => Ledger`, without an assumption on faults. The hypotheses speak of steps,
not of constants: main loops do not overlap (`Serial`), and no row of a finished task
stays in `pending` (`RowsDeleted`). Without either of them the code really breaks the
ledger: the task runs again. The invariant is the one above with `BoundInv`, `OneInv` and
`LedgerInv`: what a main loop has in hand was accepted and is not done, and until
`mainLoopFin` deletes its row the row is in `pending`, or somebody cleared it. Each step is then
mapped to one of the ledger or to a stutter: an insert is `Accept`, a fork `Start`, the insert
into `done` `Finish`, a crash between the two commits of `mainLoopFin` the loss of a task that
`TaskLedger` allows; the delete before it is a stutter, for a row in the move counts as waiting
(`InMove`).

`MCReaderProofs` proves `TypeOK`, `OneLateUse` and `OutputInOrder` of `ProcReader`, for every
number of tasks and chunks and every size of the queue. For the order: what was given, the
queue, the chunk in a reader's hands and the terminal, one after the other, are in line
(`ChunkOrder` has the lemmas on sequences), until a reader strays; then chunks are still
distinct. For the late use: only a reader that had a chunk in its hands when the queue was
destroyed can use it, and after that it finds the descriptors closed.

`WinReaderProofs` proves `TypeOK`, `OutputInOrder`, `WholeOutput` and `CodeIsOwn` of `WinReader` under
`ConstantsOK`, for every number of tasks, chunks and stops and all faults. The order is the argument
given for `ProcReader`, over the same lemmas: both instantiate `ChunkOrder`, one with the
terminal, the other with the pipe. `TaskInv` is the argument: as long as a task
is not disturbed, the pipe, the console and the process whose handles are there are its own;
so its reader reads its pipe, which breaks only after the child has exited and all is
read; and when the main loop has joined it nobody has a chunk in his hands (`ReaderInv`).
`FinishedInv` says that it stays so. `MCReaderProofs` carries the four over to `MCSpec`, in which the
runs check them: its steps are steps of `WinReader` or leave its variables alone, and its assumption
`WinConstants` gives `ConstantsOK`.

`TaskArgsProofs` proves `ArgsSurvive`, `ProgramGetsArgs` and `WordsOfLine` of `TaskArgs`, for lines
and arguments of any length (and, as in the runs, requests of at most two arguments without
spaces; the lemmas `SplitConcat`, `ConcatSplit` and `CommandLine`, which they follow from, are
about lists of every length). The state says little here (`ArgsInv`: what each stage has made of
the request); the work is in what the recursive functions compute. Three steps lead there:

- Induction without an operator as a parameter: a property is a set of arguments, the length is a
  function to the naturals, and a set that inherits from all shorter arguments is the whole
  (`RankInduction`, from the well-foundedness of `<`). In the same way a recursive definition
  is given by functions, which shows that there is a solution (`RankedRecursion`)
  and that the equations give its type (`RankedType`). `SplitIs`, `ConcatIs`, `WordsIs`,
  `SpacedIs` and `NonemptyIs` say by this that each function is what its definition reads.
- Places in texts: where `find` finds a delimiter, that what follows does not change it
  (`FindInFront`), and that a text is what it is cut into (`Cut`).
- Induction over lists and texts: `SplitConcat` (a list comes back exactly if it is `Clean`),
  `ConcatSplit` (a row comes back always), `WordsSpaced` (the runtime of Windows finds what is not
  empty), `WordPlaces` (where the words of a line begin).

`MCReaderProofs` carries these three over to `MCSpec`, too: the definitions of either instance are
shown equal, the recursive functions among them.

`QueueListProofs` proves `TypeOK`, `NoDanglingQueue`, `OpenedIsWhole`, `ListIsOfFiles` and
`NothingRunsOn` of `QueueList`, for any number of handlers, names, queue objects and deaths and all
faults. Its invariant has four parts: the types, with what a thread holds at each label of a
call (`TypeInv`); a queue that is being made or destroyed is one thread's own and in no
entry of the list, every other one has a file (`QueueInv`); what the codes of `connectToDB` say
of the file's tables while it is being opened (`FileInv`); where `main()` is, which threads
can be at work and which files are opened (`LifeInv`). The races on the list are in all of
them: an entry may be lost, and a queue is then nobody's (`lost`), but is never seen half made.
For the counter, `FileInv` says three things more: there is a row only with its table;
two queues on one file are recorded in `shared`, and only such a file has two rows
(`Counters`); and who is about to insert the row saw a file without one, so that only another queue
on the same file can have added it since. `OpenedIsWhole` then says what a listed queue can rely
on: all tables, a row, and one that `getID` accepts unless its file was shared.

`RemoteQueueProofs` proves, for every number of clients, names, IDs, calls and crashes and
every set of operations, that `RemoteQueue` keeps its types and implements `CallOnce`:
every step is one of `CallOnce`'s or leaves its variables alone. The mapping hides the
calls of `listPending` and the silent ones (their "OK" says nothing) and gives as `done` the status of a
handler. The invariant it rests on says that calls are made in the order of their
numbers, that a client waits for the last it made, that what is told "OK" was handled,
with the value heard, and that a handler at work has a queue.

It also proves `GivenIDs` and `ReadsOwnWrites`. The strengthening has a part for
files (rows in order, the counter ahead of them), one for each call that was done
(its ID is below the counter; what it removed is gone for good, because new rows
are at the counter or above) and one for each pair of them (the later of two calls of a
client, if the earlier had returned, has the higher ID and lists nothing of what the
earlier removed). `Kept` names what a step leaves alone of the calls done before;
one lemma carries the parts over such a step, and only the call that a handler finishes
needs an argument of its own.

Model-checked only: everything about liveness (the provers do not reach fairness and
`ENABLED`). All other properties of the passing runs are proved.

## 5. Assumptions and what is left out

- Atomics (relaxed in the code), `m_pid` and the descriptors are read and written in
  program order.
- The assignment to `m_thread` swaps the handle and joins the old thread as two steps.
- SQLite keeps what it committed; two statements on the same connection do not
  overlap (the token's mutex).
- In `SqliteQueue` one connection has the file; `QueueList` shows when there are two, and
  `GivenIDs` and `ReadsOwnWrites` except the files that had two.
- gRPC delivers a request at most once and a response only for its request; a handler
  runs late or never.
- In `RemoteQueue` the handlers of `QueueListImpl` and the methods of a queue are atomic, and
  any of them may fail instead. Nothing is claimed of what a client is told by `stop`, `isRunning`,
  `readCurrentOutput` and `listFinished`, which return the same whether the call failed or not.
- In `QueueList` `addTask` is one step, as far as the counter's row goes. Of a counter that has two
  rows only that is kept, not which they are, so a further insert of 0 may succeed or fail:
  nothing in the code gets past such a counter any more.
- Columns, paths and log messages are not modelled. Integers do not overflow (IDs are 32
  bits wide).
- In `WinReader` a handle is tested, closed and set to null in one step, so two threads never
  close one twice, and numbers of handles are not reused. A console passes on what its child
  has written and closes its end of the pipe when the child has exited.
- In `ProcReader` and `QueueList` a use of what is destroyed, and a race on the list, have the
  outcomes named there.
- Static objects of one file are destroyed in the reverse of their order, and a promise that
  is set twice throws; where nobody catches it, or in a destructor, the process ends.

Not modelled, and why:

- *Connections* (`model/dao/grpcconnect.cpp`): a channel is made and the server pinged once; what a
  broken channel does to a call is in `RemoteQueue`.
- *AccessImpl*: echoes its argument.
- *Configuration, paths, options of commands, printing*: input and output without a state
  that outlives the call.
- *The CLI's loops*: `keepRunning` is a flag that the handler of signals and `exit` clear and
  the loops read. That a blocked read of the terminal does not see it, and that the end of the
  input is not tested for (`controller/cli/args.cpp` 89), are matters of `std::getline`.
- *Exceptions that `Server::start` catches*: it ends with a message.
- *Descriptors of several queues in one process* and *the array behind `argv` in the CLI*: hazards in `PROJECT.json` that no property covers, with the reasons.
  So is output left over from older tasks being given as current (`LP` 56), which nothing in the
  code or its documents rules out; `OutputInOrder` says what holds of it.

Claims that the modules have the behaviour for, which no run states:

- an idle queue refuses to remove task 0, which is the ID of "no task" (`SQ` 878);
- a stop between two tasks kills nobody, and the next task runs while the queue says
  that it does not (`SQ` 1174);
- a task whose process could not be made is listed as finished (`SQ` 1057);
- after a rename, a client that had entered the queue works on whatever gets its old name;
- removing an ID that is yet to be given succeeds, and removes nothing.
