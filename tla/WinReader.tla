----------------------------- MODULE WinReader -----------------------------
(***************************************************************************)
(* How WinProc (model/proc/winproc.cpp), LinuxProc's counterpart, runs the *)
(* tasks of a queue one after the other: pipes and a pseudo console in the *)
(* place of a terminal, a reader thread for each task, a stop from another *)
(* thread that closes the handles which the main loop and a reader use.    *)
(*                                                                         *)
(* The names of what it shares with ProcReader are the same.  Each handle  *)
(* is known by the task it was opened for.  It is tested, closed and set   *)
(* to null in one step.  The code of a child is the number of its task,    *)
(* which is what tells the codes apart, or STILL_ACTIVE, which is a code   *)
(* like any other to a program that exits with it.                         *)
(***************************************************************************)
EXTENDS Integers, SequencesExt

CONSTANTS
    Tasks,        \* the tasks the main loop runs, 1..Tasks
    MaxChunks,    \* bound: what a child writes
    MaxQueue,     \* FF_MAX_READ_QUEUE_SIZE, at least 1
    MaxStops,     \* bound: calls of stop()
    Faults,       \* "admin", "pipe", "console", "create": that call may fail;
                  \* "active": a program may exit with STILL_ACTIVE
    None          \* a null handle, no code

T == 1..Tasks
Chunks == T \X (1..MaxChunks)
STILL_ACTIVE == -1

\* What is assumed of the constants.
ConstantsOK ==
    /\ Tasks \in Nat \ {0} /\ MaxChunks \in Nat /\ MaxQueue \in Nat \ {0} /\ MaxStops \in Nat
    /\ None \notin T \cup {0, STILL_ACTIVE}
    /\ Faults \subseteq {"admin", "pipe", "console", "create", "active"}

Handle == T \cup {None}

VARIABLES
    mainPc, task,            \* the main loop and the task it runs
    m_childStdoutRead, m_childStdoutWrite, m_procInfo, m_pseudoConsole,
    m_exitCode,
    stopPc, stops,           \* the thread that stops the queue
    child, pipe,             \* the children and what waits in their pipes
    written,                 \* how much each has written
    readerPc, reads, buf,    \* the readers: where, on whose pipe, with what
    m_deque,
    \* History variables:
    recorded,                \* the exit code of each task that is finished
    given,                   \* what readCurrentOutput returned
    disturbed, strayed       \* tasks that failed to start or met a stop; a
                             \* reader has used another task's pipe

handles == <<m_childStdoutRead, m_childStdoutWrite, m_procInfo, m_pseudoConsole>>
stopping == <<stopPc, stops>>
children == <<child, pipe, written>>
readers == <<readerPc, reads, buf>>
history == <<recorded, given, disturbed, strayed>>
vars == <<mainPc, task, handles, m_exitCode, stopping, children, readers, m_deque, history>>

Init ==
    /\ mainPc = "start" /\ task = 1
    /\ m_childStdoutRead = None /\ m_childStdoutWrite = None
    /\ m_procInfo = None /\ m_pseudoConsole = None
    /\ m_exitCode = 0
    /\ stopPc = "idle" /\ stops = 0
    /\ child = [t \in T |-> "none"]
    /\ pipe = [t \in T |-> <<>>]
    /\ written = [t \in T |-> 0]
    /\ readerPc = [t \in T |-> "none"]
    /\ reads = [t \in T |-> None]
    /\ buf = [t \in T |-> <<>>]
    /\ m_deque = <<>>
    /\ recorded = [t \in T |-> None]
    /\ given = <<>> /\ disturbed = {} /\ strayed = FALSE

-----------------------------------------------------------------------------
(* A child writes to its console, which passes it on to the pipe while it   *)
(* is open, and exits, at the latest when the console is closed.            *)

ExitCode(t) == IF child[t] = "active" THEN STILL_ACTIVE ELSE t
HasExited(t) == child[t] \in {"exited", "active"}

Write(t) ==
    /\ child[t] = "running" /\ written[t] < MaxChunks
    /\ written' = [written EXCEPT ![t] = @ + 1]
    /\ pipe' = IF m_pseudoConsole = t THEN [pipe EXCEPT ![t] = Append(@, <<t, written'[t]>>)]
                                      ELSE pipe
    /\ UNCHANGED <<mainPc, task, handles, m_exitCode, stopping, child, readers, m_deque, history>>

Exit(t) ==
    /\ child[t] = "running"
    /\ \E end \in {"exited"} \cup (Faults \cap {"active"}) : child' = [child EXCEPT ![t] = end]
    /\ UNCHANGED <<mainPc, task, handles, m_exitCode, stopping, pipe, written, readers, m_deque,
                   history>>

-----------------------------------------------------------------------------
(* Handles. *)

resetHandle ==
    /\ m_childStdoutRead' = None /\ m_childStdoutWrite' = None
    /\ m_procInfo' = None /\ m_pseudoConsole' = None

\* GetExitCodeProcess(): STILL_ACTIVE is what it says of a running process.
\* Handles outlive the process.
Active(t) == ~HasExited(t) \/ ExitCode(t) = STILL_ACTIVE

Fails(t, label) ==
    /\ disturbed' = disturbed \cup {t}
    /\ mainPc' = label

-----------------------------------------------------------------------------
(* The main loop: start(), ...  *)

\* It refuses to run as an administrator, ...
Refuse ==
    /\ mainPc = "start" /\ "admin" \in Faults
    /\ Fails(task, "fin")
    /\ UNCHANGED <<task, handles, m_exitCode, stopping, children, readers, m_deque, recorded,
                   given, strayed>>

\* ... or closes what is left of the task before.
Start ==
    /\ mainPc = "start"
    /\ resetHandle
    /\ mainPc' = "pipes"
    /\ UNCHANGED <<task, m_exitCode, stopping, children, readers, m_deque, history>>

\* CreatePipe() twice: what the first has opened stays when the second fails.
CreatePipes ==
    /\ mainPc = "pipes"
    /\ \/ /\ m_childStdoutRead' = task /\ m_childStdoutWrite' = task
          /\ mainPc' = "console" /\ UNCHANGED disturbed
       \/ /\ "pipe" \in Faults
          /\ \/ UNCHANGED <<m_childStdoutRead, m_childStdoutWrite>>
             \/ m_childStdoutRead' = task /\ m_childStdoutWrite' = task
          /\ Fails(task, "fin")
    /\ UNCHANGED <<task, m_procInfo, m_pseudoConsole, m_exitCode, stopping, children, readers,
                   m_deque, recorded, given, strayed>>

\* It fails on handles that a stop has closed.
CreatePseudoConsole ==
    /\ mainPc = "console"
    /\ \/ /\ m_childStdoutWrite # None
          /\ m_pseudoConsole' = task /\ mainPc' = "create"
          /\ UNCHANGED <<m_childStdoutRead, m_childStdoutWrite, m_procInfo, disturbed>>
       \/ /\ "console" \in Faults \/ m_childStdoutWrite = None
          /\ resetHandle /\ Fails(task, "fin")
    /\ UNCHANGED <<task, m_exitCode, stopping, children, readers, m_deque, recorded, given,
                   strayed>>

\* A stop may have closed the console; then the child's output goes nowhere.
CreateChildProcess ==
    /\ mainPc = "create"
    /\ \/ /\ child' = [child EXCEPT ![task] = "running"]
          /\ m_procInfo' = task
          /\ mainPc' = "spawn"
          /\ UNCHANGED <<m_childStdoutRead, m_childStdoutWrite, m_pseudoConsole, disturbed>>
       \/ /\ "create" \in Faults \/ m_pseudoConsole = None
          /\ resetHandle /\ Fails(task, "fin") /\ UNCHANGED child
    /\ UNCHANGED <<task, m_exitCode, stopping, pipe, written, readers, m_deque, recorded, given,
                   strayed>>

\* Only the console can write to the pipe from now on.
\* Mutant: the server keeps its end.
SpawnOnly ==
    /\ mainPc = "spawn"
    /\ m_exitCode' = STILL_ACTIVE
    /\ readerPc' = [readerPc EXCEPT ![task] = "read"]
    /\ mainPc' = "join"
    /\ UNCHANGED <<task, handles, stopping, children, reads, buf, m_deque, history>>
Spawn ==
    /\ mainPc = "spawn"
    /\ m_childStdoutWrite' = None
    /\ m_exitCode' = STILL_ACTIVE
    /\ readerPc' = [readerPc EXCEPT ![task] = "read"]
    /\ mainPc' = "join"
    /\ UNCHANGED <<task, m_childStdoutRead, m_procInfo, m_pseudoConsole, stopping, children,
                   reads, buf, m_deque, history>>

\* The assignment to m_thread joins the reader before it, if isRunning() has not.
Joinable(t) == t \in T /\ readerPc[t] \notin {"none", "ended"}
Join ==
    /\ mainPc = "join"
    /\ \A t \in T : t < task => ~Joinable(t)
    /\ mainPc' = "poll"
    /\ UNCHANGED <<task, handles, m_exitCode, stopping, children, readers, m_deque, history>>

\* ... isRunning(), once a second, which takes a stopped process for none, ...
Poll ==
    /\ mainPc = "poll"
    /\ \/ m_procInfo = None /\ mainPc' = "fin"
       \/ m_procInfo # None /\ ~Active(m_procInfo) /\ mainPc' = "reap"
    /\ UNCHANGED <<task, handles, m_exitCode, stopping, children, readers, m_deque, history>>

\* ... and waits for the reader of one that has exited, ...
\* Mutants: it does not; it does not look at the code again.
DoesNotWait(t) == FALSE
WaitsFor(t) == Joinable(t)
ReapUnread ==
    /\ mainPc = "reap" /\ ~WaitsFor(task)
    /\ mainPc' = "fin"
    /\ UNCHANGED <<task, handles, m_exitCode, stopping, children, readers, m_deque, history>>
Reap ==
    /\ mainPc = "reap" /\ ~WaitsFor(task)
    /\ m_exitCode' = ExitCode(task)
    /\ mainPc' = "fin"
    /\ UNCHANGED <<task, handles, stopping, children, readers, m_deque, history>>

\* ... exitCode(), which asks isRunning() again: mainLoopFin.
Fin ==
    /\ mainPc = "fin"
    /\ recorded' = [recorded EXCEPT ![task] = m_exitCode]
    /\ IF task < Tasks THEN task' = task + 1 /\ mainPc' = "start"
                       ELSE mainPc' = "done" /\ UNCHANGED task
    /\ UNCHANGED <<handles, m_exitCode, stopping, children, readers, m_deque, given, disturbed,
                   strayed>>

\* The destructor stops, destroys m_deque and m_mutex and joins m_thread, in this order.
\* Mutant: it does not stop.
Destroyed == mainPc \in {"destroy", "gone"}
DestroyOnly ==
    /\ mainPc = "done" /\ stopPc = "idle"
    /\ m_deque' = <<>>
    /\ mainPc' = "destroy"
    /\ UNCHANGED <<task, handles, m_exitCode, stopping, children, readers, history>>
Destroy ==
    /\ mainPc = "done" /\ stopPc = "idle"
    /\ resetHandle
    /\ m_deque' = <<>>
    /\ mainPc' = "destroy"
    /\ UNCHANGED <<task, m_exitCode, stopping, children, readers, history>>
JoinLast ==
    /\ mainPc = "destroy"
    /\ \A t \in T : ~Joinable(t)
    /\ mainPc' = "gone"
    /\ UNCHANGED <<task, handles, m_exitCode, stopping, children, readers, m_deque, history>>

Main ==
    \/ Refuse \/ Start \/ CreatePipes \/ CreatePseudoConsole \/ CreateChildProcess
    \/ Spawn \/ Join \/ Poll \/ Reap \/ Fin \/ Destroy \/ JoinLast

-----------------------------------------------------------------------------
(* stop(): first the console, then all handles. *)

StopConsole ==
    /\ stopPc = "idle" /\ stops < MaxStops /\ ~Destroyed
    /\ stops' = stops + 1
    /\ m_pseudoConsole' = None
    /\ stopPc' = "reset"
    /\ disturbed' = disturbed \cup {task}
    /\ UNCHANGED <<mainPc, task, m_childStdoutRead, m_childStdoutWrite, m_procInfo, m_exitCode,
                   children, readers, m_deque, recorded, given, strayed>>

StopReset ==
    /\ stopPc = "reset"
    /\ resetHandle
    /\ stopPc' = "idle"
    /\ disturbed' = disturbed \cup {task}
    /\ UNCHANGED <<mainPc, task, m_exitCode, stops, children, readers, m_deque, recorded, given,
                   strayed>>

-----------------------------------------------------------------------------
(* The reader r: readOutputLoop. *)

ReaderGoto(r, label) == readerPc' = [readerPc EXCEPT ![r] = label]

\* ReadFile() is called with the handle of the moment; null is an error.
ReadFile(r) ==
    /\ readerPc[r] = "read"
    /\ IF m_childStdoutRead = None
       THEN ReaderGoto(r, "ended") /\ UNCHANGED reads
       ELSE ReaderGoto(r, "reading") /\ reads' = [reads EXCEPT ![r] = m_childStdoutRead]
    /\ strayed' = (strayed \/ m_childStdoutRead \notin {r, None})
    /\ UNCHANGED <<mainPc, task, handles, m_exitCode, stopping, children, buf, m_deque, recorded,
                   given, disturbed>>

\* It returns output, ...
HasRead(r) ==
    /\ readerPc[r] = "reading" /\ pipe[reads[r]] # <<>>
    /\ buf' = [buf EXCEPT ![r] = <<Head(pipe[reads[r]])>>]
    /\ pipe' = [pipe EXCEPT ![reads[r]] = Tail(@)]
    /\ ReaderGoto(r, "push")
    /\ UNCHANGED <<mainPc, task, handles, m_exitCode, stopping, child, written, reads, m_deque,
                   history>>

\* ... or nothing, when nobody can write to the pipe any more: "pipe is closed, it
\* also means child process is exited".
Broken(t) ==
    /\ m_childStdoutWrite # t
    /\ HasExited(t) \/ m_pseudoConsole # t
BrokenPipe(r) ==
    /\ readerPc[r] = "reading" /\ pipe[reads[r]] = <<>> /\ Broken(reads[r])
    /\ ReaderGoto(r, "ended")
    /\ UNCHANGED <<mainPc, task, handles, m_exitCode, stopping, children, reads, buf, m_deque,
                   history>>

\* Under m_mutex; a full queue loses its oldest chunk, a destroyed one at best this one.
\* Mutants: it never does; the chunk goes to the wrong end.
NeverFull(q) == FALSE
Full(q) == Len(q) = MaxQueue
PushFront(q, chunk) == <<chunk>> \o q
PushBack(q, chunk) == Append(q, chunk)
Push(r) ==
    /\ readerPc[r] = "push"
    /\ m_deque' = IF Destroyed THEN m_deque
                  ELSE PushBack(IF Full(m_deque) THEN Tail(m_deque) ELSE m_deque, buf[r][1])
    /\ buf' = [buf EXCEPT ![r] = <<>>]
    /\ ReaderGoto(r, "read")
    /\ UNCHANGED <<mainPc, task, handles, m_exitCode, stopping, children, reads, history>>

Reader(r) == ReadFile(r) \/ HasRead(r) \/ BrokenPipe(r) \/ Push(r)

-----------------------------------------------------------------------------
(* readCurrentOutput, under m_mutex, takes the older half, as LinuxProc's.  *)

Taken(n) == (n + 1) \div 2
ReadCurrentOutput ==
    /\ ~Destroyed /\ m_deque # <<>>
    /\ LET n == Taken(Len(m_deque))
       IN  /\ given' = given \o SubSeq(m_deque, 1, n)
           /\ m_deque' = SubSeq(m_deque, n + 1, Len(m_deque))
    /\ UNCHANGED <<mainPc, task, handles, m_exitCode, stopping, children, readers, recorded,
                   disturbed, strayed>>

Next ==
    \/ Main
    \/ StopConsole \/ StopReset
    \/ \E t \in T : Write(t) \/ Exit(t) \/ Reader(t)
    \/ ReadCurrentOutput

Spec == Init /\ [][Next]_vars

\* Threads are scheduled, children end, nobody has to stop or to ask for output.
FairSpec ==
    /\ Spec
    /\ WF_vars(Main) /\ WF_vars(StopReset)
    /\ \A t \in T : WF_vars(Reader(t)) /\ WF_vars(Exit(t))

-----------------------------------------------------------------------------
(* Properties. *)

TypeOK ==
    /\ mainPc \in {"start", "pipes", "console", "create", "spawn", "join", "poll", "reap",
                   "fin", "done", "destroy", "gone"}
    /\ task \in T
    /\ m_childStdoutRead \in Handle /\ m_childStdoutWrite \in Handle
    /\ m_procInfo \in Handle /\ m_pseudoConsole \in Handle
    /\ m_exitCode \in T \cup {0, STILL_ACTIVE}
    /\ stopPc \in {"idle", "reset"} /\ stops \in 0..MaxStops
    /\ child \in [T -> {"none", "running", "exited", "active"}]
    /\ pipe \in [T -> Seq(Chunks)]
    /\ written \in [T -> 0..MaxChunks]
    /\ readerPc \in [T -> {"none", "read", "reading", "push", "ended"}]
    /\ reads \in [T -> Handle]
    /\ buf \in [T -> Seq(Chunks)]
    /\ m_deque \in Seq(Chunks) /\ Len(m_deque) <= MaxQueue
    /\ recorded \in [T -> T \cup {0, STILL_ACTIVE, None}]
    /\ given \in Seq(Chunks) /\ disturbed \subseteq T /\ strayed \in BOOLEAN

\* As on Linux: each chunk at most once, and those of a task in order unless a reader
\* that survived a stop reads the pipe of the next task together with its own reader.
\* (readOutputLoop, readCurrentOutput)
OutputInOrder ==
    LET out == given \o m_deque
    IN  \A i, j \in DOMAIN out :
          i < j => /\ out[i] # out[j]
                   /\ ~strayed /\ out[i][1] = out[j][1] => out[i][2] < out[j][2]

\* Unlike on Linux, whatever a child wrote has reached the queue of output when its
\* task is finished, neither left in the pipe nor in the hands of a reader, unless
\* its start failed or somebody stopped it.  (WinProc::isRunning's join)
WholeOutput ==
    \A t \in T : recorded[t] # None /\ t \notin disturbed =>
       /\ pipe[t] = <<>>
       /\ \A r \in T : buf[r] # <<>> => buf[r][1][1] # t

\* The code that is recorded for a task is its own, but for a start that failed, which
\* gets that of an older task, and a stop.  (m_exitCode is set by start() when all else
\* has succeeded, and by isRunning())
CodeIsOwn ==
    \A t \in T : recorded[t] # None /\ t \notin disturbed => recorded[t] = ExitCode(t)

\* The main loop gets past every task, whatever reader it waits for and whenever it is
\* stopped, except one whose program exits with the number that means that it runs.
\* (WinProc::start, isRunning)
EveryTaskEnds == \A t \in T : (task = t) ~> (recorded[t] # None \/ child[t] = "active")

\* The destructor's join returns, even if a reader that survived a stop is waiting on a
\* pipe whose other end only the server has.  (WinProc::~WinProc, resetHandle)
DestructorReturns == (mainPc = "destroy") ~> (mainPc = "gone")
=============================================================================
