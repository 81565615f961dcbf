----------------------------- MODULE ProcReader -----------------------------
(***************************************************************************)
(* How LinuxProc (model/proc/linuxproc.cpp) gets at the output of a child: *)
(* the main loop that forks children one after the other, the reader       *)
(* thread that start() creates for each, the descriptors they share        *)
(* without a lock, the queue of output and the thread that empties it.     *)
(*                                                                         *)
(* SqliteQueue abstracts this module: there a main loop that starts a task *)
(* while there is an older reader may never get further.  Here is when.    *)
(*                                                                         *)
(* Task t has the t-th child, terminal and epoll instance.  The operating  *)
(* system hands out the lowest free numbers, so the descriptors of one     *)
(* task have the numbers of those of the task before; only whether they    *)
(* are open and which task's they are is modelled.  A step is a system     *)
(* call, a load or store of a descriptor, or what m_mutex protects.        *)
(***************************************************************************)
EXTENDS Integers, SequencesExt

CONSTANTS
    Tasks,      \* the tasks the main loop runs, 1..Tasks
    MaxChunks,  \* bound: what a child writes
    MaxQueue,   \* STQ_MAX_READ_QUEUE_SIZE, at least 1
    None        \* a closed descriptor

ASSUME CountsAreNat == Tasks \in Nat \ {0} /\ MaxChunks \in Nat /\ MaxQueue \in Nat \ {0}
ASSUME NoneIsNoTask == None \notin 1..Tasks

T == 1..Tasks
Chunks == T \X (1..MaxChunks)

VARIABLES
    mainPc, task,           \* the main loop and the task it runs
    m_masterFD, m_epoll_fd, \* the task whose descriptor is open, or None
    child, tty,             \* the children and what waits in their terminals
    written,                \* how much each has written
    readerPc, waits, buf,   \* the readers: where, on whose epoll, with what
    m_deque,
    \* History variables:
    given,                  \* what readCurrentOutput returned
    strayed,                \* a reader has used another task's descriptors
    lateUses                \* uses of m_deque after its destruction

descriptors == <<m_masterFD, m_epoll_fd>>
children == <<child, tty, written>>
readers == <<readerPc, waits, buf>>
history == <<given, strayed, lateUses>>
vars == <<mainPc, task, descriptors, children, readers, m_deque, history>>

Init ==
    /\ mainPc = "fork" /\ task = 1
    /\ m_masterFD = None /\ m_epoll_fd = None
    /\ child = [t \in T |-> "none"]
    /\ tty = [t \in T |-> <<>>]
    /\ written = [t \in T |-> 0]
    /\ readerPc = [t \in T |-> "none"]
    /\ waits = [t \in T |-> None]
    /\ buf = [t \in T |-> <<>>]
    /\ m_deque = <<>> /\ given = <<>> /\ strayed = FALSE /\ lateUses = 0

-----------------------------------------------------------------------------
(* A child writes to its terminal and exits. *)

Write(t) ==
    /\ child[t] = "running" /\ written[t] < MaxChunks
    /\ written' = [written EXCEPT ![t] = @ + 1]
    /\ tty' = [tty EXCEPT ![t] = Append(@, <<t, written'[t]>>)]
    /\ UNCHANGED <<mainPc, task, descriptors, child, readers, m_deque, history>>

Exit(t) ==
    /\ child[t] = "running"
    /\ child' = [child EXCEPT ![t] = "exited"]
    /\ UNCHANGED <<mainPc, task, descriptors, tty, written, readers, m_deque, history>>

-----------------------------------------------------------------------------
(* The main loop: start() and, once a second, isRunning(). *)

Fork ==
    /\ mainPc = "fork"
    /\ m_masterFD' = task
    /\ child' = [child EXCEPT ![task] = "running"]
    /\ mainPc' = "epoll"
    /\ UNCHANGED <<task, m_epoll_fd, tty, written, readers, m_deque, history>>

EpollInit ==
    /\ mainPc = "epoll"
    /\ m_epoll_fd' = task
    /\ mainPc' = "spawn"
    /\ UNCHANGED <<task, m_masterFD, children, readers, m_deque, history>>

Spawn ==
    /\ mainPc = "spawn"
    /\ readerPc' = [readerPc EXCEPT ![task] = "wait"]
    /\ mainPc' = "join"
    /\ UNCHANGED <<task, descriptors, children, waits, buf, m_deque, history>>

\* The assignment to m_thread joins the reader of the task before.
Joinable(t) == t \in T /\ readerPc[t] # "ended"
Join ==
    /\ mainPc = "join"
    /\ ~Joinable(task - 1)
    /\ mainPc' = "poll"
    /\ UNCHANGED <<task, descriptors, children, readers, m_deque, history>>

\* waitpid() reaps the child, epollFin() closes the epoll instance ...
\* Mutant: it does not.
ReapOnly ==
    /\ mainPc = "poll" /\ child[task] = "exited"
    /\ child' = [child EXCEPT ![task] = "reaped"]
    /\ mainPc' = "close"
    /\ UNCHANGED <<task, descriptors, tty, written, readers, m_deque, history>>
Reap ==
    /\ mainPc = "poll" /\ child[task] = "exited"
    /\ child' = [child EXCEPT ![task] = "reaped"]
    /\ m_epoll_fd' = None
    /\ mainPc' = "close"
    /\ UNCHANGED <<task, m_masterFD, tty, written, readers, m_deque, history>>

\* ... and the terminal, with what is still in it.
Close ==
    /\ mainPc = "close"
    /\ m_masterFD' = None
    /\ tty' = [tty EXCEPT ![task] = <<>>]
    /\ IF task < Tasks THEN task' = task + 1 /\ mainPc' = "fork"
                       ELSE mainPc' = "done" /\ UNCHANGED task
    /\ UNCHANGED <<m_epoll_fd, child, written, readers, m_deque, history>>

\* When the queue is destroyed its main loop has ended.  Members die in the reverse
\* order of their declaration: m_deque and m_mutex before m_thread is joined.
\* Mutant: it does not wait for its main loop.
Destroyed == mainPc \in {"destroy", "gone"}
DestroyEarly ==
    /\ mainPc \in {"poll", "done"}
    /\ mainPc' = "destroy"
    /\ m_deque' = <<>>
    /\ UNCHANGED <<task, descriptors, children, readers, history>>
Destroy ==
    /\ mainPc = "done"
    /\ mainPc' = "destroy"
    /\ m_deque' = <<>>
    /\ UNCHANGED <<task, descriptors, children, readers, history>>
JoinLast ==
    /\ mainPc = "destroy"
    /\ ~Joinable(task)
    /\ mainPc' = "gone"
    /\ UNCHANGED <<task, descriptors, children, readers, m_deque, history>>

Main == Fork \/ EpollInit \/ Spawn \/ Join \/ Reap \/ Close \/ Destroy \/ JoinLast

-----------------------------------------------------------------------------
(* The reader r: readOutputLoop. *)

ReaderGoto(r, label) == readerPc' = [readerPc EXCEPT ![r] = label]

\* It passes m_epoll_fd to epoll_wait; -1 is EBADF, and the end.
\* Mutant: the descriptor is not looked at again.
EnterOnce(r) ==
    /\ readerPc[r] = "wait"
    /\ IF waits[r] = None /\ m_epoll_fd = None
       THEN ReaderGoto(r, "ended") /\ UNCHANGED waits
       ELSE /\ ReaderGoto(r, "waiting")
            /\ waits' = [waits EXCEPT ![r] = IF @ = None THEN m_epoll_fd ELSE @]
    /\ UNCHANGED <<mainPc, task, descriptors, children, buf, m_deque, history>>
Enter(r) ==
    /\ readerPc[r] = "wait"
    /\ IF m_epoll_fd = None
       THEN ReaderGoto(r, "ended") /\ UNCHANGED waits
       ELSE ReaderGoto(r, "waiting") /\ waits' = [waits EXCEPT ![r] = m_epoll_fd]
    /\ strayed' = (strayed \/ m_epoll_fd \notin {r, None})
    /\ UNCHANGED <<mainPc, task, descriptors, children, buf, m_deque, given, lateUses>>

\* epoll_wait reports input on the terminal ...
Ready(r) ==
    /\ readerPc[r] = "waiting"
    /\ m_masterFD = waits[r] /\ tty[m_masterFD] # <<>>
    /\ ReaderGoto(r, "check")
    /\ UNCHANGED <<mainPc, task, descriptors, children, waits, buf, m_deque, history>>

\* ... which is read if m_masterFD still has its number ...
Check(r) ==
    /\ readerPc[r] = "check"
    /\ ReaderGoto(r, IF m_masterFD = None THEN "sleep" ELSE "read")
    /\ UNCHANGED <<mainPc, task, descriptors, children, waits, buf, m_deque, history>>

\* ... or nothing, after a second, or the hang-up of an exited child at once.
Timeout(r) ==
    /\ readerPc[r] = "waiting"
    /\ ReaderGoto(r, "sleep")
    /\ UNCHANGED <<mainPc, task, descriptors, children, waits, buf, m_deque, history>>

\* read(): the output, EBADF once the terminal is closed, or EAGAIN or, after
\* an exit, EIO, and again.
Read(r) ==
    /\ readerPc[r] = "read"
    /\ \/ /\ m_masterFD = None
          /\ ReaderGoto(r, "ended")
          /\ UNCHANGED <<tty, buf>>
       \/ /\ m_masterFD # None /\ tty[m_masterFD] # <<>>
          /\ buf' = [buf EXCEPT ![r] = <<Head(tty[m_masterFD])>>]
          /\ tty' = [tty EXCEPT ![m_masterFD] = Tail(@)]
          /\ ReaderGoto(r, "push")
       \/ /\ m_masterFD # None /\ tty[m_masterFD] = <<>>
          /\ UNCHANGED <<readerPc, tty, buf>>
    /\ strayed' = (strayed \/ m_masterFD \notin {r, None})
    /\ UNCHANGED <<mainPc, task, descriptors, child, written, waits, m_deque, given, lateUses>>

\* Under m_mutex; a full queue loses its oldest chunk.  After the destruction of both
\* anything may happen; if it is not the death of the server, the chunk is lost.
\* Mutants: it never does; the chunk goes to the wrong end.
NeverFull(q) == FALSE
Full(q) == Len(q) = MaxQueue
PushFront(q, chunk) == <<chunk>> \o q
PushBack(q, chunk) == Append(q, chunk)
Push(r) ==
    /\ readerPc[r] = "push"
    /\ IF Destroyed
       THEN lateUses' = lateUses + 1 /\ UNCHANGED m_deque
       ELSE /\ m_deque' = PushBack(IF Full(m_deque) THEN Tail(m_deque) ELSE m_deque, buf[r][1])
            /\ UNCHANGED lateUses
    /\ buf' = [buf EXCEPT ![r] = <<>>]
    /\ ReaderGoto(r, "sleep")
    /\ UNCHANGED <<mainPc, task, descriptors, children, waits, given, strayed>>

Sleep(r) ==
    /\ readerPc[r] = "sleep"
    /\ ReaderGoto(r, "wait")
    /\ UNCHANGED <<mainPc, task, descriptors, children, waits, buf, m_deque, history>>

Reader(r) ==
    Enter(r) \/ Ready(r) \/ Check(r) \/ Timeout(r) \/ Read(r) \/ Push(r) \/ Sleep(r)

-----------------------------------------------------------------------------
(* readCurrentOutput, under m_mutex: the loop compares its index with the   *)
(* size of a queue that gets shorter, and leaves the younger half.          *)

Taken(n) == (n + 1) \div 2
ReadCurrentOutput ==
    /\ ~Destroyed /\ m_deque # <<>>
    /\ LET n == Taken(Len(m_deque))
       IN  /\ given' = given \o SubSeq(m_deque, 1, n)
           /\ m_deque' = SubSeq(m_deque, n + 1, Len(m_deque))
    /\ UNCHANGED <<mainPc, task, descriptors, children, readers, strayed, lateUses>>

Next ==
    \/ Main
    \/ \E t \in T : Write(t) \/ Exit(t) \/ Reader(t)
    \/ ReadCurrentOutput

Spec == Init /\ [][Next]_vars

\* Threads are scheduled, children end, nobody has to ask for output.
FairSpec ==
    /\ Spec
    /\ WF_vars(Main)
    /\ \A t \in T : WF_vars(Reader(t)) /\ WF_vars(Exit(t))

-----------------------------------------------------------------------------
(* Properties. *)

TypeOK ==
    /\ mainPc \in {"fork", "epoll", "spawn", "join", "poll", "close", "done",
                "destroy", "gone"}
    /\ task \in T
    /\ m_masterFD \in T \cup {None} /\ m_epoll_fd \in T \cup {None}
    /\ child \in [T -> {"none", "running", "exited", "reaped"}]
    /\ tty \in [T -> Seq(Chunks)]
    /\ written \in [T -> 0..MaxChunks]
    /\ readerPc \in [T -> {"none", "wait", "waiting", "check", "read", "push", "sleep",
                           "ended"}]
    /\ waits \in [T -> T \cup {None}]
    /\ buf \in [T -> Seq(Chunks)]
    /\ m_deque \in Seq(Chunks) /\ Len(m_deque) <= MaxQueue
    /\ given \in Seq(Chunks) /\ strayed \in BOOLEAN /\ lateUses \in Nat

\* Whoever asks for output gets each chunk at most once, and those of a task in
\* the order in which it wrote them, whatever was dropped in between; the order
\* is lost only when a reader slept through the closing of its descriptors and
\* woke to those of the next task.  (readOutputLoop, readCurrentOutput)
OutputInOrder ==
    LET out == given \o m_deque
    IN  \A i, j \in DOMAIN out :
          i < j => /\ out[i] # out[j]
                   /\ ~strayed /\ out[i][1] = out[j][1] => out[i][2] < out[j][2]

\* The join in start() returns, unless the reader it waits for has taken over
\* the descriptors of the new task, which only this main loop would close.
\* (LinuxProc::start, readOutputLoop)
JoinReturns == (mainPc = "join") ~> (mainPc # "join" \/ strayed)

\* A reader returns after its child has exited, whether it waits, reads or sleeps
\* when the descriptors are closed, unless a reader goes on with another task's.
\* (LinuxProc::isRunning, readOutputLoop)
ReaderEnds == \A t \in T : (child[t] = "exited") ~> (readerPc[t] = "ended" \/ strayed)

\* The destructor's join returns ...  (the order of LinuxProc's members)
DestructorReturns == (mainPc = "destroy") ~> (mainPc = "gone")

\* ... and the reader it waits for touches the destroyed queue of output for one chunk
\* at most, which it had read before its descriptors were closed, whatever it did.
\* (LinuxProc::isRunning's epollFin before the end of the main loop)
OneLateUse == lateUses <= 1

\* "pipe is closed or child process is exited": then the reader returns.
ReaderReturns == \A t \in T : (child[t] = "exited") ~> (readerPc[t] = "ended")
=============================================================================
