-------------------------- MODULE WinReaderProofs --------------------------
(***************************************************************************)
(* Theorems about WinReader, for every number of tasks, chunks and stops,  *)
(* every size of the queue of output and all faults.                       *)
(***************************************************************************)
EXTENDS WinReader, SequenceTheorems, TLAPS

-----------------------------------------------------------------------------
(* The inductive invariant. *)

\* Types: a pipe holds what its own child wrote.
Output(t) == {t} \X Nat
WinTypes ==
    /\ task \in T
    /\ child \in [T -> {"none", "running", "exited", "active"}]
    /\ written \in [T -> Nat]
    /\ readerPc \in [T -> {"none", "read", "reading", "push", "ended"}]
    /\ reads \in [T -> Handle]
    /\ buf \in [T -> Seq(T \X Nat)]
    /\ recorded \in [T -> T \cup {0, STILL_ACTIVE, None}]
    /\ m_childStdoutRead \in Handle
    /\ m_exitCode \in T \cup {0, STILL_ACTIVE}
PipeInv ==
    /\ pipe \in [T -> Seq(T \X Nat)]
    /\ \A t \in T : pipe[t] \in Seq(Output(t))

\* A task's reader exists once the task is spawned; when the main loop polls, those
\* before it are joined; only one that is about to push has a chunk in its hands.
Unspawned == {"start", "pipes", "console", "create", "spawn"}
ReaderInv ==
    \A r \in T :
      /\ r > task \/ (r = task /\ mainPc \in Unspawned) => readerPc[r] = "none"
      /\ r < task /\ mainPc \in {"poll", "reap"} => ~Joinable(r)
      /\ buf[r] # <<>> => readerPc[r] = "push"
      /\ readerPc[r] = "reading" => reads[r] \in T

\* What has yet to end has no code.
Over == {"done", "destroy", "gone"}
RecordInv ==
    \A t \in T : t > task \/ (t = task /\ mainPc \notin Over) => recorded[t] = None

\* Nothing of t is left to be read.
NothingLeft(t) == pipe[t] = <<>> /\ \A r \in T : buf[r] # <<>> => buf[r][1][1] # t

\* As long as no call failed and nobody stopped the task, the handles are its own, its
\* reader reads its pipe and ends when all is read, and its code is its child's.
TaskInv ==
    task \notin disturbed =>
      /\ mainPc \in {"console", "create", "spawn", "join", "poll", "reap"} =>
           m_childStdoutRead = task
      /\ mainPc \in {"create", "spawn", "join", "poll", "reap"} => m_pseudoConsole = task
      /\ mainPc \in {"spawn", "join", "poll"} => m_procInfo = task
      /\ mainPc \in {"join", "poll", "reap"} =>
           /\ readerPc[task] # "none"
           /\ readerPc[task] = "reading" => reads[task] = task
           /\ readerPc[task] = "ended" => pipe[task] = <<>> /\ HasExited(task)
      /\ mainPc \in {"reap", "fin"} => child[task] = "exited"
      /\ mainPc = "fin" => m_exitCode = task /\ NothingLeft(task)

\* So it is with every task that is finished.
FinishedInv ==
    \A t \in T : recorded[t] # None /\ t \notin disturbed =>
       recorded[t] = t /\ child[t] = "exited" /\ NothingLeft(t)


-----------------------------------------------------------------------------
(* Types. *)

LEMMA TypesInit == ASSUME ConstantsOK, Init PROVE WinTypes
  BY DEF ConstantsOK, Init, WinTypes, T, Handle

LEMMA TypesNext == ASSUME ConstantsOK, WinTypes, PipeInv, ReaderInv, Next PROVE WinTypes'
<1> USE DEF WinTypes
<1>1. ASSUME Main PROVE WinTypes'
  <2>1. CASE Fin
    <3>1. task' \in T
      BY <2>1 DEF ConstantsOK, Fin, T
    <3> QED  BY <2>1, <3>1 DEF Fin, handles, children, readers
  <2>2. CASE ~Fin
    <3>1. ExitCode(task) \in T \cup {0, STILL_ACTIVE}
      BY DEF ExitCode
    <3> QED
      BY <1>1, <2>2, <3>1 DEF Main, Refuse, Start, CreatePipes, CreatePseudoConsole,
         CreateChildProcess, Spawn, Join, Poll, Reap, Destroy, JoinLast, Fails, resetHandle,
         handles, children, readers, history, Handle
  <2> QED  BY <2>1, <2>2
<1>2. ASSUME StopConsole \/ StopReset PROVE WinTypes'
  BY <1>2 DEF StopConsole, StopReset, resetHandle, children, readers, Handle
<1>3. ASSUME NEW t \in T, Write(t) PROVE WinTypes'
  BY <1>3 DEF Write, handles, readers, history
<1>4. ASSUME NEW t \in T, Exit(t) PROVE WinTypes'
  BY <1>4 DEF Exit, handles, readers, history
<1>5. ASSUME NEW r \in T, ReadFile(r) \/ BrokenPipe(r) PROVE WinTypes'
  BY <1>5 DEF ReadFile, BrokenPipe, ReaderGoto, handles, children, history
<1>6. ASSUME NEW r \in T, HasRead(r) PROVE WinTypes'
  <2>1. reads[r] \in T /\ pipe[reads[r]] \in Seq(T \X Nat) /\ pipe[reads[r]] # <<>>
    BY <1>6 DEF HasRead, ReaderInv, PipeInv
  <2>2. Head(pipe[reads[r]]) \in T \X Nat
    BY <2>1
  <2>3. <<Head(pipe[reads[r]])>> \in Seq(T \X Nat)
    BY <2>2
  <2> QED  BY <1>6, <2>3 DEF HasRead, ReaderGoto, handles, history
<1>7. ASSUME NEW r \in T, Push(r) PROVE WinTypes'
  <2>1. <<>> \in Seq(T \X Nat)
    OBVIOUS
  <2> QED  BY <1>7, <2>1 DEF Push, ReaderGoto, handles, children, history
<1>8. ASSUME ReadCurrentOutput PROVE WinTypes'
  BY <1>8 DEF ReadCurrentOutput, handles, children, readers
<1> QED  BY <1>1, <1>2, <1>3, <1>4, <1>5, <1>6, <1>7, <1>8 DEF Next, Reader

\* Only a child and a reader touch a pipe.
LEMMA PipeFrame ==
    ASSUME Next
    PROVE  UNCHANGED pipe \/ \E t \in T : Write(t) \/ HasRead(t)
<1>1. Main => UNCHANGED pipe
  BY DEF Main, Refuse, Start, CreatePipes, CreatePseudoConsole, CreateChildProcess, Spawn, Join,
     Poll, Reap, Fin, Destroy, JoinLast, children
<1>2. StopConsole \/ StopReset \/ ReadCurrentOutput => UNCHANGED pipe
  BY DEF StopConsole, StopReset, ReadCurrentOutput, children
<1>3. ASSUME NEW t \in T, Exit(t) \/ ReadFile(t) \/ BrokenPipe(t) \/ Push(t) PROVE UNCHANGED pipe
  BY <1>3 DEF Exit, ReadFile, BrokenPipe, Push, children
<1> QED  BY <1>1, <1>2, <1>3 DEF Next, Reader

LEMMA PipeInit == ASSUME Init PROVE PipeInv
<1>1. <<>> \in Seq(T \X Nat) /\ \A t \in T : <<>> \in Seq(Output(t))
  OBVIOUS
<1> QED  BY <1>1 DEF Init, PipeInv

LEMMA TailOf == ASSUME NEW S, NEW q \in Seq(S), q # <<>> PROVE Tail(q) \in Seq(S)
  OBVIOUS

LEMMA PipeNext == ASSUME WinTypes, PipeInv, ReaderInv, Next PROVE PipeInv'
<1> USE DEF PipeInv
<1>1. CASE UNCHANGED pipe
  BY <1>1
<1>2. ASSUME NEW t \in T, Write(t) PROVE PipeInv'
  <2>1. written'[t] \in Nat
    BY <1>2 DEF Write, WinTypes
  <2>2. /\ Append(pipe[t], <<t, written'[t]>>) \in Seq(T \X Nat)
        /\ Append(pipe[t], <<t, written'[t]>>) \in Seq(Output(t))
    BY <2>1 DEF Output
  <2>3. pipe' \in {pipe, [pipe EXCEPT ![t] = Append(pipe[t], <<t, written'[t]>>)]}
    BY <1>2 DEF Write
  <2> QED  BY <2>2, <2>3
<1>3. ASSUME NEW r \in T, HasRead(r) PROVE PipeInv'
  <2>1. reads[r] \in T /\ pipe[reads[r]] # <<>>
    BY <1>3 DEF HasRead, ReaderInv
  <2>2. Tail(pipe[reads[r]]) \in Seq(T \X Nat) /\ Tail(pipe[reads[r]]) \in Seq(Output(reads[r]))
    BY <2>1, TailOf
  <2>3. pipe' = [pipe EXCEPT ![reads[r]] = Tail(pipe[reads[r]])]
    BY <1>3 DEF HasRead
  <2> QED  BY <2>1, <2>2, <2>3
<1> QED  BY <1>1, <1>2, <1>3, PipeFrame

-----------------------------------------------------------------------------
(* The readers and the codes of the tasks to come. *)

LEMMA ReaderInit == ASSUME Init PROVE ReaderInv
  BY DEF Init, ReaderInv

LEMMA ReaderNext == ASSUME ConstantsOK, WinTypes, PipeInv, ReaderInv, Next PROVE ReaderInv'
<1> USE DEF WinTypes, ReaderInv
<1>1. ASSUME Main PROVE ReaderInv'
  <2>1. CASE Fin
    <3>1. task' \in T /\ task' >= task /\ UNCHANGED <<readerPc, reads, buf>>
          /\ mainPc' \in {"start", "done"} /\ (mainPc' = "start" => task' > task)
          /\ mainPc = "fin" /\ (mainPc' = "done" => task' = task)
      BY <2>1 DEF ConstantsOK, Fin, T, readers
    <3> QED  BY <3>1 DEF Unspawned, T
  <2>2. CASE Spawn
    BY <2>2 DEF Spawn, Unspawned, children, T
  <2>3. CASE Join
    BY <2>3 DEF Join, Unspawned, readers, Joinable
  <2>4. CASE ~Fin /\ ~Spawn /\ ~Join
    <3>1. /\ UNCHANGED <<task, readerPc, reads, buf>>
          /\ mainPc' \in Unspawned => mainPc \in Unspawned
          /\ mainPc' \in {"poll", "reap"} => mainPc = "poll"
      BY <1>1, <2>4 DEF Main, Refuse, Start, CreatePipes, CreatePseudoConsole, CreateChildProcess,
         Poll, Reap, Destroy, JoinLast, Fails, Unspawned, readers
    <3> QED  BY <3>1 DEF Joinable
  <2> QED  BY <2>1, <2>2, <2>3, <2>4
<1>2. ASSUME UNCHANGED <<mainPc, task, readerPc, reads, buf>> PROVE ReaderInv'
  BY <1>2 DEF Joinable
<1>3. ASSUME StopConsole \/ StopReset \/ ReadCurrentOutput PROVE ReaderInv'
  BY <1>2, <1>3 DEF StopConsole, StopReset, ReadCurrentOutput, readers
<1>4. ASSUME NEW t \in T, Write(t) \/ Exit(t) PROVE ReaderInv'
  BY <1>2, <1>4 DEF Write, Exit, readers
<1>5. ASSUME NEW r \in T, Reader(r) PROVE ReaderInv'
  <2>1. UNCHANGED <<mainPc, task>> /\ Joinable(r) /\ readerPc[r] # "none"
    BY <1>5 DEF Reader, ReadFile, HasRead, BrokenPipe, Push, Joinable
  <2>2. \A q \in T \ {r} : readerPc'[q] = readerPc[q] /\ reads'[q] = reads[q] /\ buf'[q] = buf[q]
    BY <1>5 DEF Reader, ReadFile, HasRead, BrokenPipe, Push, ReaderGoto
  <2>3. /\ buf'[r] # <<>> => readerPc'[r] = "push"
        /\ readerPc'[r] = "reading" => reads'[r] \in T
    BY <1>5 DEF Reader, ReadFile, HasRead, BrokenPipe, Push, ReaderGoto, Handle
  <2> QED  BY <2>1, <2>2, <2>3 DEF Joinable
<1> QED  BY <1>1, <1>3, <1>4, <1>5 DEF Next

LEMMA RecordInit == ASSUME Init PROVE RecordInv
  BY DEF Init, RecordInv

LEMMA RecordNext == ASSUME ConstantsOK, WinTypes, RecordInv, Next PROVE RecordInv'
<1> USE DEF WinTypes, RecordInv, Over
<1>1. ASSUME Main PROVE RecordInv'
  <2>1. CASE Fin
    <3>1. mainPc = "fin" /\ recorded' = [recorded EXCEPT ![task] = m_exitCode]
      BY <2>1 DEF Fin
    <3>2. \/ mainPc' = "start" /\ task' = task + 1
          \/ mainPc' = "done" /\ task' = task
      BY <2>1 DEF Fin
    <3>3. ASSUME NEW t \in T, t > task' \/ (t = task' /\ mainPc' # "done")
          PROVE  recorded'[t] = None
      <4>1. t > task
        BY <3>2, <3>3 DEF T
      <4> QED  BY <3>1, <4>1 DEF T
    <3> QED  BY <3>3
  <2>2. CASE ~Fin
    <3>1. UNCHANGED <<task, recorded>> /\ (mainPc \in Over => mainPc' \in Over)
      BY <1>1, <2>2 DEF Main, Refuse, Start, CreatePipes, CreatePseudoConsole, CreateChildProcess,
         Spawn, Join, Poll, Reap, Destroy, JoinLast, Fails, history
    <3> QED  BY <3>1
  <2> QED  BY <2>1, <2>2
<1>2. ASSUME ~Main PROVE RecordInv'
  <2>1. UNCHANGED <<mainPc, task, recorded>>
    BY <1>2 DEF Next, StopConsole, StopReset, ReadCurrentOutput, Write, Exit, Reader, ReadFile,
       HasRead, BrokenPipe, Push, history
  <2> QED  BY <2>1
<1> QED  BY <1>1, <1>2

-----------------------------------------------------------------------------
(* The task in hand and the finished ones. *)

\* What no step undoes.
LEMMA DisturbedGrows == ASSUME Next PROVE disturbed \subseteq disturbed'
<1>1. Main => disturbed \subseteq disturbed'
  BY DEF Main, Refuse, Start, CreatePipes, CreatePseudoConsole, CreateChildProcess, Spawn, Join,
     Poll, Reap, Fin, Destroy, JoinLast, Fails, history
<1>2. ~Main => disturbed \subseteq disturbed'
  BY DEF Next, StopConsole, StopReset, ReadCurrentOutput, Write, Exit, Reader, ReadFile, HasRead,
     BrokenPipe, Push, history
<1> QED  BY <1>1, <1>2

\* A program that has exited has.
LEMMA ExitedStays ==
    ASSUME WinTypes, Next, NEW t \in T, HasExited(t), t # task \/ mainPc # "create"
    PROVE  child'[t] = child[t]
<1>1. Main => child'[t] = child[t]
  BY DEF WinTypes, Main, Refuse, Start, CreatePipes, CreatePseudoConsole, CreateChildProcess,
     Spawn, Join, Poll, Reap, Fin, Destroy, JoinLast, children
<1>2. ASSUME NEW u \in T, Exit(u) PROVE child'[t] = child[t]
  BY <1>2 DEF Exit, HasExited, WinTypes
<1>3. ASSUME NEW u \in T, Write(u) \/ Reader(u) PROVE child'[t] = child[t]
  BY <1>3 DEF Write, Reader, ReadFile, HasRead, BrokenPipe, Push, children
<1>4. StopConsole \/ StopReset \/ ReadCurrentOutput => child'[t] = child[t]
  BY DEF StopConsole, StopReset, ReadCurrentOutput, children
<1> QED  BY <1>1, <1>2, <1>3, <1>4 DEF Next

\* Nobody reads what is not there, and a pipe stays empty once its child has exited.
LEMMA EmptyStays ==
    ASSUME WinTypes, PipeInv, ReaderInv, Next, NEW t \in T, HasExited(t), pipe[t] = <<>>
    PROVE  pipe'[t] = <<>>
<1>1. ASSUME NEW u \in T, Write(u) PROVE pipe'[t] = <<>>
  BY <1>1 DEF Write, HasExited, PipeInv
<1>2. ASSUME NEW r \in T, HasRead(r) PROVE pipe'[t] = <<>>
  BY <1>2 DEF HasRead, ReaderInv, PipeInv
<1> QED  BY <1>1, <1>2, PipeFrame

LEMMA NothingComes ==
    ASSUME WinTypes, PipeInv, ReaderInv, Next, NEW t \in T, HasExited(t), NothingLeft(t)
    PROVE  NothingLeft(t)'
<1>1. pipe'[t] = <<>>
  BY EmptyStays DEF NothingLeft
<1>2. ASSUME NEW r \in T, HasRead(r), NEW q \in T, buf'[q] # <<>> PROVE buf'[q][1][1] # t
  <2>1. CASE q = r
    <3>1. PICK u \in T : u = reads[r]
      BY <1>2 DEF HasRead, ReaderInv
    <3>2. u # t /\ pipe[u] \in Seq(Output(u)) /\ pipe[u] # <<>>
      BY <1>2, <3>1 DEF HasRead, NothingLeft, PipeInv
    <3>3. Head(pipe[u]) \in Output(u)
      BY <3>2
    <3>4. Head(pipe[u])[1] = u
      BY <3>3 DEF Output
    <3>5. buf'[r] = <<Head(pipe[u])>>
      BY <1>2, <3>1 DEF HasRead, WinTypes
    <3> QED  BY <2>1, <3>2, <3>4, <3>5
  <2>2. CASE q # r
    BY <1>2, <2>2 DEF HasRead, NothingLeft, WinTypes
  <2> QED  BY <2>1, <2>2
<1>3. ASSUME NEW r \in T, Push(r), NEW q \in T, buf'[q] # <<>> PROVE buf'[q][1][1] # t
  BY <1>3 DEF Push, NothingLeft, WinTypes
<1>4. UNCHANGED buf \/ \E r \in T : HasRead(r) \/ Push(r)
  <2>1. Main => UNCHANGED buf
    BY DEF Main, Refuse, Start, CreatePipes, CreatePseudoConsole, CreateChildProcess, Spawn, Join,
       Poll, Reap, Fin, Destroy, JoinLast, readers
  <2>2. ~Main => UNCHANGED buf \/ \E r \in T : HasRead(r) \/ Push(r)
    BY DEF Next, StopConsole, StopReset, ReadCurrentOutput, Write, Exit, Reader, ReadFile,
       BrokenPipe, readers
  <2> QED  BY <2>1, <2>2
<1>5. \A q \in T : buf'[q] # <<>> => buf'[q][1][1] # t
  BY <1>2, <1>3, <1>4 DEF NothingLeft
<1> QED  BY <1>1, <1>5 DEF NothingLeft

LEMMA TaskInit == ASSUME Init PROVE TaskInv
  BY DEF Init, TaskInv

LEMMA TaskMain ==
    ASSUME ConstantsOK, WinTypes, PipeInv, ReaderInv, TaskInv, Main, task \notin disturbed'
    PROVE  TaskInv'
<1> USE DEF WinTypes
<1>1. task \notin disturbed /\ task # None /\ task # STILL_ACTIVE
  <2>1. task \notin disturbed
    BY DisturbedGrows DEF Next
  <2> QED  BY <2>1 DEF ConstantsOK, T, STILL_ACTIVE
<1>2. CASE Start \/ Fin \/ Destroy \/ JoinLast
  <2>1. mainPc' \in {"pipes", "start", "done", "destroy", "gone"}
    BY <1>2 DEF Start, Fin, Destroy, JoinLast
  <2> QED  BY <2>1 DEF TaskInv
<1>3. CASE Refuse
  BY <1>3 DEF Refuse, Fails
<1>4. CASE CreatePipes
  <2>1. mainPc' = "console" /\ m_childStdoutRead' = task /\ task' = task
    BY <1>4 DEF CreatePipes, Fails
  <2> QED  BY <2>1 DEF TaskInv
<1>5. CASE CreatePseudoConsole
  <2>1. /\ mainPc = "console" /\ mainPc' = "create" /\ m_pseudoConsole' = task
        /\ UNCHANGED <<task, m_childStdoutRead>>
    BY <1>5 DEF CreatePseudoConsole, Fails
  <2> QED  BY <1>1, <2>1 DEF TaskInv
<1>6. CASE CreateChildProcess
  <2>1. /\ mainPc = "create" /\ mainPc' = "spawn" /\ m_procInfo' = task
        /\ UNCHANGED <<task, m_childStdoutRead, m_pseudoConsole>>
    BY <1>6 DEF CreateChildProcess, Fails
  <2> QED  BY <1>1, <2>1 DEF TaskInv
<1>7. CASE Spawn
  <2>1. /\ mainPc = "spawn" /\ mainPc' = "join" /\ readerPc'[task] = "read"
        /\ UNCHANGED <<task, m_childStdoutRead, m_pseudoConsole, m_procInfo>>
    BY <1>7 DEF Spawn
  <2> QED  BY <1>1, <2>1 DEF TaskInv
<1>8. CASE Join
  <2>1. /\ mainPc = "join" /\ mainPc' = "poll"
        /\ UNCHANGED <<task, m_childStdoutRead, m_pseudoConsole, m_procInfo, child, pipe,
                       readerPc, reads>>
    BY <1>8 DEF Join, handles, children, readers
  <2> QED  BY <1>1, <2>1 DEF TaskInv, HasExited
<1>9. CASE Poll
  <2>1. mainPc = "poll" /\ m_procInfo = task
    BY <1>1, <1>9 DEF Poll, TaskInv
  <2>2. /\ mainPc' = "reap" /\ ~Active(task)
        /\ UNCHANGED <<task, m_childStdoutRead, m_pseudoConsole, child, pipe, readerPc, reads>>
    BY <1>1, <1>9, <2>1 DEF Poll, handles, children, readers
  <2>3. child[task] = "exited"
    BY <2>2 DEF Active, HasExited, ExitCode
  <2> QED  BY <1>1, <2>1, <2>2, <2>3 DEF TaskInv, HasExited
<1>10. CASE Reap
  <2>1. /\ mainPc = "reap" /\ mainPc' = "fin" /\ ~Joinable(task) /\ m_exitCode' = ExitCode(task)
        /\ UNCHANGED <<task, child, pipe, buf>>
    BY <1>10 DEF Reap, WaitsFor, children, readers
  <2>2. child[task] = "exited" /\ readerPc[task] # "none"
    BY <1>1, <2>1 DEF TaskInv
  <2>3. pipe[task] = <<>>
    BY <1>1, <2>1, <2>2 DEF TaskInv, Joinable
  <2>4. \A r \in T : buf[r] = <<>>
    <3>1. \A r \in T : r < task \/ r = task \/ r > task
      BY DEF T
    <3>2. \A r \in T : readerPc[r] # "push"
      BY <2>1, <3>1 DEF ReaderInv, Joinable
    <3> QED  BY <3>2 DEF ReaderInv
  <2>5. m_exitCode' = task
    BY <2>1, <2>2 DEF ExitCode
  <2> QED  BY <2>1, <2>2, <2>3, <2>4, <2>5 DEF TaskInv, NothingLeft
<1> QED
  BY <1>2, <1>3, <1>4, <1>5, <1>6, <1>7, <1>8, <1>9, <1>10 DEF Main

\* The steps of the children and the readers.
LEMMA TaskOthers ==
    ASSUME ConstantsOK, WinTypes, PipeInv, ReaderInv, TaskInv, Next, ~Main,
           task \notin disturbed'
    PROVE  TaskInv'
<1> USE DEF WinTypes
<1>1. ~StopConsole /\ ~StopReset
  BY DEF StopConsole, StopReset
<1>2. UNCHANGED <<mainPc, task, handles, m_exitCode>> /\ task \notin disturbed
  <2>1. UNCHANGED <<mainPc, task, handles, m_exitCode>>
    BY <1>1 DEF Next, ReadCurrentOutput, Write, Exit, Reader, ReadFile, HasRead, BrokenPipe, Push
  <2> QED  BY <2>1, DisturbedGrows
<1>3. PICK k \in T : k = task
  OBVIOUS
<1>4. mainPc \in {"reap", "fin"} => child[k] = "exited" /\ child'[k] = "exited"
  <2>1. mainPc \in {"reap", "fin"} => child[k] = "exited"
    BY <1>2, <1>3 DEF TaskInv
  <2> QED  BY <2>1, ExitedStays DEF HasExited
<1>5. mainPc = "fin" => NothingLeft(k)'
  BY <1>2, <1>3, <1>4, NothingComes DEF TaskInv, HasExited
<1>6. ASSUME mainPc \in {"join", "poll", "reap"}
      PROVE  /\ readerPc'[k] # "none"
             /\ readerPc'[k] = "reading" => reads'[k] = k
             /\ readerPc'[k] = "ended" => pipe'[k] = <<>> /\ HasExited(k)'
  <2>1. /\ readerPc[k] # "none" /\ (readerPc[k] = "reading" => reads[k] = k)
        /\ readerPc[k] = "ended" => pipe[k] = <<>> /\ HasExited(k)
        /\ m_childStdoutRead = k /\ m_pseudoConsole = k /\ k # None
    BY <1>2, <1>3, <1>6 DEF TaskInv, ConstantsOK
  <2>2. CASE readerPc[k] = "ended"
    <3>1. pipe'[k] = <<>> /\ child'[k] = child[k]
      BY <1>6, <2>1, <2>2, EmptyStays, ExitedStays
    <3>2. readerPc'[k] = "ended"
      BY <1>1, <2>2 DEF Next, ReadCurrentOutput, Write, Exit, Reader, ReadFile, HasRead,
         BrokenPipe, Push, ReaderGoto, readers
    <3> QED  BY <2>1, <2>2, <3>1, <3>2 DEF HasExited
  <2>3. CASE readerPc[k] # "ended" /\ readerPc'[k] = readerPc[k] /\ reads'[k] = reads[k]
    BY <2>1, <2>3
  <2>4. CASE ReadFile(k)
    <3>1. readerPc'[k] = "reading" /\ reads'[k] = k
      BY <2>1, <2>4 DEF ReadFile, ReaderGoto
    <3> QED  BY <3>1
  <2>5. CASE HasRead(k) \/ Push(k)
    BY <2>5 DEF HasRead, Push, ReaderGoto
  <2>6. CASE BrokenPipe(k)
    <3>1. /\ pipe[k] = <<>> /\ HasExited(k) /\ readerPc'[k] = "ended"
          /\ UNCHANGED <<pipe, child>>
      BY <2>1, <2>6 DEF BrokenPipe, Broken, ReaderGoto, children
    <3> QED  BY <3>1 DEF HasExited
  <2>7. \/ readerPc'[k] = readerPc[k] /\ reads'[k] = reads[k]
        \/ ReadFile(k) \/ HasRead(k) \/ Push(k) \/ BrokenPipe(k)
    <3>1. ASSUME NEW r \in T \ {k}, Reader(r)
          PROVE  readerPc'[k] = readerPc[k] /\ reads'[k] = reads[k]
      BY <3>1 DEF Reader, ReadFile, HasRead, BrokenPipe, Push, ReaderGoto
    <3>2. ASSUME NEW r \in T, Write(r) \/ Exit(r) \/ ReadCurrentOutput
          PROVE  readerPc'[k] = readerPc[k] /\ reads'[k] = reads[k]
      BY <3>2 DEF Write, Exit, ReadCurrentOutput, readers
    <3> QED  BY <1>1, <3>1, <3>2 DEF Next, Reader
  <2> QED  BY <2>2, <2>3, <2>4, <2>5, <2>6, <2>7
<1>7. /\ mainPc' = mainPc /\ task' = k
      /\ UNCHANGED <<m_childStdoutRead, m_pseudoConsole, m_procInfo, m_exitCode>>
  BY <1>2, <1>3 DEF handles
<1>8. /\ mainPc \in {"console", "create", "spawn", "join", "poll", "reap"} =>
           m_childStdoutRead = k
      /\ mainPc \in {"create", "spawn", "join", "poll", "reap"} => m_pseudoConsole = k
      /\ mainPc \in {"spawn", "join", "poll"} => m_procInfo = k
      /\ mainPc = "fin" => m_exitCode = k
  BY <1>2, <1>3 DEF TaskInv
<1> QED  BY <1>4, <1>5, <1>6, <1>7, <1>8 DEF TaskInv, NothingLeft, HasExited

LEMMA TaskNext ==
    ASSUME ConstantsOK, WinTypes, PipeInv, ReaderInv, TaskInv, Next
    PROVE  TaskInv'
<1>1. CASE Fin
  BY <1>1 DEF Fin, TaskInv
<1>2. CASE ~Fin
  <2>1. task' = task
    BY <1>2 DEF Next, Main, Refuse, Start, CreatePipes, CreatePseudoConsole, CreateChildProcess,
       Spawn, Join, Poll, Reap, Destroy, JoinLast, StopConsole, StopReset, ReadCurrentOutput,
       Write, Exit, Reader, ReadFile, HasRead, BrokenPipe, Push
  <2>2. task \in disturbed' => TaskInv'
    BY <2>1 DEF TaskInv
  <2> QED  BY <2>2, TaskMain, TaskOthers
<1> QED  BY <1>1, <1>2

LEMMA FinishedInit == ASSUME Init PROVE FinishedInv
  BY DEF Init, FinishedInv

LEMMA FinishedNext ==
    ASSUME ConstantsOK, WinTypes, PipeInv, ReaderInv, RecordInv, TaskInv, FinishedInv, Next
    PROVE  FinishedInv'
<1> USE DEF WinTypes
<1> SUFFICES ASSUME NEW t \in T, recorded'[t] # None, t \notin disturbed'
             PROVE  recorded'[t] = t /\ child'[t] = "exited" /\ NothingLeft(t)'
  BY DEF FinishedInv
<1>1. t \notin disturbed
  BY DisturbedGrows
<1>2. CASE Fin /\ t = task
  <2>1. /\ mainPc = "fin" /\ recorded'[t] = m_exitCode /\ UNCHANGED child
    BY <1>2 DEF Fin, children
  <2>2. m_exitCode = t /\ child[t] = "exited" /\ NothingLeft(t)
    BY <1>1, <1>2, <2>1 DEF TaskInv
  <2>3. NothingLeft(t)'
    BY <2>2, NothingComes DEF HasExited
  <2> QED  BY <2>1, <2>2, <2>3
<1>3. CASE ~(Fin /\ t = task)
  <2>1. recorded'[t] = recorded[t]
    <3>1. Main => recorded'[t] = recorded[t]
      BY <1>3 DEF Main, Refuse, Start, CreatePipes, CreatePseudoConsole, CreateChildProcess,
         Spawn, Join, Poll, Reap, Fin, Destroy, JoinLast, Fails, history
    <3>2. ~Main => recorded'[t] = recorded[t]
      BY DEF Next, StopConsole, StopReset, ReadCurrentOutput, Write, Exit, Reader, ReadFile,
         HasRead, BrokenPipe, Push, history
    <3> QED  BY <3>1, <3>2
  <2>2. recorded[t] = t /\ child[t] = "exited" /\ NothingLeft(t)
    BY <1>1, <2>1 DEF FinishedInv
  <2>3. t # task \/ mainPc # "create"
    BY <2>1 DEF RecordInv, Over
  <2> QED  BY <2>1, <2>2, <2>3, ExitedStays, NothingComes DEF HasExited
<1> QED  BY <1>2, <1>3

-----------------------------------------------------------------------------
(* The types in full, and what is in a reader's hands. *)

\* A reader that is about to push has a chunk; one that reads another task's pipe has
\* strayed.
HandInv ==
    \A r \in T :
      /\ readerPc[r] = "push" => buf[r] # <<>>
      /\ readerPc[r] = "reading" => reads[r] = r \/ strayed

\* The main loop, the stopping thread and the handles.
PlaceTypes ==
    /\ mainPc \in {"start", "pipes", "console", "create", "spawn", "join", "poll", "reap",
                   "fin", "done", "destroy", "gone"}
    /\ m_childStdoutWrite \in Handle /\ m_procInfo \in Handle /\ m_pseudoConsole \in Handle
    /\ stopPc \in {"idle", "reset"} /\ stops \in 0..MaxStops
    /\ disturbed \subseteq T /\ strayed \in BOOLEAN

\* The chunks.
ChunkTypes ==
    /\ pipe \in [T -> Seq(Chunks)]
    /\ written \in [T -> 0..MaxChunks]
    /\ buf \in [T -> Seq(Chunks)]
    /\ m_deque \in Seq(Chunks) /\ Len(m_deque) <= MaxQueue
    /\ given \in Seq(Chunks)

LEMMA PartsOfType == WinTypes /\ PlaceTypes /\ ChunkTypes => TypeOK
  BY DEF WinTypes, PlaceTypes, ChunkTypes, TypeOK

LEMMA PlaceInit == ASSUME ConstantsOK, Init PROVE PlaceTypes
<1>1. stops \in 0..MaxStops /\ disturbed \subseteq T /\ strayed \in BOOLEAN
  <2>1. stops = 0 /\ disturbed = {} /\ strayed = FALSE
    BY DEF Init
  <2>2. MaxStops \in Nat
    BY DEF ConstantsOK
  <2>3. stops \in 0..MaxStops
    BY <2>1, <2>2
  <2>4. disturbed \subseteq T /\ strayed \in BOOLEAN
    BY <2>1
  <2> QED  BY <2>3, <2>4
<1> QED  BY <1>1 DEF Init, PlaceTypes, Handle

LEMMA PlaceNext == ASSUME ConstantsOK, WinTypes, PlaceTypes, Next PROVE PlaceTypes'
<1> USE DEF WinTypes, PlaceTypes, Handle
<1>1. ASSUME Main PROVE PlaceTypes'
  <2>1. CASE Refuse \/ Start \/ CreatePipes \/ CreatePseudoConsole \/ CreateChildProcess
    BY <2>1 DEF Refuse, Start, CreatePipes, CreatePseudoConsole, CreateChildProcess, Fails,
       resetHandle, handles, stopping, history
  <2>2. CASE Spawn \/ Join \/ Poll \/ Reap \/ Fin \/ Destroy \/ JoinLast
    BY <2>2 DEF Spawn, Join, Poll, Reap, Fin, Destroy, JoinLast, resetHandle, handles, stopping,
       history
  <2> QED  BY <1>1, <2>1, <2>2 DEF Main
<1>2. ASSUME StopConsole \/ StopReset PROVE PlaceTypes'
  <2>1. CASE StopConsole
    <3>1. stops' \in 0..MaxStops
      BY <2>1 DEF ConstantsOK, StopConsole
    <3> QED  BY <2>1, <3>1 DEF StopConsole
  <2>2. CASE StopReset
    BY <2>2 DEF StopReset, resetHandle
  <2> QED  BY <1>2, <2>1, <2>2
<1>3. ASSUME NEW t \in T, Write(t) \/ Exit(t) \/ Reader(t) PROVE PlaceTypes'
  BY <1>3 DEF Write, Exit, Reader, ReadFile, HasRead, BrokenPipe, Push, handles, stopping, history
<1>4. ASSUME ReadCurrentOutput PROVE PlaceTypes'
  BY <1>4 DEF ReadCurrentOutput, handles, stopping
<1> QED  BY <1>1, <1>2, <1>3, <1>4 DEF Next

LEMMA HandInit == ASSUME Init PROVE HandInv
  BY DEF Init, HandInv

LEMMA HandNext == ASSUME ConstantsOK, WinTypes, HandInv, Next PROVE HandInv'
<1> USE DEF WinTypes, HandInv
<1>1. ASSUME Main PROVE HandInv'
  <2>1. CASE Spawn
    BY <2>1 DEF Spawn, history
  <2>2. CASE ~Spawn
    <3>1. UNCHANGED <<readerPc, reads, buf, strayed>>
      BY <1>1, <2>2 DEF Main, Refuse, Start, CreatePipes, CreatePseudoConsole, CreateChildProcess,
         Join, Poll, Reap, Fin, Destroy, JoinLast, readers, history
    <3> QED  BY <3>1
  <2> QED  BY <2>1, <2>2
<1>2. ASSUME ~Main, \A r \in T : ~Reader(r) PROVE HandInv'
  <2>1. UNCHANGED <<readerPc, reads, buf, strayed>>
    BY <1>2 DEF Next, StopConsole, StopReset, ReadCurrentOutput, Write, Exit, readers, history
  <2> QED  BY <2>1
<1>3. ASSUME NEW r \in T, Reader(r) PROVE HandInv'
  <2>1. CASE ReadFile(r)
    <3>1. (strayed => strayed') /\ (m_childStdoutRead \notin {r, None} => strayed')
      BY <2>1 DEF ReadFile
    <3>2. /\ \A q \in T \ {r} : readerPc'[q] = readerPc[q] /\ reads'[q] = reads[q]
          /\ UNCHANGED buf
      BY <2>1 DEF ReadFile, ReaderGoto
    <3>3. /\ readerPc'[r] # "push"
          /\ readerPc'[r] = "reading" => reads'[r] = m_childStdoutRead /\ m_childStdoutRead # None
      BY <2>1 DEF ReadFile, ReaderGoto
    <3> QED  BY <3>1, <3>2, <3>3
  <2>2. CASE HasRead(r)
    BY <2>2 DEF HasRead, ReaderGoto, history
  <2>3. CASE BrokenPipe(r)
    BY <2>3 DEF BrokenPipe, ReaderGoto, history
  <2>4. CASE Push(r)
    BY <2>4 DEF Push, ReaderGoto, history
  <2> QED  BY <1>3, <2>1, <2>2, <2>3, <2>4 DEF Reader
<1> QED  BY <1>1, <1>2, <1>3

-----------------------------------------------------------------------------
(* The way of the chunks. *)

Flow == INSTANCE ChunkOrder

\* A step that moves no chunk but may lose some; a child may write to no console.
Still ==
    /\ \A t \in T : written'[t] \in 0..MaxChunks /\ written[t] <= written'[t]
    /\ written' \in [T -> 0..MaxChunks]
    /\ UNCHANGED <<given, pipe, buf>> /\ m_deque' \in {m_deque, <<>>}
    /\ strayed => strayed'

\* A step of the chunks: one is written, read, pushed, or some are given.
LEMMA ChunkSteps ==
    ASSUME ConstantsOK, WinTypes, PlaceTypes, ChunkTypes, ReaderInv, HandInv, Next
    PROVE  \/ Still
           \/ \E t \in T : Flow!NewChunk(t)
           \/ \E r, m \in T :
                /\ pipe[m] # <<>>
                /\ buf' = [buf EXCEPT ![r] = <<Head(pipe[m])>>]
                /\ pipe' = [pipe EXCEPT ![m] = Tail(pipe[m])]
                /\ strayed' = (strayed \/ m # r)
                /\ UNCHANGED <<written, given, m_deque>>
           \/ \E r \in T :
                /\ buf[r] # <<>> /\ buf' = [buf EXCEPT ![r] = <<>>]
                /\ m_deque' = PushBack(IF Full(m_deque) THEN Tail(m_deque) ELSE m_deque, buf[r][1])
                /\ UNCHANGED <<written, given, pipe, strayed>>
           \/ \E r \in T : /\ buf' = [buf EXCEPT ![r] = <<>>]
                           /\ UNCHANGED <<written, given, pipe, m_deque, strayed>>
           \/ /\ m_deque # <<>>
              /\ given' = given \o SubSeq(m_deque, 1, Taken(Len(m_deque)))
              /\ m_deque' = SubSeq(m_deque, Taken(Len(m_deque)) + 1, Len(m_deque))
              /\ UNCHANGED <<written, buf, pipe, strayed>>
<1>1. ASSUME UNCHANGED <<written, given, pipe, buf>>, m_deque' \in {m_deque, <<>>},
             strayed => strayed'
      PROVE  Still
  BY <1>1 DEF Still, ChunkTypes, ConstantsOK
<1>2. Main => Still
  <2>1. ASSUME Main PROVE /\ UNCHANGED <<written, given, pipe, buf, strayed>>
                          /\ m_deque' \in {m_deque, <<>>}
    BY <2>1 DEF Main, Refuse, Start, CreatePipes, CreatePseudoConsole, CreateChildProcess, Spawn,
       Join, Poll, Reap, Fin, Destroy, JoinLast, children, readers, history
  <2> QED  BY <1>1, <2>1
<1>3. StopConsole \/ StopReset => Still
  BY <1>1 DEF StopConsole, StopReset, children, readers
<1>4. ASSUME NEW t \in T, Exit(t) \/ ReadFile(t) \/ BrokenPipe(t) PROVE Still
  BY <1>1, <1>4 DEF Exit, ReadFile, BrokenPipe, children, readers, history
<1>5. ASSUME NEW t \in T, Write(t) PROVE Still \/ Flow!NewChunk(t)
  <2>1. /\ written[t] < MaxChunks /\ written' = [written EXCEPT ![t] = @ + 1]
        /\ UNCHANGED <<given, m_deque, buf, strayed>>
    BY <1>5 DEF Write, readers, history
  <2>2. CASE pipe' = pipe
    BY <2>1, <2>2 DEF Still, ChunkTypes, ConstantsOK
  <2>3. CASE pipe' # pipe
    <3>1. pipe' = [pipe EXCEPT ![t] = Append(@, <<t, written'[t]>>)]
      BY <1>5, <2>3 DEF Write
    <3> QED  BY <2>1, <3>1 DEF Flow!NewChunk
  <2> QED  BY <2>2, <2>3
<1>6. ASSUME NEW r \in T, HasRead(r)
      PROVE  \E m \in T :
                /\ pipe[m] # <<>>
                /\ buf' = [buf EXCEPT ![r] = <<Head(pipe[m])>>]
                /\ pipe' = [pipe EXCEPT ![m] = Tail(pipe[m])]
                /\ strayed' = (strayed \/ m # r)
                /\ UNCHANGED <<written, given, m_deque>>
  <2>1. PICK m \in T : m = reads[r]
    BY <1>6 DEF HasRead, ReaderInv
  <2>2. m = r \/ strayed
    BY <1>6, <2>1 DEF HasRead, HandInv
  <2>3. strayed' = (strayed \/ m # r)
    BY <1>6, <2>2 DEF HasRead, history, PlaceTypes
  <2> WITNESS m \in T
  <2> QED  BY <1>6, <2>1, <2>3 DEF HasRead, history
<1>7. ASSUME NEW r \in T, Push(r)
      PROVE  \/ /\ buf[r] # <<>> /\ buf' = [buf EXCEPT ![r] = <<>>]
                /\ m_deque' = PushBack(IF Full(m_deque) THEN Tail(m_deque) ELSE m_deque, buf[r][1])
                /\ UNCHANGED <<written, given, pipe, strayed>>
             \/ /\ buf' = [buf EXCEPT ![r] = <<>>]
                /\ UNCHANGED <<written, given, pipe, m_deque, strayed>>
  BY <1>7 DEF Push, HandInv, children, history
<1>8. ASSUME ReadCurrentOutput
      PROVE  /\ m_deque # <<>>
             /\ given' = given \o SubSeq(m_deque, 1, Taken(Len(m_deque)))
             /\ m_deque' = SubSeq(m_deque, Taken(Len(m_deque)) + 1, Len(m_deque))
             /\ UNCHANGED <<written, buf, pipe, strayed>>
  BY <1>8 DEF ReadCurrentOutput, children, readers
<1> QED  BY <1>2, <1>3, <1>4, <1>5, <1>6, <1>7, <1>8 DEF Next, Reader

LEMMA ChunkInit == ASSUME ConstantsOK, Init PROVE ChunkTypes /\ Flow!OrderInv
<1>1. <<>> \in Seq(Chunks) /\ Len(<<>>) = 0
  OBVIOUS
<1>2. ChunkTypes
  BY <1>1 DEF ConstantsOK, Init, ChunkTypes
<1>3. Flow!OrderInv
  BY Flow!OrderInit DEF Init
<1> QED  BY <1>2, <1>3

LEMMA IsFlow == PlaceTypes /\ ChunkTypes => Flow!FlowType
  BY DEF PlaceTypes, ChunkTypes, Flow!FlowType, Chunks, Flow!Chunks

LEMMA IsFlowNext == PlaceTypes' /\ ChunkTypes' => Flow!FlowType'
  BY DEF PlaceTypes, ChunkTypes, Flow!FlowType, Chunks, Flow!Chunks

LEMMA TakenSome ==
    ASSUME NEW q \in Seq(Chunks), q # <<>>
    PROVE  Taken(Len(q)) \in 0..Len(q) /\ Len(q) \in Nat
<1>1. Len(q) \in Nat \ {0}
  BY EmptySeq, LenProperties
<1> QED  BY <1>1 DEF Taken

\* What a full queue has left is one chunk less.
LEMMA RoomFor ==
    ASSUME ConstantsOK, ChunkTypes
    PROVE  \E q \in Seq(Chunks) :
             /\ q = IF Full(m_deque) THEN Tail(m_deque) ELSE m_deque
             /\ q = m_deque \/ (m_deque # <<>> /\ q = Tail(m_deque))
             /\ Len(q) + 1 <= MaxQueue
<1>1. m_deque \in Seq(Chunks) /\ Len(m_deque) \in Nat /\ Len(m_deque) <= MaxQueue
  BY LenProperties DEF ChunkTypes
<1>2. CASE Full(m_deque)
  <2>1. m_deque # <<>>
    BY <1>2 DEF ConstantsOK, Full
  <2>2. Tail(m_deque) \in Seq(Chunks) /\ Len(Tail(m_deque)) = Len(m_deque) - 1
    BY <1>1, <2>1, HeadTailProperties
  <2>3. Len(Tail(m_deque)) + 1 <= MaxQueue
    BY <1>1, <2>2 DEF ConstantsOK
  <2> QED  BY <1>2, <2>1, <2>2, <2>3
<1>3. CASE ~Full(m_deque)
  <2>1. Len(m_deque) + 1 <= MaxQueue
    BY <1>1, <1>3 DEF ConstantsOK, Full
  <2> QED  BY <1>1, <1>3, <2>1
<1> QED  BY <1>2, <1>3

LEMMA ChunkNext ==
    ASSUME ConstantsOK, WinTypes, PlaceTypes, ChunkTypes, ReaderInv, HandInv, Next, PlaceTypes',
           Flow!OrderInv
    PROVE  ChunkTypes' /\ Flow!OrderInv'
<1> USE DEF ChunkTypes
<1>1. Flow!FlowType
  BY IsFlow
<1>2. SUFFICES ChunkTypes' /\ (ChunkTypes' => Flow!OrderInv')
  OBVIOUS
<1>3. ChunkTypes' => Flow!FlowType'
  BY IsFlowNext
<1>4. \A t \in T : written'[t] = written[t] => written[t] <= written'[t]
  OBVIOUS
<1>5. CASE Still
  <2>1. ChunkTypes'
    <3>1. <<>> \in Seq(Chunks) /\ Len(<<>>) <= MaxQueue
      BY DEF ConstantsOK
    <3>2. m_deque' \in Seq(Chunks) /\ Len(m_deque') <= MaxQueue
      BY <1>5, <3>1 DEF Still
    <3> QED  BY <1>5, <3>2 DEF Still
  <2>2. Flow!OrderInv'
    BY <1>1, <1>3, <1>5, <2>1, Flow!OnlyLost DEF Still
  <2> QED  BY <2>1, <2>2
<1>6. ASSUME NEW t \in T, Flow!NewChunk(t) PROVE ChunkTypes' /\ Flow!OrderInv'
  <2>1. written[t] + 1 \in 1..MaxChunks /\ written'[t] = written[t] + 1
    BY <1>6 DEF Flow!NewChunk, ConstantsOK
  <2>2. <<t, written'[t]>> \in Chunks
    BY <2>1 DEF Chunks
  <2>3. pipe' \in [T -> Seq(Chunks)]
    BY <1>6, <2>2 DEF Flow!NewChunk
  <2>4. ChunkTypes'
    BY <1>6, <2>1, <2>3 DEF Flow!NewChunk
  <2>5. Flow!OrderInv'
    BY <1>1, <1>3, <1>6, <2>4, Flow!OrderWrite DEF ConstantsOK
  <2> QED  BY <2>4, <2>5
<1>7. ASSUME NEW r \in T, NEW m \in T, pipe[m] # <<>>,
             buf' = [buf EXCEPT ![r] = <<Head(pipe[m])>>],
             pipe' = [pipe EXCEPT ![m] = Tail(pipe[m])],
             strayed' = (strayed \/ m # r), UNCHANGED <<written, given, m_deque>>
      PROVE  ChunkTypes' /\ Flow!OrderInv'
  <2>1. Head(pipe[m]) \in Chunks /\ Tail(pipe[m]) \in Seq(Chunks)
    BY <1>7, HeadTailProperties
  <2>2. <<Head(pipe[m])>> \in Seq(Chunks)
    BY <2>1
  <2>3. ChunkTypes'
    BY <1>7, <2>1, <2>2
  <2>4. Flow!OrderInv'
    BY <1>1, <1>3, <1>7, <2>3, Flow!OrderRead
  <2> QED  BY <2>3, <2>4
<1>8. ASSUME NEW r \in T, buf[r] # <<>>, buf' = [buf EXCEPT ![r] = <<>>],
             m_deque' = PushBack(IF Full(m_deque) THEN Tail(m_deque) ELSE m_deque, buf[r][1]),
             UNCHANGED <<written, given, pipe, strayed>>
      PROVE  ChunkTypes' /\ Flow!OrderInv'
  <2>1. PICK q \in Seq(Chunks) :
          /\ q = IF Full(m_deque) THEN Tail(m_deque) ELSE m_deque
          /\ q = m_deque \/ (m_deque # <<>> /\ q = Tail(m_deque))
          /\ Len(q) + 1 <= MaxQueue
    BY RoomFor
  <2>2. m_deque' = Append(q, buf[r][1])
    BY <1>8, <2>1 DEF PushBack
  <2>3. buf[r][1] \in Chunks /\ <<>> \in Seq(Chunks)
    BY <1>8, HeadTailProperties
  <2>4. m_deque' \in Seq(Chunks) /\ Len(m_deque') <= MaxQueue
    BY <2>1, <2>2, <2>3, AppendProperties
  <2>5. ChunkTypes'
    BY <1>8, <2>3, <2>4
  <2>6. Flow!OrderInv'
    BY <1>1, <1>3, <1>8, <2>1, <2>2, <2>5, Flow!OrderPush DEF Chunks, Flow!Chunks
  <2> QED  BY <2>5, <2>6
<1>9. ASSUME NEW r \in T, buf' = [buf EXCEPT ![r] = <<>>],
             UNCHANGED <<written, given, pipe, m_deque, strayed>>
      PROVE  ChunkTypes' /\ Flow!OrderInv'
  <2>1. <<>> \in Seq(Chunks) /\ \A s \in T : buf'[s] = buf[s] \/ buf'[s] = <<>>
    BY <1>9
  <2>2. ChunkTypes'
    BY <1>9, <2>1
  <2>3. Flow!OrderInv'
    BY <1>1, <1>3, <1>4, <1>9, <2>1, <2>2, Flow!OnlyLost
  <2> QED  BY <2>2, <2>3
<1>10. ASSUME m_deque # <<>>,
              given' = given \o SubSeq(m_deque, 1, Taken(Len(m_deque))),
              m_deque' = SubSeq(m_deque, Taken(Len(m_deque)) + 1, Len(m_deque)),
              UNCHANGED <<written, buf, pipe, strayed>>
      PROVE  ChunkTypes' /\ Flow!OrderInv'
  <2>1. PICK n \in 0..Len(m_deque) : n = Taken(Len(m_deque)) /\ Len(m_deque) \in Nat
    BY <1>10, TakenSome
  <2>2. /\ SubSeq(m_deque, 1, n) \in Seq(Chunks)
        /\ SubSeq(m_deque, n + 1, Len(m_deque)) \in Seq(Chunks)
        /\ Len(SubSeq(m_deque, n + 1, Len(m_deque))) = Len(m_deque) - n
    BY <2>1, Flow!Parts
  <2>3. given' \in Seq(Chunks) /\ m_deque' \in Seq(Chunks)
    BY <1>10, <2>1, <2>2, ConcatProperties
  <2>4. Len(m_deque') <= MaxQueue
    BY <1>10, <2>1, <2>2 DEF ConstantsOK
  <2>5. ChunkTypes'
    BY <1>10, <2>3, <2>4
  <2>6. Flow!OrderInv'
    BY <1>1, <1>3, <1>10, <2>1, <2>5, Flow!OrderGive
  <2> QED  BY <2>5, <2>6
<1> QED  BY <1>5, <1>6, <1>7, <1>8, <1>9, <1>10, ChunkSteps

-----------------------------------------------------------------------------
(* The theorems. *)

\* All of it.
WinInv ==
    /\ WinTypes /\ PipeInv /\ ReaderInv /\ RecordInv /\ TaskInv /\ FinishedInv
    /\ PlaceTypes /\ HandInv /\ ChunkTypes /\ Flow!OrderInv

LEMMA WinInvariance == ASSUME ConstantsOK PROVE Spec => []WinInv
<1>1. Init => WinInv
  BY TypesInit, PipeInit, ReaderInit, RecordInit, TaskInit, FinishedInit, PlaceInit, HandInit,
     ChunkInit DEF WinInv
<1>2. WinInv /\ [Next]_vars => WinInv'
  <2>1. WinInv /\ Next => WinInv'
    BY TypesNext, PipeNext, ReaderNext, RecordNext, TaskNext, FinishedNext, PlaceNext, HandNext,
       ChunkNext DEF WinInv
  <2>2. WinInv /\ UNCHANGED vars => WinInv'
    <3> SUFFICES ASSUME WinInv, UNCHANGED vars PROVE WinInv'
      OBVIOUS
    <3>1. /\ WinTypes' /\ PipeInv' /\ ReaderInv' /\ RecordInv' /\ TaskInv' /\ FinishedInv'
          /\ PlaceTypes' /\ HandInv' /\ ChunkTypes'
      BY DEF WinInv, WinTypes, PipeInv, ReaderInv, RecordInv, TaskInv, FinishedInv, NothingLeft,
         HasExited, Joinable, PlaceTypes, HandInv, ChunkTypes, vars, handles, stopping, children,
         readers, history
    <3>2. Flow!OrderInv'
      <4>1. /\ UNCHANGED <<written, given, m_deque, buf, pipe, strayed>>
            /\ \A t \in T : written[t] <= written'[t]
        BY DEF WinInv, ChunkTypes, vars, children, readers, history
      <4> QED  BY <3>1, <4>1, IsFlow, IsFlowNext, Flow!OnlyLost DEF WinInv
    <3> QED  BY <3>1, <3>2 DEF WinInv
  <2> QED  BY <2>1, <2>2
<1> QED  BY <1>1, <1>2, PTL DEF Spec

\* Every variable keeps its type.
THEOREM TypeCorrect == ASSUME ConstantsOK PROVE Spec => []TypeOK
<1>1. WinInv => TypeOK
  BY PartsOfType DEF WinInv
<1> QED  BY <1>1, WinInvariance, PTL

\* Each chunk of output is shown at most once, and those of a task in order unless a
\* reader that survived a stop has read the pipe of another task.
\* (readOutputLoop, readCurrentOutput)
THEOREM OrderKept == ASSUME ConstantsOK PROVE Spec => []OutputInOrder
<1>1. WinInv => OutputInOrder
  <2> SUFFICES ASSUME WinInv PROVE OutputInOrder
    OBVIOUS
  <2>1. Flow!InLine(strayed, given \o m_deque)
    BY IsFlow, Flow!OutInLine DEF WinInv
  <2> QED  BY <2>1 DEF OutputInOrder, Flow!InLine, Flow!Before
<1> QED  BY <1>1, WinInvariance, PTL

\* Whatever a child wrote has left its pipe and the hands of the readers when its task is
\* finished, unless its start failed or somebody stopped it.  (WinProc::isRunning's join)
THEOREM NoOutputLeft == ASSUME ConstantsOK PROVE Spec => []WholeOutput
<1>1. WinInv => WholeOutput
  BY DEF WinInv, FinishedInv, NothingLeft, WholeOutput
<1> QED  BY <1>1, WinInvariance, PTL

\* The code recorded for a task that was neither stopped nor failed to start is its own.
\* (m_exitCode, WinProc::start, isRunning)
THEOREM OwnCodes == ASSUME ConstantsOK PROVE Spec => []CodeIsOwn
<1>1. WinInv => CodeIsOwn
  BY DEF WinInv, FinishedInv, CodeIsOwn, ExitCode
<1> QED  BY <1>1, WinInvariance, PTL
=============================================================================
