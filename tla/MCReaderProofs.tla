--------------------------- MODULE MCReaderProofs ---------------------------
(***************************************************************************)
(* Theorems about ProcReader, for every number of tasks, whatever children *)
(* write and however long the queue of output may get; and those about     *)
(* WinReader and TaskArgs, for the module that instantiates them.          *)
(***************************************************************************)
EXTENDS MCReader, SequenceTheorems, TLAPS

-----------------------------------------------------------------------------
(* LinuxProc. *)

Flow == INSTANCE ChunkOrder WITH pipe <- tty

-----------------------------------------------------------------------------
(* Types: what a reader holds and waits for.                               *)

HoldsPart(r) == readerPc[r] = "push" => buf[r] # <<>>
WaitsPart(r) == readerPc[r] = "waiting" => waits[r] # None
TypeInv == TypeOK /\ \A r \in T : HoldsPart(r) /\ WaitsPart(r)

LEMMA TypeInit == Init => TypeInv
<1> SUFFICES ASSUME Init PROVE TypeInv
  OBVIOUS
<1>1. <<>> \in Seq(Chunks) /\ Len(<<>>) = 0
  OBVIOUS
<1>2. task \in T /\ MaxQueue \in Nat /\ MaxChunks \in Nat
  BY CountsAreNat DEF Init, T
<1>3. /\ tty \in [T -> Seq(Chunks)] /\ buf \in [T -> Seq(Chunks)]
      /\ m_deque \in Seq(Chunks) /\ Len(m_deque) <= MaxQueue /\ given \in Seq(Chunks)
  BY <1>1, <1>2 DEF Init
<1>4. written \in [T -> 0..MaxChunks]
  BY <1>2 DEF Init
<1>5. TypeOK
  BY <1>2, <1>3, <1>4 DEF Init, TypeOK
<1>6. \A r \in T : HoldsPart(r) /\ WaitsPart(r)
  BY DEF Init, HoldsPart, WaitsPart
<1> QED  BY <1>5, <1>6 DEF TypeInv

\* Where a reader goes, and that the others stay.
Labels == {"none", "wait", "waiting", "check", "read", "push", "sleep", "ended"}
LEMMA Goto ==
    ASSUME TypeOK, NEW r \in T, NEW label \in Labels, ReaderGoto(r, label)
    PROVE  /\ readerPc' \in [T -> Labels]
           /\ \A s \in T : readerPc'[s] = IF s = r THEN label ELSE readerPc[s]
BY DEF TypeOK, ReaderGoto, Labels

\* readCurrentOutput takes a part of the queue.
LEMMA TakenSome ==
    ASSUME NEW s \in Seq(Chunks), s # <<>>
    PROVE  Taken(Len(s)) \in 0..Len(s)
<1>1. Len(s) \in Nat \ {0}
  BY EmptySeq, LenProperties
<1> QED  BY <1>1 DEF Taken

LEMMA TypeNext == TypeInv /\ [Next]_vars => TypeInv'
<1> SUFFICES ASSUME TypeInv, [Next]_vars PROVE TypeInv'
  OBVIOUS
<1> USE CountsAreNat, NoneIsNoTask
<1>t. TypeOK /\ \A r \in T : HoldsPart(r) /\ WaitsPart(r)
  BY DEF TypeInv
<1>1. ASSUME NEW t \in T, Write(t) PROVE TypeInv'
  <2>1. written[t] + 1 \in 1..MaxChunks
    <3>1. written[t] \in 0..MaxChunks /\ written[t] < MaxChunks
      BY <1>1, <1>t DEF Write, TypeOK
    <3> QED  BY <3>1
  <2>2. written' \in [T -> 0..MaxChunks] /\ written'[t] = written[t] + 1
    <3>1. written' = [written EXCEPT ![t] = written[t] + 1] /\ written \in [T -> 0..MaxChunks]
      BY <1>1, <1>t DEF Write, TypeOK
    <3>2. written[t] + 1 \in 0..MaxChunks
      BY <2>1
    <3> QED  BY <3>1, <3>2
  <2>3. <<t, written'[t]>> \in Chunks
    BY <2>1, <2>2 DEF Chunks
  <2>4. Append(tty[t], <<t, written'[t]>>) \in Seq(Chunks)
    BY <1>t, <2>3 DEF TypeOK
  <2>5. tty' \in [T -> Seq(Chunks)]
    BY <1>1, <1>t, <2>4 DEF Write, TypeOK
  <2>6. TypeOK'
    BY <1>1, <1>t, <2>2, <2>5 DEF Write, TypeOK, descriptors, readers, history
  <2> QED  BY <1>1, <1>t, <2>6 DEF Write, TypeInv, HoldsPart, WaitsPart, readers
<1>2. ASSUME NEW t \in T, Exit(t) PROVE TypeInv'
  BY <1>2, <1>t DEF Exit, TypeInv, TypeOK, HoldsPart, WaitsPart, descriptors, readers, history
<1>3. CASE Fork
  BY <1>3, <1>t DEF Fork, TypeInv, TypeOK, HoldsPart, WaitsPart, readers, history
<1>4. CASE EpollInit
  BY <1>4, <1>t DEF EpollInit, TypeInv, TypeOK, HoldsPart, WaitsPart, children, readers, history
<1>5. CASE Spawn
  <2>1. TypeOK'
    BY <1>5, <1>t DEF Spawn, TypeOK, descriptors, children, history
  <2>2. \A r \in T : HoldsPart(r)' /\ WaitsPart(r)'
    BY <1>5, <1>t DEF Spawn, TypeOK, HoldsPart, WaitsPart
  <2> QED  BY <2>1, <2>2 DEF TypeInv
<1>6. CASE Join
  BY <1>6, <1>t DEF Join, TypeInv, TypeOK, HoldsPart, WaitsPart, descriptors, children,
     readers, history
<1>7. CASE Reap
  BY <1>7, <1>t DEF Reap, TypeInv, TypeOK, HoldsPart, WaitsPart, readers, history
<1>8. CASE Close
  <2>1. tty' \in [T -> Seq(Chunks)]
    <3>1. <<>> \in Seq(Chunks)
      OBVIOUS
    <3> QED  BY <1>8, <1>t, <3>1 DEF Close, TypeOK
  <2>2. task' \in T /\ mainPc' \in {"fork", "done"}
    <3>1. task \in 1..Tasks /\ (task < Tasks => task + 1 \in 1..Tasks)
      BY <1>t DEF TypeOK, T
    <3> QED  BY <1>8, <3>1 DEF Close, T
  <2>3. TypeOK'
    BY <1>8, <1>t, <2>1, <2>2 DEF Close, TypeOK, readers, history
  <2> QED  BY <1>8, <1>t, <2>3 DEF Close, TypeInv, HoldsPart, WaitsPart, readers
<1>9. CASE Destroy
  <2>1. <<>> \in Seq(Chunks) /\ Len(<<>>) <= MaxQueue
    OBVIOUS
  <2> QED  BY <1>9, <1>t, <2>1 DEF Destroy, TypeInv, TypeOK, HoldsPart, WaitsPart,
              descriptors, children, readers, history
<1>10. CASE JoinLast
  BY <1>10, <1>t DEF JoinLast, TypeInv, TypeOK, HoldsPart, WaitsPart, descriptors,
     children, readers, history
<1>11. ASSUME NEW r \in T, Enter(r) PROVE TypeInv'
  <2>1. PICK label \in {"ended", "waiting"} :
          /\ ReaderGoto(r, label)
          /\ waits' = IF label = "ended" THEN waits ELSE [waits EXCEPT ![r] = m_epoll_fd]
          /\ label = "waiting" => m_epoll_fd # None
    BY <1>11 DEF Enter
  <2>2. /\ readerPc' \in [T -> Labels]
        /\ \A s \in T : readerPc'[s] = IF s = r THEN label ELSE readerPc[s]
    BY <1>t, <2>1, Goto DEF Labels
  <2>3. waits' \in [T -> T \cup {None}] /\ strayed' \in BOOLEAN
    BY <1>11, <1>t, <2>1 DEF Enter, TypeOK
  <2>4. TypeOK'
    BY <1>11, <1>t, <2>2, <2>3 DEF Enter, TypeOK, descriptors, children, Labels
  <2>5. \A s \in T : HoldsPart(s)' /\ WaitsPart(s)'
    <3> SUFFICES ASSUME NEW s \in T PROVE HoldsPart(s)' /\ WaitsPart(s)'
      OBVIOUS
    <3>1. CASE s = r
      BY <1>t, <2>1, <2>2, <3>1 DEF TypeOK, HoldsPart, WaitsPart
    <3>2. CASE s # r
      <4>1. readerPc'[s] = readerPc[s] /\ waits'[s] = waits[s] /\ buf'[s] = buf[s]
        BY <1>11, <1>t, <2>1, <2>2, <3>2 DEF Enter, TypeOK
      <4> QED  BY <1>t, <4>1 DEF HoldsPart, WaitsPart
    <3> QED  BY <3>1, <3>2
  <2> QED  BY <2>4, <2>5 DEF TypeInv
<1>12. ASSUME NEW r \in T, Ready(r) \/ Check(r) \/ Timeout(r) \/ Sleep(r) PROVE TypeInv'
  <2>1. /\ readerPc' \in [T -> {"none", "wait", "waiting", "check", "read", "push", "sleep",
                                "ended"}]
        /\ UNCHANGED <<mainPc, task, descriptors, children, waits, buf, m_deque, history>>
    BY <1>12, <1>t DEF Ready, Check, Timeout, Sleep, ReaderGoto, TypeOK
  <2>2. TypeOK'
    BY <1>t, <2>1 DEF TypeOK, descriptors, children, history
  <2>3. \A s \in T : readerPc'[s] = readerPc[s] \/ readerPc'[s] \notin {"push", "waiting"}
    BY <1>12, <1>t DEF Ready, Check, Timeout, Sleep, ReaderGoto, TypeOK
  <2>4. \A s \in T : HoldsPart(s)' /\ WaitsPart(s)'
    BY <1>t, <2>1, <2>3 DEF HoldsPart, WaitsPart
  <2> QED  BY <2>2, <2>4 DEF TypeInv
<1>13. ASSUME NEW r \in T, Read(r) PROVE TypeInv'
  <2>1. /\ readerPc' \in [T -> {"none", "wait", "waiting", "check", "read", "push", "sleep",
                                "ended"}]
        /\ strayed' \in BOOLEAN
    BY <1>13, <1>t DEF Read, ReaderGoto, TypeOK
  <2>2. tty' \in [T -> Seq(Chunks)] /\ buf' \in [T -> Seq(Chunks)]
    <3>1. CASE tty' = tty /\ buf' = buf
      BY <1>t, <3>1 DEF TypeOK
    <3>2. CASE /\ m_masterFD # None /\ tty[m_masterFD] # <<>>
               /\ buf' = [buf EXCEPT ![r] = <<Head(tty[m_masterFD])>>]
               /\ tty' = [tty EXCEPT ![m_masterFD] = Tail(@)]
      <4>1. m_masterFD \in T /\ tty[m_masterFD] \in Seq(Chunks)
        BY <1>t, <3>2 DEF TypeOK
      <4>2. Head(tty[m_masterFD]) \in Chunks /\ Tail(tty[m_masterFD]) \in Seq(Chunks)
        BY <3>2, <4>1, Flow!InTail
      <4>3. <<Head(tty[m_masterFD])>> \in Seq(Chunks)
        BY <4>2
      <4> QED  BY <1>t, <3>2, <4>2, <4>3 DEF TypeOK
    <3> QED  BY <1>13, <3>1, <3>2 DEF Read
  <2>3. TypeOK'
    BY <1>13, <1>t, <2>1, <2>2 DEF Read, TypeOK, descriptors
  <2>4. \A s \in T : HoldsPart(s)' /\ WaitsPart(s)'
    <3> SUFFICES ASSUME NEW s \in T PROVE HoldsPart(s)' /\ WaitsPart(s)'
      OBVIOUS
    <3>1. CASE s = r
      <4>1. readerPc'[r] \in {"read", "ended"} \/ (readerPc'[r] = "push" /\ buf'[r] # <<>>)
        <5>1. CASE m_masterFD = None /\ ReaderGoto(r, "ended")
          BY <1>t, <5>1, Goto DEF Labels
        <5>2. CASE /\ buf' = [buf EXCEPT ![r] = <<Head(tty[m_masterFD])>>]
                   /\ ReaderGoto(r, "push")
          <6>1. readerPc'[r] = "push"
            BY <1>t, <5>2, Goto DEF Labels
          <6> QED  BY <1>t, <5>2, <6>1 DEF TypeOK
        <5>3. CASE readerPc' = readerPc
          BY <1>13, <5>3 DEF Read
        <5> QED  BY <1>13, <5>1, <5>2, <5>3 DEF Read
      <4> QED  BY <3>1, <4>1 DEF HoldsPart, WaitsPart
    <3>2. CASE s # r
      <4>1. readerPc'[s] = readerPc[s] /\ buf'[s] = buf[s] /\ waits'[s] = waits[s]
        BY <1>13, <1>t, <3>2 DEF Read, ReaderGoto, TypeOK
      <4> QED  BY <1>t, <4>1 DEF HoldsPart, WaitsPart
    <3> QED  BY <3>1, <3>2
  <2> QED  BY <2>3, <2>4 DEF TypeInv
<1>14. ASSUME NEW r \in T, Push(r) PROVE TypeInv'
  <2>1. /\ readerPc' \in [T -> {"none", "wait", "waiting", "check", "read", "push", "sleep",
                                "ended"}]
        /\ buf' \in [T -> Seq(Chunks)] /\ lateUses' \in Nat
    <3>1. <<>> \in Seq(Chunks)
      OBVIOUS
    <3>2. buf' = [buf EXCEPT ![r] = <<>>] /\ ReaderGoto(r, "sleep")
      BY <1>14 DEF Push
    <3>3. buf' \in [T -> Seq(Chunks)]
      BY <1>t, <3>1, <3>2 DEF TypeOK
    <3>4. readerPc' \in [T -> Labels]
      BY <1>t, <3>2, Goto DEF Labels
    <3>5. lateUses' \in Nat
      <4>1. lateUses \in Nat
        BY <1>t DEF TypeOK
      <4> QED  BY <1>14, <4>1 DEF Push
    <3> QED  BY <3>3, <3>4, <3>5 DEF Labels
  <2>2. m_deque' \in Seq(Chunks) /\ Len(m_deque') <= MaxQueue
    <3>1. buf[r] \in Seq(Chunks) /\ buf[r] # <<>> /\ buf[r][1] \in Chunks
      BY <1>14, <1>t, Flow!InTail, HeadTailProperties, EmptySeq, ElementOfSeq
      DEF Push, TypeOK, HoldsPart
    <3>2. CASE m_deque' = m_deque
      BY <1>t, <3>2 DEF TypeOK
    <3>3. CASE m_deque' = PushBack(IF Full(m_deque) THEN Tail(m_deque) ELSE m_deque, buf[r][1])
      <4>1. m_deque \in Seq(Chunks) /\ Len(m_deque) \in Nat /\ Len(m_deque) <= MaxQueue
        BY <1>t, LenProperties DEF TypeOK
      <4>2. CASE Full(m_deque)
        <5>1. Tail(m_deque) \in Seq(Chunks) /\ Len(Tail(m_deque)) = MaxQueue - 1
          BY <4>1, <4>2, HeadTailProperties DEF Full
        <5> QED  BY <3>1, <3>3, <4>2, <5>1 DEF PushBack
      <4>3. CASE ~Full(m_deque)
        BY <3>1, <3>3, <4>1, <4>3 DEF PushBack, Full
      <4> QED  BY <4>2, <4>3
    <3> QED  BY <1>14, <3>2, <3>3 DEF Push
  <2>3. TypeOK'
    BY <1>14, <1>t, <2>1, <2>2 DEF Push, TypeOK, descriptors, children
  <2>4. \A s \in T : HoldsPart(s)' /\ WaitsPart(s)'
    BY <1>14, <1>t DEF Push, ReaderGoto, TypeOK, HoldsPart, WaitsPart
  <2> QED  BY <2>3, <2>4 DEF TypeInv
<1>15. CASE ReadCurrentOutput
  <2>1. PICK n \in 0..Len(m_deque) :
          /\ given' = given \o SubSeq(m_deque, 1, n)
          /\ m_deque' = SubSeq(m_deque, n + 1, Len(m_deque))
    BY <1>15, <1>t, TakenSome DEF ReadCurrentOutput, TypeOK
  <2>2. m_deque \in Seq(Chunks) /\ given \in Seq(Chunks) /\ Len(m_deque) \in Nat
    BY <1>t, LenProperties DEF TypeOK
  <2>3. /\ SubSeq(m_deque, 1, n) \in Seq(Chunks) /\ m_deque' \in Seq(Chunks)
        /\ Len(m_deque') = Len(m_deque) - n
    BY <2>1, <2>2, Flow!Parts
  <2>4. given' \in Seq(Chunks)
    BY <2>1, <2>2, <2>3, ConcatProperties
  <2>5. Len(m_deque') <= MaxQueue
    BY <1>t, <2>2, <2>3 DEF TypeOK
  <2>6. TypeOK'
    BY <1>15, <1>t, <2>3, <2>4, <2>5 DEF ReadCurrentOutput, TypeOK, descriptors, children,
       readers
  <2> QED  BY <1>15, <1>t, <2>6 DEF ReadCurrentOutput, TypeInv, HoldsPart, WaitsPart, readers
<1>16. CASE UNCHANGED vars
  BY <1>16, <1>t DEF TypeInv, TypeOK, HoldsPart, WaitsPart, vars, descriptors, children,
     readers, history
<1> QED  BY <1>1, <1>2, <1>3, <1>4, <1>5, <1>6, <1>7, <1>8, <1>9, <1>10, <1>11, <1>12,
            <1>13, <1>14, <1>15, <1>16 DEF Next, Main, Reader

\* The types are correct.
THEOREM TypeCorrect == Spec => []TypeOK
<1>1. TypeInv => TypeOK
  BY DEF TypeInv
<1> QED  BY TypeInit, TypeNext, <1>1, PTL DEF Spec

-----------------------------------------------------------------------------
(* Destruction: of all readers only the last one may still hold a chunk.   *)

\* The descriptors are closed when the main loop ends.
EndPart ==
    /\ mainPc \in {"close", "done", "destroy", "gone"} => m_epoll_fd = None
    /\ mainPc \in {"done", "destroy", "gone"} => m_masterFD = None /\ task = Tasks

\* Readers come one after the other.
PastPart(r) ==
    /\ r < task - 1 => readerPc[r] = "ended"
    /\ (r < task /\ mainPc \in {"poll", "close", "done", "destroy", "gone"}) =>
         readerPc[r] = "ended"
    /\ r > task => readerPc[r] = "none"
    /\ (r = task /\ mainPc \in {"fork", "epoll", "spawn"}) => readerPc[r] = "none"

\* Who has used the destroyed queue does not hold another chunk.
LatePart ==
    /\ ~Destroyed => lateUses = 0
    /\ lateUses = 0 \/ (lateUses = 1 /\ \A r \in T : readerPc[r] # "push")

LateInv == EndPart /\ LatePart /\ \A r \in T : PastPart(r)

LEMMA LateInit == Init => LateInv
BY CountsAreNat DEF Init, LateInv, EndPart, LatePart, PastPart, T, Destroyed

\* What a step of a reader does to the others, and what it needs for a chunk.
LEMMA ReadersStep ==
    ASSUME TypeInv, NEW r \in T, Reader(r)
    PROVE  /\ UNCHANGED <<mainPc, task, m_masterFD, m_epoll_fd>>
           /\ readerPc[r] \notin {"none", "ended"}
           /\ \A s \in T : s # r => readerPc'[s] = readerPc[s]
           /\ readerPc'[r] # "push" \/ (m_masterFD # None /\ lateUses' = lateUses)
           /\ \/ lateUses' = lateUses
              \/ Destroyed /\ readerPc[r] = "push" /\ lateUses' = lateUses + 1
<1> SUFFICES ASSUME TypeOK
             PROVE  /\ UNCHANGED <<mainPc, task, m_masterFD, m_epoll_fd>>
                    /\ readerPc[r] \notin {"none", "ended"}
                    /\ \A s \in T : s # r => readerPc'[s] = readerPc[s]
                    /\ readerPc'[r] # "push" \/ (m_masterFD # None /\ lateUses' = lateUses)
                    /\ \/ lateUses' = lateUses
                       \/ Destroyed /\ readerPc[r] = "push" /\ lateUses' = lateUses + 1
  BY DEF TypeInv
<1>1. ASSUME NEW label \in Labels \ {"push"}, ReaderGoto(r, label)
      PROVE  readerPc'[r] # "push" /\ \A s \in T : s # r => readerPc'[s] = readerPc[s]
  BY <1>1, Goto
<1>2. CASE Enter(r)
  <2>1. ReaderGoto(r, "ended") \/ ReaderGoto(r, "waiting")
    BY <1>2 DEF Enter
  <2> QED  BY <1>1, <1>2, <2>1 DEF Enter, descriptors, Labels
<1>3. CASE Ready(r)
  BY <1>1, <1>3 DEF Ready, descriptors, history, Labels
<1>4. CASE Check(r)
  <2>1. ReaderGoto(r, "sleep") \/ ReaderGoto(r, "read")
    BY <1>4 DEF Check
  <2> QED  BY <1>1, <1>4, <2>1 DEF Check, descriptors, history, Labels
<1>5. CASE Timeout(r)
  BY <1>1, <1>5 DEF Timeout, descriptors, history, Labels
<1>6. CASE Sleep(r)
  BY <1>1, <1>6 DEF Sleep, descriptors, history, Labels
<1>7. CASE Push(r)
  BY <1>1, <1>7 DEF Push, descriptors, Labels
<1>8. CASE Read(r)
  <2>1. /\ UNCHANGED <<mainPc, task, m_masterFD, m_epoll_fd, lateUses>>
        /\ readerPc[r] \notin {"none", "ended"}
    BY <1>8 DEF Read, descriptors
  <2>2. \/ ReaderGoto(r, "ended") \/ readerPc' = readerPc
        \/ m_masterFD # None /\ ReaderGoto(r, "push")
    BY <1>8 DEF Read
  <2>3. CASE ReaderGoto(r, "ended")
    BY <1>1, <2>1, <2>3 DEF Labels
  <2>4. CASE readerPc' = readerPc
    BY <1>8, <2>1, <2>4 DEF Read
  <2>5. CASE m_masterFD # None /\ ReaderGoto(r, "push")
    <3>1. \A s \in T : s # r => readerPc'[s] = readerPc[s]
      BY <2>5, Goto DEF Labels
    <3> QED  BY <2>1, <2>5, <3>1
  <2> QED  BY <2>2, <2>3, <2>4, <2>5
<1> QED  BY <1>2, <1>3, <1>4, <1>5, <1>6, <1>7, <1>8 DEF Reader

LEMMA LateNext == TypeInv /\ LateInv /\ [Next]_vars => LateInv'
<1> SUFFICES ASSUME TypeInv, LateInv, [Next]_vars PROVE LateInv'
  OBVIOUS
<1> USE CountsAreNat
<1>t. TypeOK /\ task \in 1..Tasks /\ EndPart /\ LatePart /\ \A r \in T : PastPart(r)
  BY DEF TypeInv, TypeOK, LateInv, T
<1>1. ASSUME NEW t \in T, Write(t) \/ Exit(t) PROVE LateInv'
  <2>1. UNCHANGED <<mainPc, task, m_masterFD, m_epoll_fd, readerPc, lateUses>>
    BY <1>1 DEF Write, Exit, descriptors, readers, history
  <2> QED  BY <1>t, <2>1 DEF LateInv, EndPart, LatePart, PastPart, Destroyed
<1>2. CASE Fork
  BY <1>2, <1>t DEF Fork, readers, history, LateInv, EndPart, LatePart, PastPart, Destroyed
<1>3. CASE EpollInit
  BY <1>3, <1>t DEF EpollInit, readers, history, LateInv, EndPart, LatePart, PastPart,
     Destroyed
<1>4. CASE Spawn
  <2>1. \A r \in T : readerPc'[r] = IF r = task THEN "wait" ELSE readerPc[r]
    BY <1>4, <1>t DEF Spawn, TypeOK
  <2>2. \A r \in T : PastPart(r)'
    <3> SUFFICES ASSUME NEW r \in T PROVE PastPart(r)'
      OBVIOUS
    <3>1. r \in 1..Tasks
      BY DEF T
    <3> QED  BY <1>4, <1>t, <2>1, <3>1 DEF Spawn, PastPart
  <2> QED  BY <1>4, <1>t, <2>1, <2>2 DEF Spawn, descriptors, history, LateInv, EndPart,
              LatePart, Destroyed
<1>5. CASE Join
  <2>1. \A r \in T : PastPart(r)'
    <3> SUFFICES ASSUME NEW r \in T PROVE PastPart(r)'
      OBVIOUS
    <3>1. r \in 1..Tasks /\ task - 1 \in Int /\ (r < task => r < task - 1 \/ r = task - 1)
      BY <1>t DEF T
    <3>2. r = task - 1 => readerPc[r] = "ended"
      BY <1>5 DEF Join, Joinable
    <3> QED  BY <1>5, <1>t, <3>1, <3>2 DEF Join, readers, PastPart
  <2> QED  BY <1>5, <1>t, <2>1 DEF Join, descriptors, readers, history, LateInv, EndPart,
              LatePart, Destroyed
<1>6. CASE Reap
  BY <1>6, <1>t DEF Reap, readers, history, LateInv, EndPart, LatePart, PastPart, Destroyed
<1>7. CASE Close
  <2>1. /\ EndPart' /\ LatePart'
    BY <1>7, <1>t DEF Close, readers, history, EndPart, LatePart, Destroyed
  <2>2. \A r \in T : PastPart(r)'
    <3> SUFFICES ASSUME NEW r \in T PROVE PastPart(r)'
      OBVIOUS
    <3>1. r \in 1..Tasks
      BY DEF T
    <3>2. CASE task < Tasks
      BY <1>7, <1>t, <3>1, <3>2 DEF Close, readers, PastPart
    <3>3. CASE ~(task < Tasks)
      BY <1>7, <1>t, <3>1, <3>3 DEF Close, readers, PastPart
    <3> QED  BY <3>2, <3>3
  <2> QED  BY <2>1, <2>2 DEF LateInv
<1>8. CASE Destroy
  BY <1>8, <1>t DEF Destroy, descriptors, readers, history, LateInv, EndPart, LatePart,
     PastPart, Destroyed
<1>9. CASE JoinLast
  BY <1>9, <1>t DEF JoinLast, descriptors, readers, history, LateInv, EndPart, LatePart,
     PastPart, Destroyed
<1>10. ASSUME NEW r \in T, Reader(r) PROVE LateInv'
  <2>1. /\ UNCHANGED <<mainPc, task, m_masterFD, m_epoll_fd>>
        /\ readerPc[r] \notin {"none", "ended"}
        /\ \A s \in T : s # r => readerPc'[s] = readerPc[s]
        /\ readerPc'[r] # "push" \/ (m_masterFD # None /\ lateUses' = lateUses)
        /\ \/ lateUses' = lateUses
           \/ Destroyed /\ readerPc[r] = "push" /\ lateUses' = lateUses + 1
    BY <1>10, ReadersStep
  <2>2. EndPart'
    BY <1>t, <2>1 DEF EndPart
  <2>3. \A s \in T : PastPart(s)'
    <3> SUFFICES ASSUME NEW s \in T PROVE PastPart(s)'
      OBVIOUS
    <3> QED  BY <1>t, <2>1 DEF PastPart
  <2>4. LatePart'
    <3>1. CASE ~Destroyed
      BY <1>t, <2>1, <3>1 DEF LatePart, Destroyed
    <3>2. CASE Destroyed
      <4>1. readerPc'[r] # "push" /\ Destroyed'
        BY <1>t, <2>1, <3>2 DEF EndPart, Destroyed
      <4>2. \A s \in T : s # r => readerPc[s] \in {"none", "ended"}
        <5>1. SUFFICES ASSUME NEW s \in T, s # r PROVE readerPc[s] \in {"none", "ended"}
          OBVIOUS
        <5>2. s \in 1..Tasks /\ r \in 1..Tasks /\ task = Tasks
          BY <1>t, <3>2 DEF T, EndPart, Destroyed
        <5>3. r = task
          BY <1>t, <2>1, <3>2, <5>2 DEF PastPart, Destroyed
        <5> QED  BY <1>t, <3>2, <5>1, <5>2, <5>3 DEF PastPart, Destroyed
      <4>3. \A s \in T : readerPc'[s] # "push"
        BY <2>1, <4>1, <4>2
      <4>4. CASE lateUses' = lateUses
        BY <1>t, <4>1, <4>3, <4>4 DEF LatePart
      <4>5. CASE readerPc[r] = "push" /\ lateUses' = lateUses + 1
        BY <1>t, <4>1, <4>3, <4>5 DEF LatePart
      <4> QED  BY <2>1, <4>4, <4>5
    <3> QED  BY <3>1, <3>2
  <2> QED  BY <2>2, <2>3, <2>4 DEF LateInv
<1>11. CASE ReadCurrentOutput
  BY <1>11, <1>t DEF ReadCurrentOutput, descriptors, readers, LateInv, EndPart, LatePart,
     PastPart, Destroyed
<1>12. CASE UNCHANGED vars
  BY <1>12, <1>t DEF vars, descriptors, readers, history, LateInv, EndPart, LatePart,
     PastPart, Destroyed
<1> QED  BY <1>1, <1>2, <1>3, <1>4, <1>5, <1>6, <1>7, <1>8, <1>9, <1>10, <1>11, <1>12
         DEF Next, Main

\* The destroyed queue of output is touched for one chunk at most.
THEOREM OneUseAtMost == Spec => []OneLateUse
<1>1. LateInv => OneLateUse
  BY DEF LateInv, LatePart, OneLateUse
<1> QED  BY TypeInit, TypeNext, LateInit, LateNext, <1>1, PTL DEF Spec

-----------------------------------------------------------------------------
(* Order: chunks are in terminals, with readers, in the queue and given.   *)

LEMMA IsFlow == TypeOK => Flow!FlowType
  BY DEF TypeOK, Flow!FlowType, Chunks, Flow!Chunks

LEMMA IsFlowNext == TypeOK' => Flow!FlowType'
  BY DEF TypeOK, Flow!FlowType, Chunks, Flow!Chunks

LEMMA OrderInit == Init => Flow!OrderInv
  BY Flow!OrderInit DEF Init

LEMMA OrderNext == TypeInv /\ TypeInv' /\ Flow!OrderInv /\ [Next]_vars => Flow!OrderInv'
<1> SUFFICES ASSUME TypeInv, TypeInv', Flow!OrderInv, [Next]_vars PROVE Flow!OrderInv'
  OBVIOUS
<1>t. TypeOK /\ TypeOK' /\ Flow!FlowType /\ Flow!FlowType'
  BY IsFlow, IsFlowNext DEF TypeInv
<1>w. \A t \in T : written'[t] = written[t] => written[t] <= written'[t]
  BY <1>t DEF TypeOK
<1>1. ASSUME NEW t \in T, Write(t) PROVE Flow!OrderInv'
  <2>1. Flow!NewChunk(t)
    BY <1>1 DEF Write, readers, history, Flow!NewChunk
  <2> QED  BY <1>t, <1>w, <2>1, CountsAreNat, Flow!OrderWrite
<1>2. ASSUME NEW t \in T, Exit(t) PROVE Flow!OrderInv'
  BY <1>2, <1>t, <1>w, Flow!OnlyLost DEF Exit, readers, history
<1>3. CASE Fork \/ EpollInit \/ Spawn \/ Join \/ Reap \/ JoinLast
  <2>1. UNCHANGED <<written, given, m_deque, buf, tty, strayed>>
    BY <1>3 DEF Fork, EpollInit, Spawn, Join, Reap, JoinLast, children, readers, history
  <2> QED  BY <1>t, <1>w, <2>1, Flow!OnlyLost
<1>4. CASE Close
  <2>1. UNCHANGED <<written, given, m_deque, buf, strayed>>
    BY <1>4 DEF Close, readers, history
  <2>2. \A t \in T : tty'[t] = tty[t] \/ tty'[t] = <<>>
    BY <1>4, <1>t DEF Close, TypeOK
  <2> QED  BY <1>t, <1>w, <2>1, <2>2, Flow!OnlyLost
<1>5. CASE Destroy
  <2>1. UNCHANGED <<written, given, tty, buf, strayed>> /\ m_deque' = <<>>
    BY <1>5 DEF Destroy, children, readers, history
  <2> QED  BY <1>t, <1>w, <2>1, Flow!OnlyLost
<1>6. ASSUME NEW r \in T, Enter(r) \/ Ready(r) \/ Check(r) \/ Timeout(r) \/ Sleep(r)
      PROVE  Flow!OrderInv'
  <2>1. UNCHANGED <<written, given, m_deque, buf, tty>>
    BY <1>6 DEF Enter, Ready, Check, Timeout, Sleep, children, history
  <2>2. strayed => strayed'
    <3>1. CASE Enter(r)
      BY <3>1 DEF Enter
    <3>2. CASE ~Enter(r)
      <4>1. strayed' = strayed
        BY <1>6, <3>2 DEF Ready, Check, Timeout, Sleep, history
      <4> QED  BY <4>1
    <3> QED  BY <3>1, <3>2
  <2> QED  BY <1>t, <1>w, <2>1, <2>2, Flow!OnlyLost
<1>7. ASSUME NEW r \in T, Read(r) PROVE Flow!OrderInv'
  <2>1. UNCHANGED <<written, given, m_deque>>
    BY <1>7 DEF Read
  <2>2. CASE UNCHANGED <<tty, buf>>
    <3>1. strayed => strayed'
      BY <1>7 DEF Read
    <3> QED  BY <1>t, <1>w, <2>1, <2>2, <3>1, Flow!OnlyLost
  <2>3. CASE /\ m_masterFD # None /\ tty[m_masterFD] # <<>>
             /\ buf' = [buf EXCEPT ![r] = <<Head(tty[m_masterFD])>>]
             /\ tty' = [tty EXCEPT ![m_masterFD] = Tail(@)]
    <3>1. m_masterFD \in T
      BY <1>t, <2>3 DEF TypeOK
    <3>2. PICK m \in T : m = m_masterFD
      BY <3>1
    <3>3. strayed' = (strayed \/ m # r)
      BY <1>7, <2>3, <3>2 DEF Read
    <3>4. /\ tty[m] # <<>> /\ buf' = [buf EXCEPT ![r] = <<Head(tty[m])>>]
          /\ tty' = [tty EXCEPT ![m] = Tail(tty[m])]
      BY <2>3, <3>2
    <3> QED  BY <1>t, <1>w, <2>1, <3>3, <3>4, Flow!OrderRead
  <2> QED  BY <1>7, <2>2, <2>3 DEF Read
<1>8. ASSUME NEW r \in T, Push(r) PROVE Flow!OrderInv'
  <2>1. UNCHANGED <<written, given, tty, strayed>> /\ buf' = [buf EXCEPT ![r] = <<>>]
    BY <1>8 DEF Push, children
  <2>2. CASE m_deque' = m_deque
    <3>1. \A s \in T : buf'[s] = buf[s] \/ buf'[s] = <<>>
      BY <1>t, <2>1 DEF TypeOK
    <3> QED  BY <1>t, <1>w, <2>1, <2>2, <3>1, Flow!OnlyLost
  <2>3. CASE m_deque' = PushBack(IF Full(m_deque) THEN Tail(m_deque) ELSE m_deque, buf[r][1])
    <3>1. buf[r] # <<>>
      BY <1>8 DEF TypeInv, HoldsPart, Push
    <3>2. m_deque \in Seq(Chunks) /\ (Full(m_deque) => m_deque # <<>>)
      <4>1. MaxQueue # 0 /\ Len(<<>>) = 0
        BY CountsAreNat
      <4> QED  BY <1>t, <4>1 DEF TypeOK, Full
    <3>3. PICK q \in Seq(Chunks) :
            /\ q = IF Full(m_deque) THEN Tail(m_deque) ELSE m_deque
            /\ q = m_deque \/ (m_deque # <<>> /\ q = Tail(m_deque))
      BY <3>2, Flow!InTail
    <3>4. m_deque' = Append(q, buf[r][1])
      BY <2>3, <3>3 DEF PushBack
    <3> QED  BY <1>t, <2>1, <3>1, <3>3, <3>4, Flow!OrderPush DEF Chunks, Flow!Chunks
  <2> QED  BY <1>8, <2>2, <2>3 DEF Push
<1>9. CASE ReadCurrentOutput
  <2>1. PICK n \in 0..Len(m_deque) :
          /\ given' = given \o SubSeq(m_deque, 1, n)
          /\ m_deque' = SubSeq(m_deque, n + 1, Len(m_deque))
    BY <1>9, <1>t, TakenSome DEF ReadCurrentOutput, TypeOK
  <2>2. UNCHANGED <<written, buf, tty, strayed>>
    BY <1>9 DEF ReadCurrentOutput, children, readers
  <2> QED  BY <1>t, <1>w, <2>1, <2>2, Flow!OrderGive
<1>10. CASE UNCHANGED vars
  <2>1. UNCHANGED <<written, given, m_deque, buf, tty, strayed>>
    BY <1>10 DEF vars, children, readers, history
  <2> QED  BY <1>t, <1>w, <2>1, Flow!OnlyLost
<1> QED  BY <1>1, <1>2, <1>3, <1>4, <1>5, <1>6, <1>7, <1>8, <1>9, <1>10
         DEF Next, Main, Reader

\* Output is given in order, each chunk once.
THEOREM OrderKept == Spec => []OutputInOrder
<1>1. TypeInv /\ Flow!OrderInv => OutputInOrder
  <2> SUFFICES ASSUME TypeInv, Flow!OrderInv PROVE OutputInOrder
    OBVIOUS
  <2>1. Flow!InLine(strayed, given \o m_deque)
    BY IsFlow, Flow!OutInLine DEF TypeInv
  <2> QED  BY <2>1 DEF OutputInOrder, Flow!InLine, Flow!Before
<1> QED  BY TypeInit, TypeNext, OrderInit, OrderNext, <1>1, PTL DEF Spec

-----------------------------------------------------------------------------
(* WinProc.  *)

WinProofs == INSTANCE WinReaderProofs WITH
               mainPc <- winMainPc, task <- winTask, child <- winChild, written <- winWritten,
               readerPc <- winReaderPc, buf <- winBuf, m_deque <- winDeque, given <- winGiven,
               strayed <- winStrayed

LEMMA SameInit == Win!Init <=> WinProofs!Init
  BY DEF Win!Init, WinProofs!Init, Win!T, WinProofs!T

LEMMA SameNext == Win!Next <=> WinProofs!Next
  BY DEF
     Win!Next, WinProofs!Next, Win!Main, WinProofs!Main, Win!Refuse, WinProofs!Refuse,
     Win!Start, WinProofs!Start, Win!CreatePipes, WinProofs!CreatePipes,
     Win!CreatePseudoConsole, WinProofs!CreatePseudoConsole, Win!CreateChildProcess,
     WinProofs!CreateChildProcess, Win!Spawn, WinProofs!Spawn, Win!Join, WinProofs!Join,
     Win!Poll, WinProofs!Poll, Win!Reap, WinProofs!Reap, Win!Fin, WinProofs!Fin, Win!Destroy,
     WinProofs!Destroy, Win!JoinLast, WinProofs!JoinLast, Win!StopConsole,
     WinProofs!StopConsole, Win!StopReset, WinProofs!StopReset, Win!Write, WinProofs!Write,
     Win!Exit, WinProofs!Exit, Win!Reader, WinProofs!Reader, Win!ReadFile, WinProofs!ReadFile,
     Win!HasRead, WinProofs!HasRead, Win!BrokenPipe, WinProofs!BrokenPipe, Win!Push,
     WinProofs!Push, Win!ReadCurrentOutput, WinProofs!ReadCurrentOutput, Win!T, WinProofs!T,
     Win!STILL_ACTIVE, WinProofs!STILL_ACTIVE, Win!Handle, WinProofs!Handle, Win!Chunks,
     WinProofs!Chunks, Win!handles, WinProofs!handles, Win!stopping, WinProofs!stopping,
     Win!children, WinProofs!children, Win!readers, WinProofs!readers, Win!history,
     WinProofs!history, Win!ExitCode, WinProofs!ExitCode, Win!HasExited, WinProofs!HasExited,
     Win!resetHandle, WinProofs!resetHandle, Win!Active, WinProofs!Active, Win!Fails,
     WinProofs!Fails, Win!Joinable, WinProofs!Joinable, Win!WaitsFor, WinProofs!WaitsFor,
     Win!Destroyed, WinProofs!Destroyed, Win!ReaderGoto, WinProofs!ReaderGoto, Win!Broken,
     WinProofs!Broken, Win!Full, WinProofs!Full, Win!PushBack, WinProofs!PushBack, Win!Taken,
     WinProofs!Taken

\* A behaviour of the Windows build, or of another subject, is one of WinReader.
LEMMA Constants == WinProofs!ConstantsOK
  BY WinConstants DEF Win!ConstantsOK, WinProofs!ConstantsOK, Win!T, WinProofs!T,
     Win!STILL_ACTIVE, WinProofs!STILL_ACTIVE

LEMMA StepsMap == [MCNext]_allVars => [WinProofs!Next]_(WinProofs!vars)
<1>1. UNCHANGED winVars => UNCHANGED WinProofs!vars
  BY DEF winVars, WinProofs!vars, WinProofs!handles, WinProofs!stopping, WinProofs!children,
     WinProofs!readers, WinProofs!history
<1>2. Linux(Next) \/ Arguments(Args!Next) \/ UNCHANGED allVars => UNCHANGED winVars
  BY DEF Linux, Arguments, allVars
<1>3. Windows(Win!Next) => WinProofs!Next
  BY SameNext DEF Windows
<1> QED  BY <1>1, <1>2, <1>3 DEF MCNext

LEMMA Implements == MCSpec => WinProofs!Init /\ [][WinProofs!Next]_(WinProofs!vars)
<1>1. MCInit => WinProofs!Init
  BY SameInit DEF MCInit
<1> QED  BY <1>1, StepsMap, PTL DEF MCSpec

-----------------------------------------------------------------------------
(* Theorems.  *)

\* The state of the Windows build keeps its types: the queue of output never exceeds its
\* size, and the main loop waits for a reader of one of its own tasks.  (WinProc)
THEOREM WinTypesHold == MCSpec => []WinTypeOK
<1>1. WinProofs!Init /\ [][WinProofs!Next]_(WinProofs!vars) => []WinProofs!TypeOK
  BY Constants, WinProofs!TypeCorrect DEF WinProofs!Spec
<1>2. WinProofs!TypeOK => WinTypeOK
  BY DEF WinTypeOK, WinProofs!TypeOK, Win!TypeOK, Win!T, WinProofs!T, Win!Handle,
     WinProofs!Handle, Win!Chunks, WinProofs!Chunks, Win!STILL_ACTIVE, WinProofs!STILL_ACTIVE
<1> QED  BY <1>1, <1>2, Implements, PTL

\* What readCurrentOutput() has handed out and what is still queued has each chunk at most
\* once, and in the order it was written as long as no reader survived a stop.
\* (readOutputLoop, readCurrentOutput)
THEOREM WinOrderHolds == MCSpec => []WinOutputInOrder
<1>1. WinProofs!Init /\ [][WinProofs!Next]_(WinProofs!vars) => []WinProofs!OutputInOrder
  BY Constants, WinProofs!OrderKept DEF WinProofs!Spec
<1>2. WinProofs!OutputInOrder => WinOutputInOrder
  BY DEF WinOutputInOrder, WinProofs!OutputInOrder, Win!OutputInOrder
<1> QED  BY <1>1, <1>2, Implements, PTL

\* Nothing of a task that ended undisturbed is left in its pipe or in a reader's hands.
\* (WinProc::isRunning joins the reader before the task is recorded)
THEOREM WholeOutputHolds == MCSpec => []WholeOutput
<1>1. WinProofs!Init /\ [][WinProofs!Next]_(WinProofs!vars) => []WinProofs!WholeOutput
  BY Constants, WinProofs!NoOutputLeft DEF WinProofs!Spec
<1>2. WinProofs!WholeOutput => WholeOutput
  BY DEF WholeOutput, WinProofs!WholeOutput, Win!WholeOutput, Win!T, WinProofs!T
<1> QED  BY <1>1, <1>2, Implements, PTL

\* The code recorded for a task that ended undisturbed is its own program's.
\* (WinProc::start, isRunning and exitCode share m_exitCode)
THEOREM CodesHold == MCSpec => []CodeIsOwn
<1>1. WinProofs!Init /\ [][WinProofs!Next]_(WinProofs!vars) => []WinProofs!CodeIsOwn
  BY Constants, WinProofs!OwnCodes DEF WinProofs!Spec
<1>2. WinProofs!CodeIsOwn => CodeIsOwn
  BY DEF CodeIsOwn, WinProofs!CodeIsOwn, Win!CodeIsOwn, Win!T, WinProofs!T, Win!ExitCode,
     WinProofs!ExitCode, Win!STILL_ACTIVE, WinProofs!STILL_ACTIVE
<1> QED  BY <1>1, <1>2, Implements, PTL

-----------------------------------------------------------------------------
(* TaskArgs: its definitions here and in the module with its proofs.  *)

ArgsProofs == INSTANCE TaskArgsProofs

LEMMA SameFinding ==
    /\ Args!Chars = ArgsProofs!Chars /\ Args!delimiter = ArgsProofs!delimiter
    /\ \A s, d : Args!FindIn(s, d) = ArgsProofs!FindIn(s, d)
    /\ \A s, i : Args!From(s, i) = ArgsProofs!From(s, i)
<1>1. Args!Chars = ArgsProofs!Chars /\ Args!delimiter = ArgsProofs!delimiter
  BY DEF Args!Chars, ArgsProofs!Chars, Args!delimiter, ArgsProofs!delimiter
<1>2. \A s, d : Args!FindIn(s, d) = ArgsProofs!FindIn(s, d)
  BY DEF Args!FindIn, ArgsProofs!FindIn, Args!Min, ArgsProofs!Min
<1>3. \A s, i : Args!From(s, i) = ArgsProofs!From(s, i)
  BY DEF Args!From, ArgsProofs!From
<1> QED  BY <1>1, <1>2, <1>3

LEMMA SameSplit == Args!Split = ArgsProofs!Split
  BY DEF Args!Split, ArgsProofs!Split, Args!FindIn, ArgsProofs!FindIn, Args!Min,
     ArgsProofs!Min, Args!From, ArgsProofs!From, Args!Chars, ArgsProofs!Chars,
     Args!delimiter, ArgsProofs!delimiter

LEMMA SameWords == Args!Words = ArgsProofs!Words
  BY DEF Args!Words, ArgsProofs!Words, Args!FindIn, ArgsProofs!FindIn, Args!Min,
     ArgsProofs!Min, Args!From, ArgsProofs!From, Args!Chars, ArgsProofs!Chars

LEMMA SameLists ==
    /\ Args!Concat = ArgsProofs!Concat /\ Args!Spaced = ArgsProofs!Spaced
    /\ Args!Nonempty = ArgsProofs!Nonempty
  BY DEF Args!Concat, ArgsProofs!Concat, Args!Spaced, ArgsProofs!Spaced,
     Args!Nonempty, ArgsProofs!Nonempty, Args!Chars, ArgsProofs!Chars,
     Args!delimiter, ArgsProofs!delimiter

LEMMA SameTexts ==
    /\ \A s : Args!splitString(s) = ArgsProofs!splitString(s)
    /\ \A l : Args!concatString(l) = ArgsProofs!concatString(l)
    /\ \A s : Args!getArgs(s) = ArgsProofs!getArgs(s)
    /\ \A e, l : Args!cmdLine(e, l) = ArgsProofs!cmdLine(e, l)
    /\ \A s : Args!MainArgs(s) = ArgsProofs!MainArgs(s)
    /\ \A e, l : Args!buildChildArgv(e, l) = ArgsProofs!buildChildArgv(e, l)
<1>1. \A s : Args!splitString(s) = ArgsProofs!splitString(s)
  BY SameSplit DEF Args!splitString, ArgsProofs!splitString
<1>2. \A l : Args!concatString(l) = ArgsProofs!concatString(l)
  BY SameLists DEF Args!concatString, ArgsProofs!concatString
<1>3. \A s : Args!getArgs(s) = ArgsProofs!getArgs(s)
  BY SameWords DEF Args!getArgs, ArgsProofs!getArgs
<1>4. \A e, l : Args!cmdLine(e, l) = ArgsProofs!cmdLine(e, l)
  BY SameLists DEF Args!cmdLine, ArgsProofs!cmdLine
<1>5. \A s : Args!MainArgs(s) = ArgsProofs!MainArgs(s)
  BY <1>3 DEF Args!MainArgs, ArgsProofs!MainArgs, Args!Last, ArgsProofs!Last,
     Args!Front, ArgsProofs!Front
<1>6. \A e, l : Args!buildChildArgv(e, l) = ArgsProofs!buildChildArgv(e, l)
  BY DEF Args!buildChildArgv, ArgsProofs!buildChildArgv
<1> QED  BY <1>1, <1>2, <1>3, <1>4, <1>5, <1>6

LEMMA SameArgsInit == Args!Init => ArgsProofs!Init
  BY DEF Args!Init, ArgsProofs!Init, Args!Text, ArgsProofs!Text, Args!Lists, ArgsProofs!Lists

LEMMA SameArgsNext == Args!Next => ArgsProofs!Next
<1>1. Args!GetArgs => ArgsProofs!GetArgs
  BY SameTexts DEF Args!GetArgs, ArgsProofs!GetArgs
<1>2. Args!AddTask => ArgsProofs!AddTask
  BY SameTexts DEF Args!AddTask, ArgsProofs!AddTask
<1>3. Args!LoopPick => ArgsProofs!LoopPick
  BY SameTexts DEF Args!LoopPick, ArgsProofs!LoopPick
<1>4. Args!StartChild => ArgsProofs!StartChild
  BY SameTexts DEF Args!StartChild, ArgsProofs!StartChild
<1>5. Args!CreateChildProcess => ArgsProofs!CreateChildProcess
  BY SameTexts DEF Args!CreateChildProcess, ArgsProofs!CreateChildProcess
<1>6. Args!LoopFin => ArgsProofs!LoopFin
  BY SameTexts DEF Args!LoopFin, ArgsProofs!LoopFin
<1> QED  BY <1>1, <1>2, <1>3, <1>4, <1>5, <1>6 DEF Args!Next, ArgsProofs!Next

\* A behaviour of the arguments, or of another subject, is one of TaskArgs.
LEMMA ArgsImplements == MCSpec => ArgsProofs!Init /\ [][ArgsProofs!Next]_(ArgsProofs!argVars)
<1>1. MCInit => ArgsProofs!Init
  BY SameArgsInit DEF MCInit
<1>2. UNCHANGED argVars => UNCHANGED ArgsProofs!argVars
  BY DEF argVars, ArgsProofs!argVars
<1>3. Linux(Next) \/ Windows(Win!Next) \/ UNCHANGED allVars => UNCHANGED argVars
  BY DEF Linux, Windows, allVars
<1>4. Arguments(Args!Next) => ArgsProofs!Next
  BY SameArgsNext DEF Arguments
<1>5. [MCNext]_allVars => [ArgsProofs!Next]_(ArgsProofs!argVars)
  BY <1>2, <1>3, <1>4 DEF MCNext
<1> QED  BY <1>1, <1>5, PTL DEF MCSpec

LEMMA SameClean == \A l : Args!Clean(l) <=> ArgsProofs!Clean(l)
  BY SameFinding DEF Args!Clean, ArgsProofs!Clean, Args!Last, ArgsProofs!Last

\* For arguments of any length: they come out of the file as they went in
\* exactly if there are any and none is taken apart, and a finished task is listed with
\* what its program got.  (splitString, concatString, mainLoopInit, mainLoopFin)
THEOREM ArgsSurvivalHolds == MCSpec => []ArgsSurvive
<1>1. ArgsProofs!Init /\ [][ArgsProofs!Next]_(ArgsProofs!argVars) => []ArgsProofs!ArgsSurvive
  BY WinConstants, ArgsProofs!ArgumentsSurvive DEF ArgsProofs!Spec
<1>2. ArgsProofs!ArgsSurvive => ArgsSurvive
  BY SameTexts, SameClean DEF ArgsSurvive, ArgsProofs!ArgsSurvive, Args!ArgsSurvive
<1> QED  BY <1>1, <1>2, ArgsImplements, PTL

\* Such arguments reach the program, on Windows without the empty ones, and a request
\* without arguments gives an empty one on Linux.  (buildChildArgv, CreateChildProcess)
THEOREM ProgramsGetArgs == MCSpec => []ProgramGetsArgs
<1>1. ArgsProofs!Init /\ [][ArgsProofs!Next]_(ArgsProofs!argVars) => []ArgsProofs!ProgramGetsArgs
  BY WinConstants, ArgsProofs!ProgramHasArguments DEF ArgsProofs!Spec
<1>2. ArgsProofs!ProgramGetsArgs => ProgramGetsArgs
  BY SameLists, SameClean DEF ProgramGetsArgs, ArgsProofs!ProgramGetsArgs, Args!ProgramGetsArgs
<1> QED  BY <1>1, <1>2, ArgsImplements, PTL

\* The words of a line of any length are its longest parts without a space, in their
\* order, and an empty one if it ends with a space.  (Args::getArgs)
THEOREM LinesHaveWords == MCSpec => []WordsOfLine
<1>1. ArgsProofs!Init /\ [][ArgsProofs!Next]_(ArgsProofs!argVars) => []ArgsProofs!WordsOfLine
  BY WinConstants, ArgsProofs!LineHasWords DEF ArgsProofs!Spec
<1>2. ArgsProofs!WordsOfLine => WordsOfLine
  BY DEF WordsOfLine, ArgsProofs!WordsOfLine, Args!WordsOfLine, Args!AreWords,
     ArgsProofs!AreWords, Args!IsLongest, ArgsProofs!IsLongest, Args!Ink, ArgsProofs!Ink,
     Args!Last, ArgsProofs!Last
<1> QED  BY <1>1, <1>2, ArgsImplements, PTL
=============================================================================
