------------------------------ MODULE MCReader ------------------------------
(***************************************************************************)
(* Instances for TLC of ProcReader and WinReader, the two implementations  *)
(* of IProc, of which a build has one, and of TaskArgs, what they start a  *)
(* program with.  A behaviour is one of one of the three.                  *)
(***************************************************************************)
EXTENDS ProcReader

CONSTANTS MaxStops, Faults, MaxLength


VARIABLES
    subject,
    winMainPc, winTask, m_childStdoutRead, m_childStdoutWrite, m_procInfo, m_pseudoConsole,
    m_exitCode, stopPc, stops, winChild, pipe, winWritten, winReaderPc, reads, winBuf, winDeque,
    recorded, winGiven, disturbed, winStrayed,
    stage, line, words, row, args, argv

Args == INSTANCE TaskArgs
Win == INSTANCE WinReader WITH
         mainPc <- winMainPc, task <- winTask, child <- winChild, written <- winWritten,
         readerPc <- winReaderPc, buf <- winBuf, m_deque <- winDeque, given <- winGiven,
         strayed <- winStrayed

ASSUME WinConstants == Win!ConstantsOK /\ MaxLength \in Nat

winVars ==
    <<winMainPc, winTask, m_childStdoutRead, m_childStdoutWrite, m_procInfo, m_pseudoConsole,
      m_exitCode, stopPc, stops, winChild, pipe, winWritten, winReaderPc, reads, winBuf,
      winDeque, recorded, winGiven, disturbed, winStrayed>>
argVars == <<stage, line, words, row, args, argv>>
allVars == <<subject, vars, winVars, argVars>>

\* What is not the subject stays as it is initially.
NoArgs == line = <<>> /\ words = <<>>
MCInit ==
    /\ subject \in {"linux", "windows", "arguments"} /\ Init /\ Win!Init /\ Args!Init
    /\ subject # "arguments" => stage = "line" /\ NoArgs

Linux(Action) == subject = "linux" /\ Action /\ UNCHANGED <<subject, winVars, argVars>>
Windows(Action) == subject = "windows" /\ Action /\ UNCHANGED <<subject, vars, argVars>>
Arguments(Action) == subject = "arguments" /\ Action /\ UNCHANGED <<subject, vars, winVars>>

MCNext == Linux(Next) \/ Windows(Win!Next) \/ Arguments(Args!Next)

\* The fairness of either.
MainStep == Linux(Main) \/ Windows(Win!Main)
ReaderStep(t) == Linux(Reader(t)) \/ Windows(Win!Reader(t))
ExitStep(t) == Linux(Exit(t)) \/ Windows(Win!Exit(t))
MCSpec ==
    /\ MCInit /\ [][MCNext]_allVars
    /\ WF_allVars(MainStep) /\ WF_allVars(Windows(Win!StopReset))
    /\ \A t \in T : WF_allVars(ReaderStep(t)) /\ WF_allVars(ExitStep(t))

-----------------------------------------------------------------------------
(* Properties, each as it is stated in WinReader and TaskArgs.  *)

\* Types of the Windows build.
WinTypeOK == Win!TypeOK

\* Output in order, each chunk once.
WinOutputInOrder == Win!OutputInOrder

\* A finished task has left nothing in its pipe.
WholeOutput == Win!WholeOutput

\* A finished task has its own exit code.
CodeIsOwn == Win!CodeIsOwn

\* Arguments survive the file.
ArgsSurvive == Args!ArgsSurvive

\* The program gets what survives.
ProgramGetsArgs == Args!ProgramGetsArgs

\* The words of a line of the CLI.
WordsOfLine == Args!WordsOfLine

\* Every task of the Windows build ends.
EveryTaskEnds == subject = "windows" => Win!EveryTaskEnds

\* The end of the Windows build's queue.
WinDestructorReturns == subject = "windows" => Win!DestructorReturns
=============================================================================
