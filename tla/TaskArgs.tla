------------------------------ MODULE TaskArgs ------------------------------
(***************************************************************************)
(* The arguments of a task on their way from the command line of the CLI   *)
(* to the program: words of a line (controller/cli/args.cpp), one text in  *)
(* a row of the file (model/dao/sqlitequeue.cpp), and argv of the child on *)
(* Linux or its command line on Windows (model/proc).                      *)
(*                                                                         *)
(* A text is a sequence of the characters that mean something to one of    *)
(* these, and "x", which stands for all others.                            *)
(***************************************************************************)
EXTENDS Integers, SequencesExt

CONSTANT MaxLength   \* bound: of a line, of one argument or of two together

VARIABLES
    stage,     \* how far they are
    line,      \* what is typed
    words,     \* its words; the arguments of an AddTask request
    row,       \* the column args of the task's row
    args,      \* m_currentTask.args
    argv       \* what the program finds

argVars == <<stage, line, words, row, args, argv>>

Chars == {"_", ",", " ", "x"}
Text(chars, max) == UNION {[1..n -> chars] : n \in 0..max}
Lists(chars) ==
    {<<>>} \cup {<<s>> : s \in Text(chars, MaxLength)}
           \cup UNION {Text(chars, n) \X Text(chars, MaxLength - n) : n \in 0..MaxLength}

delimiter == <<"_", "_", ",", "_", "_">>

\* std::string::find, 0 for npos.
FindIn(s, d) ==
    LET places == {i \in 1..(Len(s) - Len(d) + 1) : SubSeq(s, i, i + Len(d) - 1) = d}
    IN  IF places = {} THEN 0 ELSE Min(places)
From(s, i) == SubSeq(s, i, Len(s))

\* What is between the delimiters, the text behind the last one included.
\* Mutant: only if there is any.
SplitNonempty(s) ==
    LET Split[t \in Seq(Chars)] ==
          LET pos == FindIn(t, delimiter)
          IN  IF pos = 0 THEN (IF t = <<>> THEN <<>> ELSE <<t>>)
              ELSE <<SubSeq(t, 1, pos - 1)>> \o Split[From(t, pos + Len(delimiter))]
    IN  Split[s]
Split[s \in Seq(Chars)] ==
    LET pos == FindIn(s, delimiter)
    IN  IF pos = 0 THEN <<s>>
        ELSE <<SubSeq(s, 1, pos - 1)>> \o Split[From(s, pos + Len(delimiter))]
splitString(s) == Split[s]

Concat[list \in Seq(Seq(Chars))] ==
    IF list = <<>> THEN <<>>
    ELSE IF Len(list) = 1 THEN Head(list)
    ELSE Head(list) \o delimiter \o Concat[Tail(list)]
concatString(list) == Concat[list]

-----------------------------------------------------------------------------
(* The command line of the CLI: empty words are dropped, except the last.    *)

\* Mutant: the last one, too.
getArgsNonempty(text) ==
    LET Words[s \in Seq(Chars)] ==
          LET pos  == FindIn(s, <<" ">>)
              word == IF pos = 0 THEN s ELSE SubSeq(s, 1, pos - 1)
          IN  (IF word = <<>> THEN <<>> ELSE <<word>>)
                \o (IF pos = 0 THEN <<>> ELSE Words[From(s, pos + 1)])
    IN  Words[text]
Words[s \in Seq(Chars)] ==
    LET pos == FindIn(s, <<" ">>)
    IN  IF pos = 0 THEN <<s>>
        ELSE (IF pos = 1 THEN <<>> ELSE <<SubSeq(s, 1, pos - 1)>>) \o Words[From(s, pos + 1)]
getArgs(text) == Words[text]

-----------------------------------------------------------------------------
(* The program. *)

buildChildArgv(execName, list) == <<execName>> \o list

\* CreateChildProcess: everything is followed by a space, and taken apart by the
\* program's runtime.
\* Mutant: only the name of the program is.
OneSpace(execName, list) ==
    IF list = <<>> THEN execName ELSE FoldLeft(LAMBDA s, arg : s \o arg, execName \o <<" ">>, list)
Spaced[list \in Seq(Seq(Chars))] ==
    IF list = <<>> THEN <<>> ELSE Head(list) \o <<" ">> \o Spaced[Tail(list)]
cmdLine(execName, list) ==
    IF list = <<>> THEN execName ELSE execName \o <<" ">> \o Spaced[list]

\* No word of it is empty.
MainArgs(text) ==
    LET found == getArgs(text)
    IN  IF Last(found) = <<>> THEN Front(found) ELSE found

-----------------------------------------------------------------------------
(* A line is typed, or a client sends a request, of which nothing is known.  *)

Init ==
    /\ row = <<>> /\ args = <<>> /\ argv = <<>>
    /\ \/ stage = "line" /\ words = <<>> /\ line \in Text({" ", "x"}, MaxLength)
       \/ stage = "request" /\ line = <<>> /\ words \in Lists({"_", ",", "x"})

\* An empty line is asked for again.
GetArgs ==
    /\ stage = "line" /\ line # <<>> /\ stage' = "typed"
    /\ words' = getArgs(line)
    /\ UNCHANGED <<line, row, args, argv>>

AddTask ==
    /\ stage = "request" /\ stage' = "pending"
    /\ row' = concatString(words)
    /\ UNCHANGED <<line, words, args, argv>>

LoopPick ==
    /\ stage = "pending" /\ stage' = "current"
    /\ args' = splitString(row)
    /\ UNCHANGED <<line, words, row, argv>>

StartChild ==
    /\ stage = "current" /\ stage' = "linux"
    /\ argv' = buildChildArgv(<<"x">>, args)
    /\ UNCHANGED <<line, words, row, args>>

CreateChildProcess ==
    /\ stage = "current" /\ stage' = "windows"
    /\ argv' = MainArgs(cmdLine(<<"x">>, args))
    /\ UNCHANGED <<line, words, row, args>>

\* It is in the other table afterwards.
LoopFin ==
    /\ stage \in {"linux", "windows"} /\ stage' = "done"
    /\ row' = concatString(args)
    /\ UNCHANGED <<line, words, args, argv>>

Next == GetArgs \/ AddTask \/ LoopPick \/ StartChild \/ CreateChildProcess \/ LoopFin

Spec == Init /\ [][Next]_argVars

-----------------------------------------------------------------------------
(* Properties. *)

\* Arguments come out of the file as they went in exactly if there are any and none,
\* except the last, ends in something that its delimiter completes too early, a
\* delimiter of its own included: concatString escapes nothing.  What came out is what
\* a finished task is listed with.  (addTask, mainLoopInit, mainLoopFin)
Clean(list) ==
    /\ list # <<>>
    /\ FindIn(Last(list), delimiter) = 0
    /\ \A i \in 1..(Len(list) - 1) :
         FindIn(list[i] \o delimiter, delimiter) = Len(list[i]) + 1
ArgsSurvive ==
    /\ stage = "current" => (args = words <=> Clean(words))
    /\ stage = "done" => row = concatString(words) /\ splitString(row) = args

\* What survives reaches the program, on Linux as it is, on Windows without empty
\* arguments; a request without arguments gives it an empty one on Linux.
\* (splitString, buildChildArgv, CreateChildProcess)
Nonempty[list \in Seq(Seq(Chars))] ==
    IF list = <<>> THEN <<>>
    ELSE (IF Head(list) = <<>> THEN <<>> ELSE <<Head(list)>>) \o Nonempty[Tail(list)]
ProgramGetsArgs ==
    LET Finds(list) == argv = <<(<<"x">>)>> \o list
    IN  /\ stage = "linux" /\ Clean(words) => Finds(words)
        /\ stage = "linux" /\ words = <<>> => Finds(<<(<<>>)>>)
        /\ stage = "windows" /\ (Clean(words) \/ words = <<>>) => Finds(Nonempty[words])

\* The words of a line are its longest parts without a space, in their order, and an
\* empty one if it ends with a space.  (Args::getArgs)
Ink(text, i) == i \in 1..Len(text) /\ text[i] # " "
IsLongest(text, from, part) ==
    LET to == from + Len(part) - 1
    IN  /\ part # <<>> /\ part = SubSeq(text, from, to)
        /\ \A i \in from..to : Ink(text, i)
        /\ ~Ink(text, from - 1) /\ ~Ink(text, to + 1)
AreWords(list, text) ==
    LET spaceLast == Last(text) = " "
        n == IF spaceLast THEN Len(list) - 1 ELSE Len(list)
    IN  /\ spaceLast => list # <<>> /\ Last(list) = <<>>
        /\ \E from \in [1..n -> 1..Len(text)] :
             /\ \A k \in 1..n : IsLongest(text, from[k], list[k])
             /\ \A k, l \in 1..n : k < l => from[k] < from[l]
             /\ \A i \in 1..Len(text) :
                  Ink(text, i) /\ ~Ink(text, i - 1) => \E k \in 1..n : from[k] = i
WordsOfLine == stage = "typed" => AreWords(words, line)
=============================================================================
