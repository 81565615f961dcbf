--------------------------- MODULE QueueListProofs ---------------------------
(***************************************************************************)
(* Theorems about QueueList, for every number of names, handlers, queues   *)
(* and deaths of the server, and any calls and faults.                     *)
(***************************************************************************)
EXTENDS QueueList, TLAPS

-----------------------------------------------------------------------------
(* Threads: what each has, depending on where it is.                       *)

Building == {"look", "make", "row", "close"}
ThreadPart(t) ==
    /\ pc[t] \in {"idle", "open"} => obj[t] = None
    /\ pc[t] \in Building \cup {"use", "release", "destroy"} => obj[t] \in Queues
    /\ pc[t] \in {"open", "in"} \cup Building => Name(t) \in Names
    /\ pc[t] \in {"open"} \cup Building => Kind(t) = "create"
    /\ pc[t] = "in" =>
         /\ IF Kind(t) = "create" THEN obj[t] \in Queues ELSE obj[t] = None
         /\ Kind(t) = "rename" => op[t].to \in Names
    /\ pc[t] \in {"release", "destroy"} /\ Kind(t) = "erase" => Name(t) \in Names
    /\ pc[t] = "use" => Kind(t) = "done"
    /\ pc[t] \in {"release", "destroy"} => Kind(t) # "create"

TypeInv == TypeOK /\ \A t \in Threads : ThreadPart(t)

Labels == {"idle", "open", "look", "make", "row", "close", "in", "use", "release", "destroy"}
Kinds == Ops \cup {"none", "create", "erase", "done"}
Op == [kind : Kinds, name : Names \cup {None}, to : Names \cup {None}]
Codes == {<<a, b, c>> : a, b, c \in 0..2}
Loops == {"off", "on", "stopping", "hung"}

\* What a step of t leaves alone.
Others(t) ==
    \A u \in Threads : u # t =>
       pc'[u] = pc[u] /\ op'[u] = op[u] /\ obj'[u] = obj[u] /\ at'[u] = at[u]

\* The codes are a triple.
LEMMA SetCode ==
    ASSUME NEW codes \in Codes, NEW i \in 1..3, NEW code \in 0..2
    PROVE  /\ [codes EXCEPT ![i] = code] \in Codes
           /\ \A j \in 1..3 : [codes EXCEPT ![i] = code][j] = IF j = i THEN code ELSE codes[j]
<1>1. PICK a \in 0..2, b \in 0..2, c \in 0..2 : codes = <<a, b, c>>
  BY DEF Codes
<1>2. CASE i = 1
  <2>1. [codes EXCEPT ![i] = code] = <<code, b, c>>
    BY <1>1, <1>2
  <2> QED  BY <1>1, <1>2, <2>1 DEF Codes
<1>3. CASE i = 2
  <2>1. [codes EXCEPT ![i] = code] = <<a, code, c>>
    BY <1>1, <1>3
  <2> QED  BY <1>1, <1>3, <2>1 DEF Codes
<1>4. CASE i = 3
  <2>1. [codes EXCEPT ![i] = code] = <<a, b, code>>
    BY <1>1, <1>4
  <2> QED  BY <1>1, <1>4, <2>1 DEF Codes
<1> QED  BY <1>2, <1>3, <1>4

\* Where a thread goes.
LEMMA Going ==
    ASSUME TypeOK, NEW t \in Threads, NEW label \in Labels, Goto(t, label)
    PROVE  /\ pc' \in [Threads -> Labels] /\ pc'[t] = label
           /\ \A u \in Threads : u # t => pc'[u] = pc[u]
BY DEF TypeOK, Goto, Labels

LEMMA Ending ==
    ASSUME TypeOK, NEW t \in Threads, Ends(t)
    PROVE  /\ pc' \in [Threads -> Labels] /\ pc'[t] = "idle"
           /\ op' \in [Threads -> Op] /\ op'[t] = NoOp
           /\ \A u \in Threads : u # t => pc'[u] = pc[u] /\ op'[u] = op[u]
<1>1. NoOp \in Op
  BY DEF NoOp, Op, Kinds
<1>2. Goto(t, "idle") /\ op' = [op EXCEPT ![t] = NoOp] /\ op \in [Threads -> Op]
  BY DEF Ends, TypeOK, Op, Kinds
<1> QED  BY <1>1, <1>2, Going DEF Labels

\* Another call.
LEMMA SetCall ==
    ASSUME TypeOK, NEW t \in Threads, NEW call \in Op, op' = [op EXCEPT ![t] = call]
    PROVE  /\ op' \in [Threads -> Op] /\ op'[t] = call
           /\ \A u \in Threads : u # t => op'[u] = op[u]
BY DEF TypeOK, Op, Kinds

\* The calls that a thread ends with.
LEMMA LastCalls ==
    /\ Done \in Op /\ Done.kind = "done"
    /\ \A call \in Op : /\ Erasing(call) \in Op
                        /\ Erasing(call).kind = "erase" /\ Erasing(call).name = call.name
BY DEF Done, NoOp, Erasing, Op, Kinds

\* A verified table.
LEMMA Verifying ==
    ASSUME TypeOK, NEW t \in Threads, NEW code \in 0..2, Verified(t, code)
    PROVE  /\ at' \in [Threads -> 1..3] /\ rc' \in [Threads -> Codes]
           /\ pc' \in [Threads -> Labels]
           /\ \A u \in Threads : u # t =>
                pc'[u] = pc[u] /\ at'[u] = at[u] /\ rc'[u] = rc[u]
           /\ LET codes  == [rc[t] EXCEPT ![at[t]] = code]
                  failed == at[t] = 1 /\ code = 1
              IN  \/ /\ ~failed /\ at[t] < 3 /\ pc'[t] = "look"
                     /\ at'[t] = at[t] + 1 /\ rc'[t] = codes
                  \/ at'[t] = 1 /\ pc'[t] = "close"
                  \/ ~failed /\ AllAgree(codes) /\ at[t] = 3 /\ at'[t] = 1 /\ pc'[t] = "in"
<1> DEFINE codes == [rc[t] EXCEPT ![at[t]] = code]
           failed == at[t] = 1 /\ code = 1
<1>1. /\ at \in [Threads -> 1..3] /\ at[t] \in 1..3 /\ rc \in [Threads -> Codes]
      /\ rc[t] \in Codes
  BY DEF TypeOK, Codes
<1>2. codes \in Codes /\ <<0, 0, 0>> \in Codes
  <2>1. <<0, 0, 0>> \in Codes
    BY DEF Codes
  <2> QED  BY <1>1, <2>1, SetCode
<1>3. CASE ~failed /\ at[t] < 3
  <2>1. /\ rc' = [rc EXCEPT ![t] = codes] /\ at' = [at EXCEPT ![t] = @ + 1]
        /\ Goto(t, "look")
    BY <1>3 DEF Verified, LastTable
  <2>2. at[t] + 1 \in 1..3
    BY <1>1, <1>3
  <2> HIDE DEF codes, failed
  <2>3. /\ at' \in [Threads -> 1..3] /\ rc' \in [Threads -> Codes]
        /\ at'[t] = at[t] + 1 /\ rc'[t] = codes
        /\ \A u \in Threads : u # t => at'[u] = at[u] /\ rc'[u] = rc[u]
    BY <1>1, <1>2, <2>1, <2>2
  <2>4. /\ pc' \in [Threads -> Labels] /\ pc'[t] = "look"
        /\ \A u \in Threads : u # t => pc'[u] = pc[u]
    BY <2>1, Going DEF Labels
  <2> QED  BY <1>3, <2>3, <2>4 DEF codes, failed
<1>4. CASE ~(~failed /\ at[t] < 3)
  <2>1. /\ rc' = [rc EXCEPT ![t] = <<0, 0, 0>>] /\ at' = [at EXCEPT ![t] = 1]
        /\ Goto(t, IF failed \/ ~AllAgree(codes) THEN "close" ELSE "in")
    BY <1>4 DEF Verified, LastTable
  <2>2. ~failed => at[t] = 3
    BY <1>1, <1>4
  <2> HIDE DEF codes, failed
  <2>3. /\ at' \in [Threads -> 1..3] /\ rc' \in [Threads -> Codes] /\ at'[t] = 1
        /\ \A u \in Threads : u # t => at'[u] = at[u] /\ rc'[u] = rc[u]
    BY <1>1, <1>2, <2>1
  <2>4. PICK label \in {"close", "in"} :
          /\ Goto(t, label) /\ label = IF failed \/ ~AllAgree(codes) THEN "close" ELSE "in"
    BY <2>1
  <2>5. /\ pc' \in [Threads -> Labels] /\ pc'[t] = label
        /\ \A u \in Threads : u # t => pc'[u] = pc[u]
    BY <2>4, Going DEF Labels
  <2> QED  BY <1>4, <2>2, <2>3, <2>4, <2>5 DEF codes, failed
<1> QED  BY <1>3, <1>4

\* A new process is of the right type and at rest.
LEMMA FreshTypes ==
    ASSUME Fresh
    PROVE  /\ promise' \in BOOLEAN /\ m_queueList' \in [Names -> Queues \cup {None}]
           /\ path' \in [Queues -> Names \cup {None}] /\ loop' \in [Queues -> {"off"}]
           /\ lost' = {}
           /\ pc' \in [Threads -> Labels] /\ op' \in [Threads -> Op]
           /\ obj' \in [Threads -> Queues \cup {None}]
           /\ at' \in [Threads -> 1..3] /\ rc' \in [Threads -> Codes]
           /\ \A t \in Threads : pc'[t] = "idle" /\ obj'[t] = None /\ at'[t] = 1
           /\ \A n \in Names : m_queueList'[n] = None
           /\ \A q \in Queues : path'[q] = None /\ loop'[q] = "off"
<1>1. NoOp \in Op /\ <<0, 0, 0>> \in Codes
  <2>1. <<0, 0, 0>> \in Codes
    BY DEF Codes
  <2> QED  BY <2>1 DEF NoOp, Op, Kinds
<1>2. op' \in [Threads -> Op] /\ rc' \in [Threads -> Codes]
  BY <1>1 DEF Fresh
<1>3. at' \in [Threads -> 1..3] /\ \A t \in Threads : at'[t] = 1
  BY DEF Fresh
<1>4. pc' \in [Threads -> Labels] /\ \A t \in Threads : pc'[t] = "idle"
  BY DEF Fresh, Labels
<1>5. obj' \in [Threads -> Queues \cup {None}] /\ \A t \in Threads : obj'[t] = None
  BY DEF Fresh
<1> QED  BY <1>2, <1>3, <1>4, <1>5 DEF Fresh

\* What a thread must keep is about itself.
LEMMA OnlyOwn ==
    ASSUME TypeInv, NEW t \in Threads, Others(t), ThreadPart(t)'
    PROVE  \A u \in Threads : ThreadPart(u)'
<1> SUFFICES ASSUME NEW u \in Threads, u # t PROVE ThreadPart(u)'
  OBVIOUS
<1>1. pc'[u] = pc[u] /\ op'[u] = op[u] /\ obj'[u] = obj[u] /\ ThreadPart(u)
  BY DEF Others, TypeInv
<1> QED  BY <1>1 DEF ThreadPart, Name, Kind

\* The variables of the threads.
ThreadTypes ==
    /\ pc \in [Threads -> Labels] /\ op \in [Threads -> Op]
    /\ obj \in [Threads -> Queues \cup {None}]
    /\ at \in [Threads -> 1..3] /\ rc \in [Threads -> Codes]
OtherTypes ==
    /\ file \in [Names -> SUBSET Parts]
    /\ server \in {"down", "boot", "ready", "up", "closing", "ending", "over"}
    /\ todo \subseteq Names /\ promise \in BOOLEAN
    /\ m_queueList \in [Names -> Queues \cup {None}]
    /\ path \in [Queues -> Names \cup {None}]
    /\ loop \in [Queues -> Loops] /\ lost \subseteq Queues
    /\ shared \subseteq Names /\ deaths \in 0..MaxDeaths

LEMMA Types == TypeOK <=> ThreadTypes /\ OtherTypes
BY DEF TypeOK, ThreadTypes, OtherTypes, Labels, Op, Kinds, Codes, Loops

LEMMA TypesNext == ThreadTypes' /\ OtherTypes' => TypeOK'
BY DEF TypeOK, ThreadTypes, OtherTypes, Labels, Op, Kinds, Codes, Loops

LEMMA TypeInit == Init => TypeInv
<1> SUFFICES ASSUME Init PROVE TypeInv
  OBVIOUS
<1>1. NoOp \in Op /\ <<0, 0, 0>> \in Codes
  <2>1. <<0, 0, 0>> \in Codes
    BY DEF Codes
  <2> QED  BY <2>1 DEF NoOp, Op, Kinds
<1>2. ThreadTypes
  <2>1. op \in [Threads -> Op] /\ rc \in [Threads -> Codes]
    BY <1>1 DEF Init
  <2>2. at \in [Threads -> 1..3]
    BY DEF Init
  <2> QED  BY <2>1, <2>2 DEF Init, ThreadTypes, Labels
<1>3. OtherTypes
  <2>1. file \in [Names -> SUBSET Parts]
    BY DEF Init
  <2>2. deaths \in 0..MaxDeaths
    BY MaxDeathsIsNat DEF Init
  <2> QED  BY <2>1, <2>2 DEF Init, OtherTypes, Loops
<1>4. \A t \in Threads : ThreadPart(t)
  BY DEF Init, ThreadPart, Building
<1> QED  BY <1>2, <1>3, <1>4, Types DEF TypeInv

\* A death leaves the types right.
LEMMA TypeDies ==
    ASSUME TypeInv, ServerDies, file' \in [Names -> SUBSET Parts], shared' = shared,
           deaths' \in 0..MaxDeaths
    PROVE  TypeInv'
<1>1. Fresh /\ server' = "down" /\ todo' = {}
  BY DEF ServerDies
<1>2. ThreadTypes' /\ OtherTypes'
  BY <1>1, FreshTypes, Types DEF ThreadTypes, OtherTypes, Loops, TypeInv
<1>3. \A t \in Threads : ThreadPart(t)'
  BY <1>1, FreshTypes DEF ThreadPart, Building
<1>4. TypeOK'
  BY <1>2, TypesNext
<1> QED  BY <1>3, <1>4 DEF TypeInv

\* Where no thread moves.
LEMMA TypeStays ==
    ASSUME TypeInv, UNCHANGED threads, OtherTypes'
    PROVE  TypeInv'
<1>1. UNCHANGED <<pc, op, obj, at, rc>>
  BY DEF threads, connecting
<1>2. ThreadTypes'
  BY <1>1, Types DEF TypeInv, ThreadTypes
<1>3. TypeOK'
  BY <1>2, TypesNext
<1>4. \A t \in Threads : ThreadPart(t)'
  BY <1>1 DEF TypeInv, ThreadPart, Name, Kind
<1> QED  BY <1>3, <1>4 DEF TypeInv

\* Where one does.
LEMMA TypeMoves ==
    ASSUME TypeInv, NEW t \in Threads, Others(t), ThreadPart(t)', ThreadTypes', OtherTypes'
    PROVE  TypeInv'
BY OnlyOwn, TypesNext DEF TypeInv

LEMMA TypeServer ==
    ASSUME TypeInv,
           \/ Crash \/ Restart \/ Listen \/ Signal \/ Shutdown \/ Closed \/ Dropped \/ Terminate
           \/ \E q \in Queues : LoopEnds(q) \/ LoopHangs(q)
           \/ \E t \in Threads : Corrupt(t)
           \/ UNCHANGED vars
    PROVE  TypeInv'
<1>1. ThreadTypes /\ OtherTypes
  BY Types DEF TypeInv
<1>2. CASE ServerDies
  <2>1. file' = file /\ shared' = shared /\ deaths' \in 0..MaxDeaths
    <3>1. /\ file' = file /\ shared' = shared
          /\ (deaths' \in {0, deaths} \/ (deaths < MaxDeaths /\ deaths' = deaths + 1))
      BY <1>2 DEF Crash, Restart, Listen, Signal, Shutdown, Closed, Dropped, Terminate,
         LoopEnds, LoopHangs, Corrupt, history, vars
    <3>2. deaths \in 0..MaxDeaths
      BY <1>1 DEF OtherTypes
    <3> QED  BY <3>1, <3>2, MaxDeathsIsNat
  <2> QED  BY <1>1, <1>2, <2>1, TypeDies DEF OtherTypes
<1>3. CASE ~ServerDies
  <2>1. UNCHANGED threads
    BY <1>3 DEF Crash, Restart, Listen, Signal, Shutdown, Closed, Dropped, Terminate,
       LoopEnds, LoopHangs, Corrupt, history, vars
  <2>2. UNCHANGED <<file, m_queueList, path, lost, shared>>
    BY <1>3 DEF Crash, Restart, Listen, Signal, Shutdown, Closed, Dropped, Terminate,
       LoopEnds, LoopHangs, Corrupt, history, vars, queues
  <2>3. deaths' \in 0..MaxDeaths /\ promise' \in BOOLEAN
    <3>1. deaths' \in {0, deaths} \/ (deaths < MaxDeaths /\ deaths' = deaths + 1)
      BY <1>3 DEF Crash, Restart, Listen, Signal, Shutdown, Closed, Dropped, Terminate,
         LoopEnds, LoopHangs, Corrupt, history, vars
    <3>2. promise' \in {TRUE, promise}
      BY <1>3 DEF Crash, Restart, Listen, Signal, Shutdown, Closed, Dropped, Terminate,
         LoopEnds, LoopHangs, Corrupt, history, vars, process
    <3>3. deaths \in 0..MaxDeaths /\ promise \in BOOLEAN
      BY <1>1 DEF OtherTypes
    <3>4. deaths' \in 0..MaxDeaths
      BY <3>1, <3>3, MaxDeathsIsNat
    <3> QED  BY <3>2, <3>3, <3>4
  <2>4. /\ server' \in {"down", "boot", "ready", "up", "closing", "ending", "over"}
        /\ todo' \subseteq Names
    BY <1>1, <1>3 DEF OtherTypes, Loops, Crash, Restart, Listen, Signal, Shutdown, Closed, Dropped,
       Terminate, LoopEnds, LoopHangs, Corrupt, history, vars, process
  <2>5. loop' \in [Queues -> Loops]
    BY <1>1, <1>3 DEF OtherTypes, Loops, Crash, Restart, Listen, Signal, Shutdown, Closed, Dropped,
       Terminate, LoopEnds, LoopHangs, Corrupt, history, vars, queues
  <2>6. OtherTypes'
    BY <1>1, <2>2, <2>3, <2>4, <2>5 DEF OtherTypes
  <2> QED  BY <2>1, <2>6, TypeStays
<1> QED  BY <1>2, <1>3

LEMMA TypeBoot ==
    ASSUME TypeInv, BootNext \/ DropNext
    PROVE  TypeInv'
<1>1. ThreadTypes /\ OtherTypes /\ Boot \in Threads
  BY Types DEF TypeInv, Threads
<1>2. CASE BootNext /\ todo = {}
  <2>1. UNCHANGED threads /\ OtherTypes'
    BY <1>1, <1>2 DEF BootNext, OtherTypes, history, queues, threads, connecting
  <2> QED  BY <2>1, TypeStays
<1>3. CASE BootNext /\ todo # {}
  <2>1. PICK n \in todo :
          /\ todo' = todo \ {n}
          /\ op' = [op EXCEPT ![Boot] = [kind |-> "create", name |-> n, to |-> None]]
          /\ Goto(Boot, "open") /\ UNCHANGED <<server, file, promise, m_queueList, queues, obj,
                                               connecting, history>>
    BY <1>3 DEF BootNext
  <2>2. n \in Names
    BY <1>1 DEF OtherTypes
  <2>3. [kind |-> "create", name |-> n, to |-> None] \in Op
    BY <2>2 DEF Op, Kinds
  <2>4. op' \in [Threads -> Op] /\ op'[Boot] = [kind |-> "create", name |-> n, to |-> None]
        /\ \A u \in Threads : u # Boot => op'[u] = op[u]
    BY <1>1, <2>1, <2>3 DEF ThreadTypes
  <2>5. /\ pc' \in [Threads -> Labels] /\ pc'[Boot] = "open"
        /\ \A u \in Threads : u # Boot => pc'[u] = pc[u]
    BY <1>1, <2>1, Going DEF TypeInv, Labels
  <2>6. UNCHANGED <<obj, at, rc>>
    BY <2>1 DEF connecting
  <2>7. ThreadTypes' /\ Others(Boot)
    BY <1>1, <2>4, <2>5, <2>6 DEF ThreadTypes, Others
  <2>8. OtherTypes'
    BY <1>1, <2>1 DEF OtherTypes, history, queues
  <2>9. ThreadPart(Boot)'
    <3>1. pc[Boot] = "idle"
      BY <1>3 DEF BootNext
    <3> QED  BY <1>1, <2>2, <2>4, <2>5, <2>6, <3>1 DEF TypeInv, ThreadPart, Building, Name, Kind
  <2> QED  BY <1>1, <2>7, <2>8, <2>9, TypeMoves
<1>4. CASE DropNext
  <2>1. PICK n \in Names :
          /\ m_queueList[n] # None
          /\ m_queueList' = [m_queueList EXCEPT ![n] = None]
          /\ obj' = [obj EXCEPT ![Boot] = m_queueList[n]]
          /\ op' = [op EXCEPT ![Boot] = Done]
    BY <1>4 DEF DropNext
  <2>2. Goto(Boot, "release") /\ UNCHANGED <<file, process, queues, connecting, history>>
    BY <1>4 DEF DropNext
  <2>3. m_queueList[n] \in Queues
    BY <1>1, <2>1 DEF OtherTypes
  <2>4. /\ obj' \in [Threads -> Queues \cup {None}] /\ obj'[Boot] \in Queues
        /\ \A u \in Threads : u # Boot => obj'[u] = obj[u]
    BY <1>1, <2>1, <2>3 DEF ThreadTypes
  <2>5. op' \in [Threads -> Op] /\ op'[Boot].kind = "done"
        /\ \A u \in Threads : u # Boot => op'[u] = op[u]
    BY <1>1, <2>1, SetCall, LastCalls DEF TypeInv
  <2>6. /\ pc' \in [Threads -> Labels] /\ pc'[Boot] = "release"
        /\ \A u \in Threads : u # Boot => pc'[u] = pc[u]
    BY <1>1, <2>2, Going DEF TypeInv, Labels
  <2>7. ThreadTypes' /\ Others(Boot)
    BY <1>1, <2>2, <2>4, <2>5, <2>6 DEF ThreadTypes, Others, connecting
  <2>8. OtherTypes'
    <3>1. m_queueList' \in [Names -> Queues \cup {None}]
      BY <1>1, <2>1 DEF OtherTypes
    <3> QED  BY <1>1, <2>2, <3>1 DEF OtherTypes, history, process, queues
  <2>9. ThreadPart(Boot)'
    BY <2>4, <2>5, <2>6 DEF ThreadPart, Building, Kind
  <2> QED  BY <1>1, <2>7, <2>8, <2>9, TypeMoves
<1> QED  BY <1>2, <1>3, <1>4

LEMMA TypeCall ==
    ASSUME TypeInv, NEW t \in Handlers, Call(t)
    PROVE  TypeInv'
<1>1. ThreadTypes /\ OtherTypes /\ t \in Threads
  BY Types DEF TypeInv, Threads
<1>2. PICK k \in Ops, n \in Names, to \in Names \cup {None} :
        /\ (k = "rename") = (to # None)
        /\ op' = [op EXCEPT ![t] = [kind |-> k, name |-> n, to |-> to]]
        /\ Goto(t, IF k = "create" THEN "open" ELSE "in")
  BY DEF Call
<1>3. pc[t] = "idle" /\ UNCHANGED <<file, process, m_queueList, queues, obj, connecting, history>>
  BY DEF Call
<1>4. op'[t] = [kind |-> k, name |-> n, to |-> to] /\ op' \in [Threads -> Op]
      /\ \A u \in Threads : u # t => op'[u] = op[u]
  <2>1. [kind |-> k, name |-> n, to |-> to] \in Op
    BY DEF Op, Kinds
  <2> QED  BY <1>1, <1>2, <2>1 DEF ThreadTypes
<1>5. PICK label \in {"open", "in"} : Goto(t, label) /\ (label = "open") = (k = "create")
  BY <1>2
<1>6. /\ pc' \in [Threads -> Labels] /\ pc'[t] = label
      /\ \A u \in Threads : u # t => pc'[u] = pc[u]
  BY <1>1, <1>5, Going DEF TypeInv, Labels
<1>7. ThreadTypes' /\ Others(t)
  BY <1>1, <1>3, <1>4, <1>6 DEF ThreadTypes, Others, connecting
<1>8. OtherTypes'
  BY <1>1, <1>3 DEF OtherTypes, history, process, queues
<1>9. ThreadPart(t)'
  <2>1. obj'[t] = None
    BY <1>1, <1>3 DEF TypeInv, ThreadPart
  <2>2. Name(t)' = n /\ Kind(t)' = k /\ op'[t].to = to
    BY <1>4 DEF Name, Kind
  <2>3. pc'[t] = "open" => Kind(t)' = "create"
    BY <1>5, <1>6, <2>2
  <2>4. pc'[t] = "in" => Kind(t)' # "create" /\ (Kind(t)' = "rename" => op'[t].to \in Names)
    BY <1>2, <1>5, <1>6, <2>2
  <2> QED  BY <1>6, <2>1, <2>2, <2>3, <2>4 DEF ThreadPart, Building
<1> QED  BY <1>1, <1>7, <1>8, <1>9, TypeMoves

\* createQueue.
LEMMA TypeConnect ==
    ASSUME TypeInv, NEW t \in Threads,
           Open(t) \/ Look(t) \/ Make(t) \/ InsertRow(t) \/ Close(t)
    PROVE  TypeInv'
<1>1. ThreadTypes /\ OtherTypes /\ TypeOK /\ ThreadPart(t)
  BY Types DEF TypeInv
<1>2. CASE Open(t)
  <2>1. PICK q \in Unused :
          path' = [path EXCEPT ![q] = Name(t)] /\ obj' = [obj EXCEPT ![t] = q]
    BY <1>2 DEF Open
  <2>2. /\ file' = [file EXCEPT ![Name(t)] = @ \cup {"file"}] /\ pc[t] = "open"
        /\ UNCHANGED <<process, m_queueList, loop, lost, op, connecting, deaths>>
        /\ shared' = IF \E p \in Queues : path[p] = Name(t) THEN shared \cup {Name(t)} ELSE shared
    BY <1>2 DEF Open
  <2>3. q \in Queues /\ Name(t) \in Names /\ Kind(t) = "create"
    BY <1>1, <2>1, <2>2 DEF Unused, ThreadPart
  <2>4. PICK label \in {"look", "close"} : Goto(t, label)
    BY <1>2 DEF Open
  <2>5. /\ pc' \in [Threads -> Labels] /\ pc'[t] = label
        /\ \A u \in Threads : u # t => pc'[u] = pc[u]
    BY <1>1, <2>4, Going DEF Labels
  <2>6. /\ obj' \in [Threads -> Queues \cup {None}] /\ obj'[t] = q
        /\ \A u \in Threads : u # t => obj'[u] = obj[u]
    BY <1>1, <2>1, <2>3 DEF ThreadTypes
  <2>7. ThreadTypes' /\ Others(t)
    BY <1>1, <2>2, <2>5, <2>6 DEF ThreadTypes, Others, connecting
  <2>8. OtherTypes'
    <3>1. path' \in [Queues -> Names \cup {None}]
      BY <1>1, <2>1, <2>3 DEF OtherTypes
    <3>2. file' \in [Names -> SUBSET Parts]
      BY <1>1, <2>2, <2>3 DEF OtherTypes, Parts
    <3>3. shared' \subseteq Names
      BY <1>1, <2>2, <2>3 DEF OtherTypes
    <3> QED  BY <1>1, <2>2, <3>1, <3>2, <3>3 DEF OtherTypes, process
  <2>9. ThreadPart(t)'
    BY <2>2, <2>3, <2>5, <2>6 DEF ThreadPart, Building, Name, Kind
  <2> QED  BY <2>7, <2>8, <2>9, TypeMoves
<1>3. CASE Look(t) \/ Make(t) \/ InsertRow(t)
  <2>1. pc[t] \in Building /\ UNCHANGED <<process, m_queueList, queues, op, obj, history>>
    BY <1>3 DEF Look, Make, InsertRow, Building
  <2>2. /\ obj[t] \in Queues /\ Name(t) \in Names /\ Kind(t) = "create"
    BY <1>1, <2>1 DEF ThreadPart
  <2>3. file' \in [Names -> SUBSET Parts]
    <3>1. Table(t) \in Parts
      <4>1. at[t] \in 1..3
        BY <1>1 DEF ThreadTypes
      <4> QED  BY <4>1 DEF Table, Tables, Parts
    <3>2. file' = file \/ Adds(t, Table(t)) \/ Adds(t, "zero")
      BY <1>3 DEF Look, Make, InsertRow, MakesTable
    <3> QED  BY <1>1, <2>2, <3>1, <3>2 DEF OtherTypes, Adds, Parts
  <2>4. \/ \E code \in 0..2 : Verified(t, code)
        \/ (Goto(t, "make") \/ Goto(t, "row")) /\ UNCHANGED connecting
    <3>1. CodeOfTable(t) \in 0..2
      BY DEF CodeOfTable
    <3> QED  BY <1>3, <3>1 DEF Look, Make, InsertRow
  <2>5. /\ pc' \in [Threads -> Labels] /\ pc'[t] \in {"look", "make", "row", "close", "in"}
        /\ at' \in [Threads -> 1..3] /\ rc' \in [Threads -> Codes]
        /\ \A u \in Threads : u # t => pc'[u] = pc[u] /\ at'[u] = at[u]
    <3>1. CASE \E code \in 0..2 : Verified(t, code)
      BY <1>1, <3>1, Verifying
    <3>2. CASE (Goto(t, "make") \/ Goto(t, "row")) /\ UNCHANGED connecting
      <4>1. PICK label \in {"make", "row"} : Goto(t, label)
        BY <3>2
      <4>2. UNCHANGED <<at, rc>>
        BY <3>2 DEF connecting
      <4> QED  BY <1>1, <4>1, <4>2, Going DEF ThreadTypes, Labels
    <3> QED  BY <2>4, <3>1, <3>2
  <2>6. ThreadTypes' /\ Others(t)
    BY <1>1, <2>1, <2>5 DEF ThreadTypes, Others
  <2>7. OtherTypes'
    BY <1>1, <2>1, <2>3 DEF OtherTypes, history, process, queues
  <2>8. ThreadPart(t)'
    <3>1. obj'[t] \in Queues /\ Name(t)' \in Names /\ Kind(t)' = "create"
      BY <2>1, <2>2 DEF Name, Kind
    <3> QED  BY <2>5, <3>1 DEF ThreadPart, Building
  <2> QED  BY <2>6, <2>7, <2>8, TypeMoves
<1>4. CASE Close(t) /\ t = Boot
  BY <1>1, <1>4, TypeDies DEF Close, OtherTypes, history
<1>5. CASE Close(t) /\ t # Boot
  <2>1. /\ path' = [path EXCEPT ![obj[t]] = None] /\ obj' = [obj EXCEPT ![t] = None]
        /\ Ends(t) /\ UNCHANGED <<process, m_queueList, loop, lost, connecting, file, history>>
    BY <1>5 DEF Close
  <2>2. obj' \in [Threads -> Queues \cup {None}] /\ obj'[t] = None
        /\ \A u \in Threads : u # t => obj'[u] = obj[u]
    BY <1>1, <2>1 DEF ThreadTypes
  <2>3. /\ pc' \in [Threads -> Labels] /\ pc'[t] = "idle"
        /\ op' \in [Threads -> Op]
        /\ \A u \in Threads : u # t => pc'[u] = pc[u] /\ op'[u] = op[u]
    BY <1>1, <2>1, Ending
  <2>4. ThreadTypes' /\ Others(t)
    BY <1>1, <2>1, <2>2, <2>3 DEF ThreadTypes, Others, connecting
  <2>5. OtherTypes'
    BY <1>1, <2>1 DEF OtherTypes, history, process
  <2>6. ThreadPart(t)'
    BY <2>2, <2>3 DEF ThreadPart, Building
  <2> QED  BY <2>4, <2>5, <2>6, TypeMoves
<1> QED  BY <1>2, <1>3, <1>4, <1>5

\* The end of a call, or of its part before a release.
LEMMA LettingGo ==
    ASSUME TypeOK, NEW t \in Threads, NEW q \in Queues \cup {None}, LetGo(t, q)
    PROVE  /\ pc' \in [Threads -> Labels] /\ op' \in [Threads -> Op]
           /\ obj' \in [Threads -> Queues \cup {None}] /\ obj'[t] = q
           /\ q = None => pc'[t] = "idle"
           /\ q # None => /\ pc'[t] = "release"
                          /\ \/ op'[t].kind = "erase" /\ op'[t].name = op[t].name
                             \/ op'[t].kind = "done"
           /\ \A u \in Threads : u # t => pc'[u] = pc[u] /\ op'[u] = op[u] /\ obj'[u] = obj[u]
<1>1. obj' \in [Threads -> Queues \cup {None}] /\ obj'[t] = q
      /\ \A u \in Threads : u # t => obj'[u] = obj[u]
  BY DEF LetGo, TypeOK
<1>2. CASE q = None
  <2>1. Ends(t)
    BY <1>2 DEF LetGo
  <2> QED  BY <1>1, <1>2, <2>1, Ending
<1>3. CASE q # None
  <2>1. PICK call \in {Erasing(op[t]), Done} : op' = [op EXCEPT ![t] = call]
    BY <1>3 DEF LetGo
  <2>2. op[t] \in Op /\ call \in Op /\ op'[t] = call
    <3>1. op[t] \in Op
      BY DEF TypeOK, Op, Kinds
    <3> QED  BY <2>1, <3>1, SetCall, LastCalls
  <2>3. Goto(t, "release")
    BY <1>3 DEF LetGo
  <2>4. /\ pc' \in [Threads -> Labels] /\ pc'[t] = "release"
        /\ \A u \in Threads : u # t => pc'[u] = pc[u]
    BY <2>3, Going DEF Labels
  <2>5. op' \in [Threads -> Op] /\ \A u \in Threads : u # t => op'[u] = op[u]
    BY <2>1, <2>2, SetCall
  <2>6. \/ op'[t].kind = "erase" /\ op'[t].name = op[t].name
        \/ op'[t].kind = "done"
    BY <2>1, <2>2, LastCalls
  <2> QED  BY <1>1, <1>3, <2>4, <2>5, <2>6
<1> QED  BY <1>2, <1>3

\* The calls on the list.
LEMMA TypeList ==
    ASSUME TypeInv, NEW t \in Threads,
           Insert(t) \/ Erase(t) \/ Rename(t) \/ List(t) \/ GetQueue(t)
    PROVE  TypeInv'
<1>1. ThreadTypes /\ OtherTypes /\ TypeOK /\ ThreadPart(t)
  BY Types DEF TypeInv
<1>2. pc[t] = "in" /\ Name(t) \in Names /\ m_queueList[Name(t)] \in Queues \cup {None}
  <2>1. pc[t] = "in"
    BY DEF Insert, Erase, Rename, List, GetQueue
  <2> QED  BY <1>1, <2>1 DEF ThreadPart, OtherTypes
<1>3. Find(t) \subseteq Queues \cup {None}
  BY <1>2 DEF Find
<1>4. ASSUME NEW q \in Queues \cup {None}, LetGo(t, q), UNCHANGED connecting,
             UNCHANGED <<file, process, path, loop, history>>, lost' \subseteq Queues,
             m_queueList' \in [Names -> Queues \cup {None}]
      PROVE  TypeInv'
  <2>1. /\ pc' \in [Threads -> Labels] /\ op' \in [Threads -> Op]
        /\ obj' \in [Threads -> Queues \cup {None}] /\ obj'[t] = q
        /\ q = None => pc'[t] = "idle"
        /\ q # None => /\ pc'[t] = "release"
                       /\ \/ op'[t].kind = "erase" /\ op'[t].name = op[t].name
                          \/ op'[t].kind = "done"
        /\ \A u \in Threads : u # t => pc'[u] = pc[u] /\ op'[u] = op[u] /\ obj'[u] = obj[u]
    BY <1>1, <1>4, LettingGo
  <2>2. ThreadTypes' /\ Others(t)
    BY <1>1, <1>4, <2>1 DEF ThreadTypes, Others, connecting
  <2>3. OtherTypes'
    BY <1>1, <1>4 DEF OtherTypes, history, process
  <2>4. ThreadPart(t)'
    <3>1. CASE q = None
      BY <2>1, <3>1 DEF ThreadPart, Building
    <3>2. CASE q # None
      BY <1>2, <2>1, <3>2 DEF ThreadPart, Building, Name, Kind
    <3> QED  BY <3>1, <3>2
  <2> QED  BY <2>2, <2>3, <2>4, TypeMoves
<1>6. CASE Insert(t)
  <2>1. obj[t] \in Queues
    BY <1>1, <1>6 DEF Insert, ThreadPart
  <2>2. UNCHANGED connecting /\ UNCHANGED <<file, process, path, loop, history>>
    BY <1>6 DEF Insert
  <2>3. CASE /\ \E old \in Find(t) : LetGo(t, old)
                  /\ lost' = lost \cup ({m_queueList[Name(t)]} \ {old, None})
             /\ m_queueList' = [m_queueList EXCEPT ![Name(t)] = obj[t]]
    <3>1. m_queueList' \in [Names -> Queues \cup {None}]
      BY <1>1, <1>2, <2>1, <2>3 DEF OtherTypes
    <3>2. lost' \subseteq Queues
      BY <1>1, <1>2, <2>3 DEF OtherTypes
    <3> QED  BY <1>3, <1>4, <2>2, <2>3, <3>1, <3>2
  <2>4. CASE LetGo(t, None) /\ lost' = lost \cup {obj[t]} /\ UNCHANGED m_queueList
    <3>1. lost' \subseteq Queues /\ m_queueList' \in [Names -> Queues \cup {None}]
      BY <1>1, <2>1, <2>4 DEF OtherTypes
    <3> QED  BY <1>4, <2>2, <2>4, <3>1
  <2> QED  BY <1>6, <2>3, <2>4 DEF Insert
<1>7. CASE Erase(t)
  <2>1. PICK old \in Find(t) :
          /\ LetGo(t, old)
          /\ m_queueList' = [m_queueList EXCEPT ![Name(t)] = IF old = None THEN @ ELSE None]
    BY <1>7 DEF Erase
  <2>2. UNCHANGED <<file, process, queues, connecting, history>>
    BY <1>7 DEF Erase
  <2>3. m_queueList' \in [Names -> Queues \cup {None}] /\ lost' \subseteq Queues
    BY <1>1, <1>2, <2>1, <2>2 DEF OtherTypes, history, queues
  <2>4. UNCHANGED connecting /\ UNCHANGED <<file, process, path, loop, history>>
    BY <2>2 DEF queues
  <2> QED  BY <1>3, <1>4, <2>1, <2>3, <2>4
<1>8. CASE Rename(t)
  <2>1. op[t].to \in Names /\ obj[t] = None
    BY <1>1, <1>8 DEF Rename, ThreadPart
  <2>2. UNCHANGED <<file, process, queues, connecting, history>>
    BY <1>8 DEF Rename
  <2>3. UNCHANGED connecting /\ UNCHANGED <<file, process, path, loop, history>>
        /\ lost' \subseteq Queues
    BY <1>1, <2>2 DEF queues, OtherTypes
  <2>4. PICK q \in Find(t) :
          IF q = None
          THEN LetGo(t, None) /\ UNCHANGED m_queueList
          ELSE LET old == m_queueList[op[t].to]
               IN  /\ m_queueList' = [m_queueList EXCEPT ![op[t].to] = q]
                   /\ IF old \notin {None, q} THEN LetGo(t, old)
                      ELSE /\ Goto(t, "in") /\ UNCHANGED obj
                           /\ op' = [op EXCEPT ![t] = Erasing(@)]
    BY <1>8 DEF Rename
  <2>5. CASE q = None
    <3>1. LetGo(t, None) /\ m_queueList' \in [Names -> Queues \cup {None}]
      BY <1>1, <2>4, <2>5 DEF OtherTypes
    <3> QED  BY <1>4, <2>3, <3>1
  <2>6. CASE q # None
    <3>1. m_queueList' \in [Names -> Queues \cup {None}]
      BY <1>1, <1>3, <2>1, <2>4, <2>6 DEF OtherTypes
    <3>2. m_queueList[op[t].to] \in Queues \cup {None}
      BY <1>1, <2>1 DEF OtherTypes
    <3>3. CASE LetGo(t, m_queueList[op[t].to])
      BY <1>4, <2>3, <3>1, <3>2, <3>3
    <3>4. CASE Goto(t, "in") /\ UNCHANGED obj /\ op' = [op EXCEPT ![t] = Erasing(@)]
      <4>1. /\ pc' \in [Threads -> Labels] /\ pc'[t] = "in"
            /\ \A u \in Threads : u # t => pc'[u] = pc[u]
        BY <1>1, <3>4, Going DEF Labels
      <4>2. /\ op' \in [Threads -> Op] /\ op'[t].kind = "erase" /\ op'[t].name = op[t].name
            /\ \A u \in Threads : u # t => op'[u] = op[u]
        <5>1. op[t] \in Op
          BY <1>1 DEF ThreadTypes
        <5> QED  BY <1>1, <3>4, <5>1, SetCall, LastCalls
      <4>3. ThreadTypes' /\ Others(t)
        BY <1>1, <2>3, <3>4, <4>1, <4>2 DEF ThreadTypes, Others, connecting
      <4>4. OtherTypes'
        BY <1>1, <2>3, <3>1 DEF OtherTypes, history, process
      <4>5. ThreadPart(t)'
        BY <1>2, <2>1, <3>4, <4>1, <4>2 DEF ThreadPart, Building, Name, Kind
      <4> QED  BY <4>3, <4>4, <4>5, TypeMoves
    <3> QED  BY <2>4, <2>6, <3>3, <3>4
  <2> QED  BY <2>5, <2>6
<1>9. CASE List(t)
  <2>1. Ends(t) /\ obj[t] = None
        /\ UNCHANGED <<file, process, m_queueList, queues, obj, connecting, history>>
    BY <1>1, <1>9 DEF List, ThreadPart
  <2>2. /\ pc' \in [Threads -> Labels] /\ pc'[t] = "idle"
        /\ op' \in [Threads -> Op]
        /\ \A u \in Threads : u # t => pc'[u] = pc[u] /\ op'[u] = op[u]
    BY <1>1, <2>1, Ending
  <2>3. ThreadTypes' /\ Others(t)
    BY <1>1, <2>1, <2>2 DEF ThreadTypes, Others, connecting
  <2>4. OtherTypes'
    BY <1>1, <2>1 DEF OtherTypes, history, process, queues
  <2>5. ThreadPart(t)'
    BY <2>1, <2>2 DEF ThreadPart, Building
  <2> QED  BY <2>3, <2>4, <2>5, TypeMoves
<1>10. CASE GetQueue(t)
  <2>1. PICK q \in Find(t) :
          /\ obj' = [obj EXCEPT ![t] = q]
          /\ IF q = None THEN Ends(t) ELSE Goto(t, "use") /\ op' = [op EXCEPT ![t] = Done]
    BY <1>10 DEF GetQueue
  <2>2. UNCHANGED <<file, process, m_queueList, queues, connecting, history>>
    BY <1>10 DEF GetQueue
  <2>3. obj' \in [Threads -> Queues \cup {None}] /\ obj'[t] = q
        /\ \A u \in Threads : u # t => obj'[u] = obj[u]
    BY <1>1, <1>3, <2>1 DEF ThreadTypes
  <2>4. /\ pc' \in [Threads -> Labels] /\ op' \in [Threads -> Op]
        /\ \A u \in Threads : u # t => pc'[u] = pc[u] /\ op'[u] = op[u]
        /\ \/ q = None /\ pc'[t] = "idle"
           \/ q # None /\ pc'[t] = "use" /\ op'[t].kind = "done"
    <3>1. CASE q = None
      BY <1>1, <2>1, <3>1, Ending
    <3>2. CASE q # None
      BY <1>1, <2>1, <3>2, Going, SetCall, LastCalls DEF Labels
    <3> QED  BY <3>1, <3>2
  <2>5. ThreadTypes' /\ Others(t)
    BY <1>1, <2>2, <2>3, <2>4 DEF ThreadTypes, Others, connecting
  <2>6. OtherTypes'
    BY <1>1, <2>2 DEF OtherTypes, history, process, queues
  <2>7. ThreadPart(t)'
    BY <1>3, <2>2, <2>3, <2>4 DEF ThreadPart, Building, Kind
  <2> QED  BY <2>5, <2>6, <2>7, TypeMoves
<1> QED  BY <1>6, <1>7, <1>8, <1>9, <1>10

\* The use and the end of a queue.
LEMMA Returning ==
    ASSUME TypeOK, NEW t \in Threads, Return(t)
    PROVE  /\ pc' \in [Threads -> Labels] /\ op' \in [Threads -> Op]
           /\ \/ Kind(t) = "erase" /\ pc'[t] = "in" /\ op'[t] = op[t]
              \/ pc'[t] = "idle"
           /\ \A u \in Threads : u # t => pc'[u] = pc[u] /\ op'[u] = op[u]
<1>1. CASE Kind(t) = "erase"
  <2>1. Goto(t, "in") /\ UNCHANGED op
    BY <1>1 DEF Return
  <2>2. op' \in [Threads -> Op]
    BY <2>1 DEF TypeOK, Op, Kinds
  <2>3. /\ pc' \in [Threads -> Labels] /\ pc'[t] = "in"
        /\ \A u \in Threads : u # t => pc'[u] = pc[u]
    BY <2>1, Going DEF Labels
  <2> QED  BY <1>1, <2>1, <2>2, <2>3
<1>2. CASE Kind(t) # "erase"
  <2>1. Ends(t)
    BY <1>2 DEF Return
  <2> QED  BY <2>1, Ending
<1> QED  BY <1>1, <1>2

LEMMA TypeUse ==
    ASSUME TypeInv, NEW t \in Threads, Start(t) \/ AddTask(t) \/ Release(t) \/ Destroy(t)
    PROVE  TypeInv'
<1>1. ThreadTypes /\ OtherTypes /\ TypeOK /\ ThreadPart(t)
  BY Types DEF TypeInv
<1>2. pc[t] \in {"use", "release", "destroy"} /\ obj[t] \in Queues /\ Kind(t) # "create"
  <2>1. pc[t] \in {"use", "release", "destroy"}
    BY DEF Start, AddTask, Release, Destroy
  <2> QED  BY <1>1, <2>1 DEF ThreadPart
<1>3. /\ UNCHANGED <<process, m_queueList, lost, connecting, history>>
      /\ file' \in [Names -> SUBSET Parts]
      /\ path' \in [Queues -> Names \cup {None}]
      /\ loop' \in [Queues -> Loops]
  <2>1. loop[obj[t]] \in Loops
    BY <1>1, <1>2 DEF OtherTypes
  <2>2. Stopped(loop[obj[t]]) \in Loops
    BY <2>1 DEF Stopped, Loops
  <2>3. CASE Start(t)
    <3>1. (IF loop[obj[t]] = "off" THEN "on" ELSE loop[obj[t]]) \in Loops
      BY <2>1 DEF Loops
    <3> QED  BY <1>1, <1>2, <2>3, <3>1 DEF Start, OtherTypes
  <2>6. CASE AddTask(t)
    <3>1. UNCHANGED <<process, m_queueList, path, loop, lost, connecting, history>>
      BY <2>6 DEF AddTask, queues
    <3>2. PICK name, parts : /\ name \in Names => parts \in SUBSET Parts
                            /\ file' \in {file, [file EXCEPT ![name] = parts]}
      <4>1. \A n \in Names : (file[n] \ {"zero"}) \cup {"moved"} \in SUBSET Parts
        BY <1>1 DEF OtherTypes, Parts
      <4>2. PICK name : name = path[obj[t]]
        OBVIOUS
      <4>3. file' \in {file, [file EXCEPT ![name] = (file[name] \ {"zero"}) \cup {"moved"}]}
        BY <2>6, <4>2 DEF AddTask
      <4> QED  BY <4>1, <4>3
    <3>3. file' \in [Names -> SUBSET Parts]
      BY <1>1, <3>2 DEF OtherTypes
    <3> QED  BY <1>1, <3>1, <3>3 DEF OtherTypes
  <2>4. CASE Release(t)
    BY <1>1, <1>2, <2>2, <2>4 DEF Release, OtherTypes
  <2>5. CASE Destroy(t)
    BY <1>1, <1>2, <2>5 DEF Destroy, OtherTypes
  <2> QED  BY <2>3, <2>4, <2>5, <2>6
<1>4. OtherTypes'
  BY <1>1, <1>3 DEF OtherTypes, history, process
<1>5. ASSUME NEW label \in {"release", "destroy"}, Goto(t, label), UNCHANGED <<op, obj>>
      PROVE  TypeInv'
  <2>1. /\ pc' \in [Threads -> Labels] /\ pc'[t] = label
        /\ \A u \in Threads : u # t => pc'[u] = pc[u]
    BY <1>1, <1>5, Going DEF Labels
  <2>2. ThreadTypes' /\ Others(t)
    BY <1>1, <1>3, <1>5, <2>1 DEF ThreadTypes, Others, connecting
  <2>3. ThreadPart(t)'
    BY <1>1, <1>2, <1>5, <2>1 DEF ThreadPart, Building, Name, Kind
  <2> QED  BY <1>4, <2>2, <2>3, TypeMoves
<1>6. ASSUME Return(t), obj' = [obj EXCEPT ![t] = None], pc[t] # "use" PROVE TypeInv'
  <2>1. /\ pc' \in [Threads -> Labels] /\ op' \in [Threads -> Op]
        /\ \/ Kind(t) = "erase" /\ pc'[t] = "in" /\ op'[t] = op[t]
           \/ pc'[t] = "idle"
        /\ \A u \in Threads : u # t => pc'[u] = pc[u] /\ op'[u] = op[u]
    BY <1>1, <1>6, Returning
  <2>2. obj' \in [Threads -> Queues \cup {None}] /\ obj'[t] = None
        /\ \A u \in Threads : u # t => obj'[u] = obj[u]
    BY <1>1, <1>6 DEF ThreadTypes
  <2>3. ThreadTypes' /\ Others(t)
    BY <1>1, <1>3, <2>1, <2>2 DEF ThreadTypes, Others, connecting
  <2>4. ThreadPart(t)'
    BY <1>1, <1>2, <1>6, <2>1, <2>2 DEF ThreadPart, Building, Name, Kind
  <2> QED  BY <1>4, <2>3, <2>4, TypeMoves
<1>7. CASE Start(t) \/ AddTask(t)
  BY <1>5, <1>7 DEF Start, AddTask
<1>8. CASE Release(t)
  BY <1>5, <1>6, <1>8 DEF Release
<1>9. CASE Destroy(t)
  BY <1>6, <1>9 DEF Destroy
<1> QED  BY <1>7, <1>8, <1>9

LEMMA TypeNext == TypeInv /\ [Next]_vars => TypeInv'
<1> SUFFICES ASSUME TypeInv, [Next]_vars PROVE TypeInv'
  OBVIOUS
<1>1. CASE BootNext \/ DropNext
  BY <1>1, TypeBoot
<1>2. ASSUME NEW t \in Handlers, Call(t) PROVE TypeInv'
  BY <1>2, TypeCall
<1>3. ASSUME NEW t \in Threads, Step(t) PROVE TypeInv'
  BY <1>3, TypeConnect, TypeList, TypeUse DEF Step
<1> QED  BY <1>1, <1>2, <1>3, TypeServer DEF Next, Main

\* The types are correct.
THEOREM TypeCorrect == Spec => []TypeOK
<1>1. TypeInv => TypeOK
  BY DEF TypeInv
<1> QED  BY TypeInit, TypeNext, <1>1, PTL DEF Spec

-----------------------------------------------------------------------------
(* Queues: nobody has one that is destroyed.                               *)

ListAlive == \A n \in Names : m_queueList[n] # None => path[m_queueList[n]] # None
HeldAlive == \A t \in Threads : obj[t] # None => path[obj[t]] # None
LoopAlive == \A q \in Queues : loop[q] # "off" => path[q] # None

\* A queue that is opened or destroyed is one thread's own, and its loop is off.
OwnPart(t) ==
    /\ pc[t] \in Building \cup {"destroy"} => ~Referenced(t)
    /\ pc[t] \in Building => loop[obj[t]] = "off"

\* A queue that is not lost is in the list or somebody has it.
Kept ==
    \A q \in Queues \ lost : path[q] # None =>
       (\E n \in Names : m_queueList[n] = q) \/ (\E t \in Threads : obj[t] = q)

QueueInv == ListAlive /\ HeldAlive /\ LoopAlive /\ (\A t \in Threads : OwnPart(t)) /\ Kept

\* Who holds a queue of its own has one.
LEMMA OwnHeld ==
    ASSUME TypeInv, NEW u \in Threads, pc[u] \in Building \cup {"destroy"}
    PROVE  obj[u] \in Queues /\ obj[u] # None
BY ThreadsAndNone DEF TypeInv, ThreadPart

LEMMA QueueInit == Init => QueueInv
<1> SUFFICES ASSUME Init PROVE QueueInv
  OBVIOUS
<1>1. ListAlive /\ HeldAlive /\ LoopAlive /\ Kept
  BY DEF Init, ListAlive, HeldAlive, LoopAlive, Kept
<1>2. \A t \in Threads : OwnPart(t)
  BY DEF Init, OwnPart, Building
<1> QED  BY <1>1, <1>2 DEF QueueInv

\* There are no queues in a new process.
LEMMA QueueDies == ServerDies => QueueInv'
<1> SUFFICES ASSUME Fresh PROVE QueueInv'
  BY DEF ServerDies
<1>1. ListAlive' /\ HeldAlive' /\ LoopAlive' /\ Kept'
  BY FreshTypes DEF ListAlive, HeldAlive, LoopAlive, Kept
<1>2. \A t \in Threads : OwnPart(t)'
  BY FreshTypes DEF OwnPart, Building
<1> QED  BY <1>1, <1>2 DEF QueueInv

\* Nothing happens to queues while threads go elsewhere.
LEMMA QueueStays ==
    ASSUME QueueInv, UNCHANGED <<m_queueList, path, loop, lost, obj>>,
           \A t \in Threads : /\ pc'[t] \in Building => pc[t] \in Building
                              /\ pc'[t] = "destroy" => pc[t] = "destroy"
    PROVE  QueueInv'
<1>1. ListAlive' /\ HeldAlive' /\ LoopAlive' /\ Kept'
  BY DEF QueueInv, ListAlive, HeldAlive, LoopAlive, Kept
<1>2. \A t \in Threads : OwnPart(t)'
  BY DEF QueueInv, OwnPart, Referenced
<1> QED  BY <1>1, <1>2 DEF QueueInv

\* A pointer comes from the list or goes there.
LEMMA QueueSwap ==
    ASSUME TypeInv, QueueInv, NEW t \in Threads, UNCHANGED <<path, loop>>,
           lost \subseteq lost',
           pc'[t] \notin Building \cup {"destroy"},
           \A u \in Threads : u # t => pc'[u] = pc[u] /\ obj'[u] = obj[u],
           \A n \in Names : m_queueList'[n] \in {None, obj[t]} \cup {m_queueList[m] : m \in Names},
           obj'[t] \in {None} \cup {m_queueList[m] : m \in Names},
           \A q \in Queues \ lost' :
              ((\E n \in Names : m_queueList[n] = q) \/ obj[t] = q) =>
                 (\E n \in Names : m_queueList'[n] = q) \/ (\E u \in Threads : obj'[u] = q)
    PROVE  QueueInv'
<1>1. ListAlive' /\ HeldAlive' /\ LoopAlive'
  BY DEF QueueInv, ListAlive, HeldAlive, LoopAlive
<1>2. ASSUME NEW u \in Threads PROVE OwnPart(u)'
  <2>1. CASE u = t
    BY <2>1 DEF OwnPart
  <2>2. CASE u # t
    <3>1. pc'[u] = pc[u] /\ obj'[u] = obj[u] /\ OwnPart(u)
      BY <2>2 DEF QueueInv
    <3>2. CASE pc[u] \in Building \cup {"destroy"}
      <4>1. ~Referenced(u) /\ obj[u] # None
        BY <3>1, <3>2, OwnHeld DEF OwnPart
      <4>2. obj[t] # obj[u] /\ \A n \in Names : m_queueList[n] # obj[u]
        BY <2>2, <4>1 DEF Referenced
      <4>3. \A n \in Names : m_queueList'[n] # obj[u]
        BY <4>1, <4>2
      <4>4. obj'[t] # obj[u]
        BY <4>1, <4>2
      <4>5. ~Referenced(u)'
        BY <3>1, <4>1, <4>3, <4>4 DEF Referenced
      <4> QED  BY <3>1, <4>5 DEF OwnPart
    <3>3. CASE pc[u] \notin Building \cup {"destroy"}
      BY <3>1, <3>3 DEF OwnPart
    <3> QED  BY <3>2, <3>3
  <2> QED  BY <2>1, <2>2
<1>3. Kept'
  <2> SUFFICES ASSUME NEW q \in Queues \ lost', path[q] # None
               PROVE  (\E n \in Names : m_queueList'[n] = q) \/ (\E u \in Threads : obj'[u] = q)
    BY DEF Kept
  <2>1. (\E n \in Names : m_queueList[n] = q) \/ (\E u \in Threads : obj[u] = q)
    BY DEF QueueInv, Kept
  <2>2. CASE (\E n \in Names : m_queueList[n] = q) \/ obj[t] = q
    BY <2>2
  <2>3. CASE \E u \in Threads : u # t /\ obj[u] = q
    BY <2>3
  <2> QED  BY <2>1, <2>2, <2>3
<1> QED  BY <1>1, <1>2, <1>3 DEF QueueInv

\* A queue that is one thread's own is destroyed.
LEMMA QueueGone ==
    ASSUME TypeInv, QueueInv, NEW t \in Threads, obj[t] \in Queues, ~Referenced(t),
           loop[obj[t]] = "off",
           path' = [path EXCEPT ![obj[t]] = None], obj' = [obj EXCEPT ![t] = None],
           UNCHANGED <<m_queueList, loop, lost>>,
           pc'[t] \notin Building \cup {"destroy"},
           \A u \in Threads : u # t => pc'[u] = pc[u]
    PROVE  QueueInv'
<1>1. PICK q \in Queues : q = obj[t]
  OBVIOUS
<1>2. /\ path'[q] = None /\ \A p \in Queues : p # q => path'[p] = path[p]
      /\ obj'[t] = None /\ \A u \in Threads : u # t => obj'[u] = obj[u]
      /\ m_queueList \in [Names -> Queues \cup {None}]
      /\ obj \in [Threads -> Queues \cup {None}]
  BY <1>1 DEF TypeInv, TypeOK
<1>3. /\ \A n \in Names : m_queueList[n] # q
      /\ \A u \in Threads : u # t => obj[u] # q
  BY <1>1 DEF Referenced
<1>4. ListAlive'
  BY <1>2, <1>3 DEF QueueInv, ListAlive
<1>5. HeldAlive'
  BY <1>2, <1>3 DEF QueueInv, HeldAlive
<1>6. LoopAlive'
  BY <1>1, <1>2 DEF QueueInv, LoopAlive
<1>7. ASSUME NEW u \in Threads PROVE OwnPart(u)'
  <2>1. CASE u = t
    BY <2>1 DEF OwnPart
  <2>2. CASE u # t
    <3>1. pc'[u] = pc[u] /\ obj'[u] = obj[u] /\ OwnPart(u)
      BY <1>2, <2>2 DEF QueueInv
    <3>2. (pc[u] \in Building \cup {"destroy"} /\ Referenced(u)') => Referenced(u)
      BY <1>2, <3>1, OwnHeld DEF Referenced
    <3> QED  BY <3>1, <3>2 DEF OwnPart
  <2> QED  BY <2>1, <2>2
<1>8. Kept'
  <2> SUFFICES ASSUME NEW p \in Queues \ lost, path'[p] # None
               PROVE  (\E n \in Names : m_queueList[n] = p) \/ (\E u \in Threads : obj'[u] = p)
    BY DEF Kept
  <2>1. p # q /\ path[p] # None
    BY <1>2
  <2>2. (\E n \in Names : m_queueList[n] = p) \/ (\E u \in Threads : obj[u] = p)
    BY <2>1 DEF QueueInv, Kept
  <2> QED  BY <1>1, <1>2, <2>1, <2>2
<1> QED  BY <1>4, <1>5, <1>6, <1>7, <1>8 DEF QueueInv

\* A new one is nobody else's.
LEMMA QueueOpen ==
    ASSUME TypeInv, QueueInv, NEW t \in Threads, Open(t)
    PROVE  QueueInv'
<1>1. PICK q \in Queues :
        /\ path[q] = None
        /\ path' = [path EXCEPT ![q] = Name(t)] /\ obj' = [obj EXCEPT ![t] = q]
  BY DEF Open, Unused
<1>2. /\ pc[t] = "open" /\ obj[t] = None /\ Name(t) \in Names /\ Name(t) # None
      /\ UNCHANGED <<m_queueList, loop, lost>>
  BY ThreadsAndNone DEF Open, TypeInv, ThreadPart
<1>3. pc'[t] \in Building /\ \A u \in Threads : u # t => pc'[u] = pc[u]
  BY DEF Open, Goto, TypeInv, TypeOK, Building
<1>4. /\ path'[q] = Name(t) /\ \A p \in Queues : p # q => path'[p] = path[p]
      /\ obj'[t] = q /\ \A u \in Threads : u # t => obj'[u] = obj[u]
      /\ m_queueList \in [Names -> Queues \cup {None}]
      /\ obj \in [Threads -> Queues \cup {None}]
  BY <1>1 DEF TypeInv, TypeOK
<1>5. /\ \A n \in Names : m_queueList[n] # q
      /\ \A u \in Threads : obj[u] # q
      /\ loop[q] = "off"
  <2>1. q # None
    BY ThreadsAndNone
  <2> QED  BY <1>1, <2>1 DEF QueueInv, ListAlive, HeldAlive, LoopAlive
<1>6. ListAlive'
  BY <1>2, <1>4, <1>5 DEF QueueInv, ListAlive
<1>7. HeldAlive'
  BY <1>2, <1>4, <1>5 DEF QueueInv, HeldAlive
<1>8. LoopAlive'
  BY <1>2, <1>4 DEF QueueInv, LoopAlive
<1>9. ASSUME NEW u \in Threads PROVE OwnPart(u)'
  <2>1. CASE u = t
    <3>1. ~Referenced(t)' /\ loop'[obj'[t]] = "off"
      BY <1>2, <1>4, <1>5 DEF Referenced
    <3> QED  BY <2>1, <3>1 DEF OwnPart
  <2>2. CASE u # t
    <3>1. pc'[u] = pc[u] /\ obj'[u] = obj[u] /\ OwnPart(u) /\ obj[u] # q
      BY <1>3, <1>4, <1>5, <2>2 DEF QueueInv
    <3>2. (pc[u] \in Building \cup {"destroy"} /\ Referenced(u)') => Referenced(u)
      BY <1>2, <1>4, <3>1 DEF Referenced
    <3> QED  BY <1>2, <3>1, <3>2 DEF OwnPart
  <2> QED  BY <2>1, <2>2
<1>10. Kept'
  <2> SUFFICES ASSUME NEW p \in Queues \ lost, path'[p] # None
               PROVE  (\E n \in Names : m_queueList[n] = p) \/ (\E u \in Threads : obj'[u] = p)
    BY <1>2 DEF Kept
  <2>1. CASE p = q
    BY <1>4, <2>1
  <2>2. CASE p # q
    <3>1. (\E n \in Names : m_queueList[n] = p) \/ (\E u \in Threads : obj[u] = p)
      BY <1>4, <2>2 DEF QueueInv, Kept
    <3>2. p # None
      BY ThreadsAndNone
    <3> QED  BY <1>2, <1>4, <3>1, <3>2
  <2> QED  BY <2>1, <2>2
<1> QED  BY <1>6, <1>7, <1>8, <1>9, <1>10 DEF QueueInv

\* Main loops go on and off while their queue is there.
LEMMA QueueLoops ==
    ASSUME TypeInv, QueueInv, NEW q \in Queues, NEW l \in Loops,
           loop' = [loop EXCEPT ![q] = l],
           l # "off" => loop[q] # "off" \/ (path[q] # None /\ \E t \in Threads :
                                              pc[t] = "use" /\ obj[t] = q),
           UNCHANGED <<m_queueList, path, lost, obj>>,
           \A t \in Threads : /\ pc'[t] \in Building => pc[t] \in Building
                              /\ pc'[t] = "destroy" => pc[t] = "destroy" \/ ~Referenced(t)
    PROVE  QueueInv'
<1>1. loop'[q] = l /\ \A p \in Queues : p # q => loop'[p] = loop[p]
  BY DEF TypeInv, TypeOK
<1>2. ListAlive' /\ HeldAlive' /\ Kept'
  BY DEF QueueInv, ListAlive, HeldAlive, Kept
<1>3. LoopAlive'
  BY <1>1 DEF QueueInv, LoopAlive
<1>4. ASSUME NEW u \in Threads PROVE OwnPart(u)'
  <2>1. OwnPart(u) /\ (Referenced(u)' <=> Referenced(u))
    BY DEF QueueInv, Referenced
  <2>2. pc'[u] \in Building => loop'[obj'[u]] = "off"
    <3> SUFFICES ASSUME pc'[u] \in Building PROVE loop'[obj[u]] = "off"
      OBVIOUS
    <3>1. pc[u] \in Building /\ loop[obj[u]] = "off" /\ ~Referenced(u) /\ obj[u] \in Queues
      BY <2>1, OwnHeld DEF OwnPart
    <3>2. CASE obj[u] # q
      BY <1>1, <3>1, <3>2
    <3>3. CASE obj[u] = q
      <4>1. ~\E t \in Threads : pc[t] = "use" /\ obj[t] = q
        BY <3>1, <3>3 DEF Referenced, Building
      <4> QED  BY <1>1, <3>1, <3>3, <4>1
    <3> QED  BY <3>2, <3>3
  <2> QED  BY <2>1, <2>2 DEF OwnPart
<1> QED  BY <1>2, <1>3, <1>4 DEF QueueInv

\* The server and main().
LEMMA QueueServer ==
    ASSUME TypeInv, QueueInv,
           \/ Crash \/ Restart \/ BootNext \/ Listen \/ Signal \/ Shutdown \/ Closed \/ Dropped
           \/ Terminate \/ UNCHANGED vars
           \/ \E t \in Threads : Corrupt(t)
    PROVE  QueueInv'
<1>1. CASE ServerDies
  BY <1>1, QueueDies
<1>2. CASE ~ServerDies
  <2>1. UNCHANGED <<m_queueList, path, loop, lost, obj>>
    BY <1>2 DEF Crash, Restart, BootNext, Listen, Signal, Shutdown, Closed, Dropped, Terminate,
       Corrupt, vars, queues, threads
  <2>2. \A t \in Threads : /\ pc'[t] \in Building => pc[t] \in Building
                           /\ pc'[t] = "destroy" => pc[t] = "destroy"
    <3>1. CASE UNCHANGED pc
      BY <3>1
    <3>2. CASE BootNext /\ Goto(Boot, "open")
      BY <3>2 DEF Goto, TypeInv, TypeOK, Building
    <3> QED  BY <1>2, <3>1, <3>2 DEF Crash, Restart, BootNext, Listen, Signal, Shutdown, Closed,
                Dropped, Terminate, Corrupt, vars, threads
  <2> QED  BY <2>1, <2>2, QueueStays
<1> QED  BY <1>1, <1>2

\* main() lets go of the next queue.
LEMMA QueueDrop ==
    ASSUME TypeInv, QueueInv, DropNext
    PROVE  QueueInv'
<1>1. PICK n \in Names :
        /\ m_queueList[n] # None
        /\ m_queueList' = [m_queueList EXCEPT ![n] = None]
        /\ obj' = [obj EXCEPT ![Boot] = m_queueList[n]]
  BY DEF DropNext
<1>2. /\ Boot \in Threads /\ obj[Boot] = None
      /\ m_queueList \in [Names -> Queues \cup {None}]
      /\ obj \in [Threads -> Queues \cup {None}]
  BY DEF TypeInv, TypeOK, ThreadPart, DropNext, Threads
<1>3. /\ m_queueList'[n] = None /\ obj'[Boot] = m_queueList[n]
      /\ \A m \in Names : m # n => m_queueList'[m] = m_queueList[m]
      /\ \A u \in Threads : u # Boot => obj'[u] = obj[u]
  BY <1>1, <1>2
<1>4. pc'[Boot] = "release" /\ \A u \in Threads : u # Boot => pc'[u] = pc[u]
  BY <1>2, Going DEF DropNext, TypeInv, Labels
<1>5. UNCHANGED <<path, loop, lost>>
  BY DEF DropNext, queues
<1>6. \A q \in Queues :
         ((\E m \in Names : m_queueList[m] = q) \/ obj[Boot] = q) =>
            (\E m \in Names : m_queueList'[m] = q) \/ (\E u \in Threads : obj'[u] = q)
  BY <1>2, <1>3, ThreadsAndNone
<1>7. \A m \in Names : m_queueList'[m] \in {None, obj[Boot]} \cup {m_queueList[k] : k \in Names}
  BY <1>3
<1>8. obj'[Boot] \in {None} \cup {m_queueList[k] : k \in Names}
  BY <1>3
<1>9. pc'[Boot] \notin Building \cup {"destroy"}
  BY <1>4 DEF Building
<1>10. lost \subseteq lost'
  BY <1>5
<1>11. \A u \in Threads : u # Boot => pc'[u] = pc[u] /\ obj'[u] = obj[u]
  BY <1>3, <1>4
<1>12. UNCHANGED <<path, loop>>
  BY <1>5
<1>13. \A q \in Queues \ lost' :
         ((\E m \in Names : m_queueList[m] = q) \/ obj[Boot] = q) =>
            (\E m \in Names : m_queueList'[m] = q) \/ (\E u \in Threads : obj'[u] = q)
  BY <1>6
<1> HIDE DEF QueueInv, TypeInv
<1> QED  BY <1>2, <1>7, <1>8, <1>9, <1>10, <1>11, <1>12, <1>13, QueueSwap

\* connectToDB, and calls that leave queues alone.
LEMMA QueueConnect ==
    ASSUME TypeInv, QueueInv, NEW t \in Threads,
           Look(t) \/ Make(t) \/ InsertRow(t) \/ List(t) \/ (t \in Handlers /\ Call(t))
    PROVE  QueueInv'
<1>1. UNCHANGED <<m_queueList, path, loop, lost, obj>>
  BY DEF Look, Make, InsertRow, List, Call, queues
<1>2. pc \in [Threads -> Labels]
  BY DEF TypeInv, TypeOK, Labels
<1>3. CASE \E code \in 0..2 : pc[t] \in Building /\ Verified(t, code)
  <2>1. PICK code \in 0..2 : pc[t] \in Building /\ Verified(t, code)
    BY <1>3
  <2>2. \A u \in Threads : u # t => pc'[u] = pc[u]
    BY <2>1, Verifying DEF TypeInv
  <2>3. pc'[t] \in Building \cup {"in"}
    BY <2>1, Verifying DEF TypeInv, Building
  <2>4. \A u \in Threads : /\ pc'[u] \in Building => pc[u] \in Building
                           /\ pc'[u] = "destroy" => pc[u] = "destroy"
    BY <2>1, <2>2, <2>3 DEF Building
  <2> QED  BY <1>1, <2>4, QueueStays
<1>4. CASE \E label \in {"make", "row", "open", "in", "idle"} :
              /\ pc' = [pc EXCEPT ![t] = label]
              /\ label \in Building => pc[t] \in Building
  BY <1>1, <1>2, <1>4, QueueStays
<1>5. Look(t) => (\E code \in 0..2 : pc[t] \in Building /\ Verified(t, code))
                 \/ (pc[t] \in Building /\ pc' = [pc EXCEPT ![t] = "make"])
  BY DEF Look, Goto, Building, CodeOfTable
<1>6. Make(t) => (\E code \in 0..2 : pc[t] \in Building /\ Verified(t, code))
                 \/ (pc[t] \in Building /\ pc' = [pc EXCEPT ![t] = "row"])
  BY DEF Make, Goto, Building
<1>7. InsertRow(t) => \E code \in 0..2 : pc[t] \in Building /\ Verified(t, code)
  BY DEF InsertRow, Building
<1>8. List(t) \/ Call(t) =>
        \E label \in {"open", "in", "idle"} : pc' = [pc EXCEPT ![t] = label]
  BY DEF List, Call, Goto, Ends
<1> QED  BY <1>3, <1>4, <1>5, <1>6, <1>7, <1>8 DEF Building

\* The calls that take from the list or add to it.
LEMMA QueueCalls ==
    ASSUME TypeInv, QueueInv, NEW t \in Threads,
           Insert(t) \/ Erase(t) \/ Rename(t) \/ GetQueue(t)
    PROVE  QueueInv'
<1>1. /\ TypeOK /\ ThreadPart(t) /\ m_queueList \in [Names -> Queues \cup {None}]
      /\ obj \in [Threads -> Queues \cup {None}]
  BY DEF TypeInv, TypeOK
<1>2. pc[t] = "in" /\ Name(t) \in Names /\ m_queueList[Name(t)] \in Queues \cup {None}
  <2>1. pc[t] = "in"
    BY DEF Insert, Erase, Rename, GetQueue
  <2> QED  BY <1>1, <2>1 DEF ThreadPart
<1>3. PICK cur \in Queues \cup {None} : cur = m_queueList[Name(t)]
  BY <1>2
<1>4. Find(t) \subseteq {cur, None}
  BY <1>3 DEF Find
<1>5. UNCHANGED <<path, loop>>
  BY DEF Insert, Erase, Rename, GetQueue, queues
<1>6. ASSUME NEW q \in Queues \cup {None}, LetGo(t, q) \/ (obj'[t] = q /\ GetQueue(t))
      PROVE  /\ pc'[t] \notin Building \cup {"destroy"} /\ obj'[t] = q
             /\ \A u \in Threads : u # t => pc'[u] = pc[u] /\ obj'[u] = obj[u]
  <2>1. CASE LetGo(t, q)
    BY <1>1, <1>6, <2>1, LettingGo DEF Building
  <2>2. CASE obj'[t] = q /\ GetQueue(t)
    <3>1. PICK p : obj' = [obj EXCEPT ![t] = p]
                   /\ IF p = None THEN Ends(t) ELSE Goto(t, "use")
      BY <2>2 DEF GetQueue
    <3>2. pc'[t] \in {"idle", "use"} /\ \A u \in Threads : u # t => pc'[u] = pc[u]
      BY <1>1, <3>1, Ending, Going DEF Labels
    <3> QED  BY <1>1, <2>2, <3>1, <3>2 DEF Building
  <2> QED  BY <1>6, <2>1, <2>2
<1>7. CASE Insert(t)
  <2>1. PICK own \in Queues : own = obj[t]
    BY <1>2, <1>7 DEF Insert, TypeInv, ThreadPart
  <2>2. CASE /\ \E old \in Find(t) : LetGo(t, old)
                  /\ lost' = lost \cup ({m_queueList[Name(t)]} \ {old, None})
             /\ m_queueList' = [m_queueList EXCEPT ![Name(t)] = obj[t]]
    <3>1. PICK old \in {cur, None} :
            LetGo(t, old) /\ lost' = lost \cup ({cur} \ {old, None})
      BY <1>3, <1>4, <2>2
    <3>2. /\ m_queueList'[Name(t)] = own
          /\ \A n \in Names : n # Name(t) => m_queueList'[n] = m_queueList[n]
      BY <1>1, <1>2, <2>1, <2>2
    <3>3. /\ pc'[t] \notin Building \cup {"destroy"} /\ obj'[t] = old
          /\ \A u \in Threads : u # t => pc'[u] = pc[u] /\ obj'[u] = obj[u]
      BY <1>6, <3>1
    <3>4. \A q \in Queues \ lost' :
            ((\E n \in Names : m_queueList[n] = q) \/ obj[t] = q) =>
               (\E n \in Names : m_queueList'[n] = q) \/ (\E u \in Threads : obj'[u] = q)
      <4> SUFFICES ASSUME NEW q \in Queues \ lost',
                          (\E n \in Names : m_queueList[n] = q) \/ obj[t] = q
                   PROVE  (\E n \in Names : m_queueList'[n] = q) \/ (\E u \in Threads : obj'[u] = q)
        OBVIOUS
      <4>1. CASE q = own
        BY <1>2, <3>2, <4>1
      <4>2. CASE q # own /\ q = cur
        <5>1. old = cur
          BY <3>1, <4>2, ThreadsAndNone
        <5> QED  BY <3>3, <4>2, <5>1
      <4>3. CASE q # own /\ q # cur
        BY <1>3, <2>1, <3>2, <4>3
      <4> QED  BY <4>1, <4>2, <4>3
    <3>5. \A n \in Names : m_queueList'[n] \in {None, obj[t]} \cup {m_queueList[m] : m \in Names}
      BY <2>1, <3>2
    <3>6. obj'[t] \in {None} \cup {m_queueList[m] : m \in Names}
      BY <1>2, <1>3, <3>3
    <3>7. lost \subseteq lost'
      BY <3>1
    <3> HIDE DEF TypeInv, QueueInv
    <3> QED  BY <1>5, <3>3, <3>4, <3>5, <3>6, <3>7, QueueSwap
  <2>3. CASE LetGo(t, None) /\ lost' = lost \cup {obj[t]} /\ UNCHANGED m_queueList
    <3>1. /\ pc'[t] \notin Building \cup {"destroy"} /\ obj'[t] = None
          /\ \A u \in Threads : u # t => pc'[u] = pc[u] /\ obj'[u] = obj[u]
      BY <1>6, <2>3
    <3>2. \A q \in Queues \ lost' :
            ((\E n \in Names : m_queueList[n] = q) \/ obj[t] = q) =>
               (\E n \in Names : m_queueList'[n] = q) \/ (\E u \in Threads : obj'[u] = q)
      BY <2>3
    <3> QED  BY <1>5, <2>3, <3>1, <3>2, QueueSwap
  <2> QED  BY <1>7, <2>2, <2>3 DEF Insert
<1>8. CASE Erase(t) \/ Rename(t) \/ GetQueue(t)
  <2>1. obj[t] = None /\ lost' = lost
    BY <1>1, <1>8 DEF Erase, Rename, GetQueue, ThreadPart, queues
  <2>2. ASSUME NEW q \in {None} \cup {m_queueList[m] : m \in Names}, obj'[t] = q,
               pc'[t] \notin Building \cup {"destroy"},
               \A u \in Threads : u # t => pc'[u] = pc[u] /\ obj'[u] = obj[u],
               \A n \in Names : m_queueList'[n] \in {None} \cup {m_queueList[m] : m \in Names},
               \A n \in Names : m_queueList'[n] # m_queueList[n] =>
                  \/ m_queueList[n] = q
                  \/ \E m \in Names : m_queueList'[m] = m_queueList[n]
                  \/ m_queueList[n] = None
        PROVE  QueueInv'
    <3>1. \A p \in Queues \ lost' :
            ((\E n \in Names : m_queueList[n] = p) \/ obj[t] = p) =>
               (\E n \in Names : m_queueList'[n] = p) \/ (\E u \in Threads : obj'[u] = p)
      BY <2>1, <2>2, ThreadsAndNone
    <3>2. \A n \in Names : m_queueList'[n] \in {None, obj[t]} \cup {m_queueList[m] : m \in Names}
      BY <2>2
    <3> QED  BY <1>5, <2>1, <2>2, <3>1, <3>2, QueueSwap
  <2>3. CASE Erase(t)
    <3>1. PICK old \in {cur, None} :
            /\ LetGo(t, old)
            /\ m_queueList' = [m_queueList EXCEPT ![Name(t)] = IF old = None THEN @ ELSE None]
      BY <1>4, <2>3 DEF Erase
    <3>2. /\ m_queueList'[Name(t)] = IF old = None THEN cur ELSE None
          /\ \A n \in Names : n # Name(t) => m_queueList'[n] = m_queueList[n]
      BY <1>1, <1>2, <1>3, <3>1
    <3>3. /\ pc'[t] \notin Building \cup {"destroy"} /\ obj'[t] = old
          /\ \A u \in Threads : u # t => pc'[u] = pc[u] /\ obj'[u] = obj[u]
      BY <1>6, <3>1
    <3>4. old \in {None} \cup {m_queueList[m] : m \in Names}
      BY <1>2, <1>3
    <3>5. \A n \in Names : m_queueList'[n] \in {None} \cup {m_queueList[m] : m \in Names}
      BY <1>2, <1>3, <3>2
    <3>6. \A n \in Names : m_queueList'[n] # m_queueList[n] => m_queueList[n] = old
      BY <1>3, <3>2
    <3> QED  BY <2>2, <3>3, <3>4, <3>5, <3>6
  <2>4. CASE Rename(t)
    <3>1. op[t].to \in Names
      BY <1>1, <2>4 DEF Rename, ThreadPart
    <3>2. PICK q \in {cur, None} :
            IF q = None
            THEN LetGo(t, None) /\ UNCHANGED m_queueList
            ELSE LET old == m_queueList[op[t].to]
                 IN  /\ m_queueList' = [m_queueList EXCEPT ![op[t].to] = q]
                     /\ IF old \notin {None, q} THEN LetGo(t, old)
                        ELSE /\ Goto(t, "in") /\ UNCHANGED obj
                             /\ op' = [op EXCEPT ![t] = Erasing(@)]
      BY <1>4, <2>4 DEF Rename
    <3>3. CASE q = None
      <4>1. LetGo(t, None) /\ m_queueList' = m_queueList
        BY <3>2, <3>3
      <4>2. /\ pc'[t] \notin Building \cup {"destroy"} /\ obj'[t] = None
            /\ \A u \in Threads : u # t => pc'[u] = pc[u] /\ obj'[u] = obj[u]
        BY <1>6, <4>1
      <4> QED  BY <2>2, <4>1, <4>2
    <3>4. CASE q # None
      <4>1. PICK old \in Queues \cup {None} : old = m_queueList[op[t].to]
        BY <1>1, <3>1
      <4>2. /\ q = m_queueList[Name(t)]
            /\ m_queueList' = [m_queueList EXCEPT ![op[t].to] = q]
            /\ IF old \notin {None, q} THEN LetGo(t, old)
               ELSE Goto(t, "in") /\ UNCHANGED obj
        BY <1>3, <3>2, <3>4, <4>1
      <4>3. /\ m_queueList'[op[t].to] = q
            /\ \A n \in Names : n # op[t].to => m_queueList'[n] = m_queueList[n]
        BY <1>1, <3>1, <4>2
      <4>4. \A n \in Names : m_queueList'[n] \in {None} \cup {m_queueList[m] : m \in Names}
        BY <1>2, <4>2, <4>3
      <4>5. CASE old \notin {None, q}
        <5>1. /\ pc'[t] \notin Building \cup {"destroy"} /\ obj'[t] = old
              /\ \A u \in Threads : u # t => pc'[u] = pc[u] /\ obj'[u] = obj[u]
          BY <1>6, <4>2, <4>5
        <5>2. \A n \in Names : m_queueList'[n] # m_queueList[n] => m_queueList[n] = old
          BY <4>1, <4>3
        <5>3. old \in {None} \cup {m_queueList[m] : m \in Names}
          BY <3>1, <4>1
        <5> QED  BY <2>2, <4>4, <5>1, <5>2, <5>3
      <4>6. CASE old \in {None, q}
        <5>1. Goto(t, "in") /\ obj' = obj
          BY <4>2, <4>6
        <5>2. /\ pc'[t] \notin Building \cup {"destroy"} /\ obj'[t] = None
              /\ \A u \in Threads : u # t => pc'[u] = pc[u] /\ obj'[u] = obj[u]
          BY <1>1, <2>1, <5>1, Going DEF Labels, Building
        <5>3. \A n \in Names : m_queueList'[n] # m_queueList[n] => m_queueList[n] = None
          BY <4>1, <4>3, <4>6
        <5> QED  BY <2>2, <4>4, <5>2, <5>3
      <4> QED  BY <4>5, <4>6
    <3> QED  BY <3>3, <3>4
  <2>5. CASE GetQueue(t)
    <3>1. PICK q \in {cur, None} : obj' = [obj EXCEPT ![t] = q]
      BY <1>4, <2>5 DEF GetQueue
    <3>2. obj'[t] = q /\ m_queueList' = m_queueList
      BY <1>1, <2>5, <3>1 DEF GetQueue
    <3>3. /\ pc'[t] \notin Building \cup {"destroy"}
          /\ \A u \in Threads : u # t => pc'[u] = pc[u] /\ obj'[u] = obj[u]
      BY <1>6, <2>5, <3>2
    <3>4. q \in {None} \cup {m_queueList[m] : m \in Names}
      BY <1>2, <1>3
    <3> QED  BY <2>2, <3>2, <3>3, <3>4
  <2> QED  BY <1>8, <2>3, <2>4, <2>5
<1> QED  BY <1>7, <1>8

\* Back from a release.
LEMMA Coming ==
    ASSUME TypeInv, NEW t \in Threads, Return(t)
    PROVE  /\ pc'[t] \in {"in", "idle"} /\ pc'[t] \notin Building \cup {"destroy"}
           /\ \A u \in Threads : u # t => pc'[u] = pc[u]
<1>1. CASE Ends(t)
  BY <1>1, Ending DEF TypeInv, Building
<1>2. CASE Goto(t, "in")
  BY <1>2, Going DEF TypeInv, Labels, Building
<1> QED  BY <1>1, <1>2 DEF Return

\* The calls on a queue, and its end.
LEMMA QueueUse ==
    ASSUME TypeInv, QueueInv, NEW t \in Threads,
           Close(t) \/ Start(t) \/ AddTask(t) \/ Release(t) \/ Destroy(t)
    PROVE  QueueInv'
<1>1. /\ TypeOK /\ ThreadPart(t) /\ obj \in [Threads -> Queues \cup {None}]
      /\ loop \in [Queues -> Loops]
  BY DEF TypeInv, TypeOK, Loops
<1>2. PICK q \in Queues : q = obj[t]
  <2>1. pc[t] \in Building \cup {"use", "release", "destroy"}
    BY DEF Close, Start, AddTask, Release, Destroy, Building
  <2> QED  BY <1>1, <2>1 DEF ThreadPart
<1>3. CASE Close(t) /\ t = Boot
  BY <1>3, QueueDies DEF Close
<1>4. CASE Close(t) /\ t # Boot
  <2>1. /\ pc[t] = "close" /\ path' = [path EXCEPT ![obj[t]] = None]
        /\ obj' = [obj EXCEPT ![t] = None] /\ Ends(t) /\ UNCHANGED <<m_queueList, loop, lost>>
    BY <1>4 DEF Close
  <2>2. ~Referenced(t) /\ loop[obj[t]] = "off"
    BY <2>1 DEF QueueInv, OwnPart, Building
  <2>3. pc'[t] \notin Building \cup {"destroy"} /\ \A u \in Threads : u # t => pc'[u] = pc[u]
    BY <1>1, <2>1, Ending DEF Building
  <2> QED  BY <1>2, <2>1, <2>2, <2>3, QueueGone
<1>5. CASE Destroy(t)
  <2>1. /\ pc[t] = "destroy" /\ loop[obj[t]] = "off" /\ path' = [path EXCEPT ![obj[t]] = None]
        /\ obj' = [obj EXCEPT ![t] = None] /\ Return(t) /\ UNCHANGED <<m_queueList, loop, lost>>
    BY <1>5 DEF Destroy
  <2>2. ~Referenced(t)
    BY <2>1 DEF QueueInv, OwnPart
  <2>3. pc'[t] \notin Building \cup {"destroy"} /\ \A u \in Threads : u # t => pc'[u] = pc[u]
    BY <2>1, Coming
  <2> QED  BY <1>2, <2>1, <2>2, <2>3, QueueGone
<1>6. CASE Start(t)
  <2>1. PICK l \in Loops :
          /\ pc[t] = "use" /\ loop' = [loop EXCEPT ![q] = l] /\ Goto(t, "release")
          /\ UNCHANGED <<m_queueList, path, lost, obj>>
    <3>1. PICK l : l = IF loop[q] = "off" THEN "on" ELSE loop[q]
      OBVIOUS
    <3>2. l \in Loops
      BY <1>1, <3>1 DEF Loops
    <3> QED  BY <1>2, <1>6, <3>1, <3>2 DEF Start
  <2>2. path[q] # None
    BY <1>2, ThreadsAndNone DEF QueueInv, HeldAlive
  <2>3. pc'[t] = "release" /\ \A u \in Threads : u # t => pc'[u] = pc[u]
    BY <1>1, <2>1, Going DEF Labels
  <2>4. \A u \in Threads : /\ pc'[u] \in Building => pc[u] \in Building
                           /\ pc'[u] = "destroy" => pc[u] = "destroy" \/ ~Referenced(u)
    BY <2>3 DEF Building
  <2> HIDE DEF TypeInv, QueueInv
  <2> QED  BY <1>2, <2>1, <2>2, <2>4, QueueLoops
<1>7. CASE Release(t) /\ Referenced(t)
  <2>1. /\ obj' = [obj EXCEPT ![t] = None] /\ Return(t)
        /\ UNCHANGED <<m_queueList, path, loop, lost>>
    BY <1>7 DEF Release
  <2>2. obj'[t] = None /\ \A u \in Threads : u # t => obj'[u] = obj[u]
    BY <1>1, <2>1
  <2>3. pc'[t] \notin Building \cup {"destroy"} /\ \A u \in Threads : u # t => pc'[u] = pc[u]
    BY <2>1, Coming
  <2>4. \A p \in Queues \ lost' :
          ((\E n \in Names : m_queueList[n] = p) \/ obj[t] = p) =>
             (\E n \in Names : m_queueList'[n] = p) \/ (\E u \in Threads : obj'[u] = p)
    BY <1>7, <2>1, <2>2 DEF Referenced
  <2>5. \A n \in Names : m_queueList'[n] \in {None, obj[t]} \cup {m_queueList[m] : m \in Names}
    BY <2>1
  <2> QED  BY <2>1, <2>2, <2>3, <2>4, <2>5, QueueSwap
<1>8. CASE Release(t) /\ ~Referenced(t)
  <2>1. /\ pc[t] = "release" /\ loop' = [loop EXCEPT ![obj[t]] = Stopped(@)]
        /\ Goto(t, "destroy") /\ UNCHANGED <<m_queueList, path, lost, obj>>
    BY <1>8 DEF Release
  <2>2. PICK l \in Loops : l = Stopped(loop[q])
    BY <1>1 DEF Stopped, Loops
  <2>3. loop' = [loop EXCEPT ![q] = l] /\ (l # "off" => loop[q] # "off")
    BY <1>1, <1>2, <2>1, <2>2 DEF Stopped
  <2>4. pc'[t] = "destroy" /\ \A u \in Threads : u # t => pc'[u] = pc[u]
    BY <1>1, <2>1, Going DEF Labels
  <2>5. \A u \in Threads : /\ pc'[u] \in Building => pc[u] \in Building
                           /\ pc'[u] = "destroy" => pc[u] = "destroy" \/ ~Referenced(u)
    BY <1>8, <2>4 DEF Building
  <2> HIDE DEF TypeInv, QueueInv
  <2> QED  BY <1>2, <2>1, <2>3, <2>5, QueueLoops
<1>9. CASE AddTask(t)
  <2>1. Goto(t, "release") /\ UNCHANGED <<m_queueList, path, loop, lost, obj>>
    BY <1>9 DEF AddTask, queues
  <2>2. pc'[t] = "release" /\ \A u \in Threads : u # t => pc'[u] = pc[u]
    BY <1>1, <2>1, Going DEF Labels
  <2>3. \A u \in Threads : /\ pc'[u] \in Building => pc[u] \in Building
                           /\ pc'[u] = "destroy" => pc[u] = "destroy"
    BY <2>2 DEF Building
  <2> HIDE DEF TypeInv, QueueInv
  <2> QED  BY <2>1, <2>3, QueueStays
<1> QED  BY <1>3, <1>4, <1>5, <1>6, <1>7, <1>8, <1>9

LEMMA QueueLoopEnds ==
    ASSUME TypeInv, QueueInv, NEW q \in Queues, LoopEnds(q) \/ LoopHangs(q)
    PROVE  QueueInv'
<1>1. PICK l \in {"off", "hung"} :
        /\ loop' = [loop EXCEPT ![q] = l] /\ loop[q] # "off"
        /\ UNCHANGED <<m_queueList, path, lost, pc, obj>>
  BY DEF LoopEnds, LoopHangs, threads
<1> QED  BY <1>1, QueueLoops DEF Loops

LEMMA QueueNext == TypeInv /\ QueueInv /\ [Next]_vars => QueueInv'
<1> SUFFICES ASSUME TypeInv, QueueInv, [Next]_vars PROVE QueueInv'
  OBVIOUS
<1>1. ASSUME NEW t \in Threads, Step(t) PROVE QueueInv'
  BY <1>1, QueueOpen, QueueConnect, QueueCalls, QueueUse DEF Step
<1>2. ASSUME NEW t \in Handlers, Call(t) PROVE QueueInv'
  BY <1>2, QueueConnect DEF Threads
<1>3. ASSUME NEW q \in Queues, LoopEnds(q) \/ LoopHangs(q) PROVE QueueInv'
  BY <1>3, QueueLoopEnds
<1> QED  BY <1>1, <1>2, <1>3, QueueServer, QueueDrop DEF Next, Main

\* Who has a queue has one that is there, and so have the list and the main loops,
\* for any number of threads that create, delete, rename and start queues.
\* (getQueue's copy of the shared_ptr, the order of destruction of SQLiteQueue)
THEOREM NoneDangles == Spec => []NoDanglingQueue
<1>1. TypeInv /\ QueueInv => NoDanglingQueue
  <2> SUFFICES ASSUME TypeInv, QueueInv PROVE NoDanglingQueue
    OBVIOUS
  <2>1. \A t \in Threads : pc[t] = "use" => path[obj[t]] # None
    BY ThreadsAndNone DEF TypeInv, ThreadPart, QueueInv, HeldAlive
  <2> QED  BY <2>1 DEF NoDanglingQueue, QueueInv, ListAlive, LoopAlive
<1>2. TypeInv /\ QueueInv /\ [Next]_vars => TypeInv' /\ QueueInv'
  BY TypeNext, QueueNext
<1> QED  BY <1>1, <1>2, TypeInit, QueueInit, PTL DEF Spec

-----------------------------------------------------------------------------
(* Files: what connectToDB knows of its file.                              *)

HasRow(n) == "zero" \in file[n] \/ "moved" \in file[n]

\* A counter is in its table, and it takes two queues to give it two rows.
Sound(n) ==
    /\ HasRow(n) => "lastID" \in file[n]
    /\ "zero" \in file[n] /\ "moved" \in file[n] => n \in shared
Counters ==
    /\ \A p, q \in Queues : p # q /\ path[p] = path[q] /\ path[p] # None => path[p] \in shared
    /\ \A n \in Names : Sound(n)

\* A code other than 1 says that the table is there.
TableDone(t, i) == rc[t][i] # 1 => Tables[i] \in file[Name(t)]
AtTables == {"look", "make", "row"}
\* Who is about to insert the row has seen a file without one, and only
\* another queue can have added it since.
AtRow(t) == pc[t] = "row" \/ (pc[t] = "make" /\ at[t] = 3)
FilePart(t) ==
    /\ pc[t] \in Building => path[obj[t]] = Name(t) /\ "file" \in file[Name(t)]
    /\ pc[t] \in AtTables =>
         /\ at[t] > 1 => rc[t][1] # 1 /\ TableDone(t, 1)
         /\ at[t] > 2 => TableDone(t, 2)
    /\ pc[t] = "row" => at[t] = 3
    /\ AtRow(t) => "moved" \notin file[Name(t)] \/ Name(t) \in shared
    /\ pc[t] \notin AtTables => at[t] = 1
    /\ pc[t] = "in" /\ Kind(t) = "create" => path[obj[t]] = Name(t) /\ Whole(Name(t))

FileInv == OpenedIsWhole /\ Counters /\ \A t \in Threads : FilePart(t)

\* A file loses nothing but a counter's 0, and that to another number.
FileGrows ==
    /\ shared \subseteq shared'
    /\ \A n \in Names : file[n] \ {"zero"} \subseteq file'[n] /\ (HasRow(n) => HasRow(n)')

\* Where a step of t may lead the rest to.
FileFrame(t) ==
    /\ FileGrows
    /\ \A n \in Names : "moved" \in file'[n] =>
         "moved" \in file[n] \/ (pc[t] = "use" /\ obj[t] \in Queues /\ path[obj[t]] = n)
    /\ \A u \in Threads : u # t => UNCHANGED <<pc[u], op[u], obj[u], at[u], rc[u]>>
    /\ \A n \in Names :
         \/ m_queueList'[n] \in {None} \cup {m_queueList[m] : m \in Names}
         \/ pc[t] = "in" /\ Kind(t) = "create" /\ m_queueList'[n] = obj[t]
    /\ \A q \in Queues :
         \/ path'[q] = path[q]
         \/ /\ \A n \in Names : m_queueList'[n] # q
            /\ \A u \in Threads : u # t => obj[u] # q

\* Most steps leave the files alone.
LEMMA SameFiles ==
    ASSUME UNCHANGED <<file, shared>>
    PROVE  FileGrows /\ \A n \in Names : "moved" \in file'[n] => "moved" \in file[n]
BY DEF FileGrows, HasRow

LEMMA CountersStay ==
    ASSUME Counters, UNCHANGED <<file, shared>>, \A q \in Queues : path'[q] \in {None, path[q]}
    PROVE  Counters'
<1>1. \A n \in Names : Sound(n)'
  BY DEF Counters, Sound, HasRow
<1>2. \A p, q \in Queues : p # q /\ path'[p] = path'[q] /\ path'[p] # None => path'[p] \in shared'
  BY DEF Counters
<1> QED  BY <1>1, <1>2 DEF Counters

LEMMA FileInit == Init => FileInv
<1> SUFFICES ASSUME Init PROVE FileInv
  OBVIOUS
<1>1. OpenedIsWhole /\ Counters
  BY DEF Init, OpenedIsWhole, Counters, Sound, HasRow
<1>2. \A t \in Threads : FilePart(t)
  BY DEF Init, FilePart, Building, AtTables, AtRow
<1> QED  BY <1>1, <1>2 DEF FileInv

LEMMA FileDies == ServerDies /\ FileInv /\ UNCHANGED <<file, shared>> => FileInv'
<1> SUFFICES ASSUME Fresh, FileInv, UNCHANGED <<file, shared>> PROVE FileInv'
  BY DEF ServerDies
<1>1. OpenedIsWhole'
  BY FreshTypes DEF OpenedIsWhole
<1>2. \A t \in Threads : FilePart(t)'
  BY FreshTypes DEF FilePart, Building, AtTables, AtRow
<1>3. Counters'
  BY FreshTypes, CountersStay DEF FileInv
<1> QED  BY <1>1, <1>2, <1>3 DEF FileInv

\* A file stays whole.
LEMMA WholeStays ==
    ASSUME FileGrows, Counters', NEW n \in Names, Whole(n)
    PROVE  Whole(n)'
<1>1. Parts \ {"zero", "moved"} \subseteq file'[n]
  BY DEF FileGrows, Whole
<1>2. HasRow(n)'
  BY DEF FileGrows, Whole, HasRow
<1>3. n \in shared' \/ OneRow(n)'
  BY <1>2 DEF Counters, Sound, OneRow, HasRow
<1> QED  BY <1>1, <1>2, <1>3 DEF Whole, HasRow

LEMMA FileStays ==
    ASSUME FileInv, UNCHANGED <<m_queueList, path, file, shared, threads>>
    PROVE  FileInv'
<1>1. UNCHANGED <<pc, op, obj, at, rc>>
  BY DEF threads, connecting
<1>2. OpenedIsWhole'
  BY DEF FileInv, OpenedIsWhole, Whole, OneRow
<1>3. \A t \in Threads : FilePart(t)'
  BY <1>1 DEF FileInv, FilePart, AtRow, TableDone, Name, Kind, Whole, OneRow
<1>4. Counters'
  BY CountersStay DEF FileInv
<1> QED  BY <1>2, <1>3, <1>4 DEF FileInv

LEMMA FileMoves ==
    ASSUME TypeInv, TypeInv', QueueInv, FileInv, NEW t \in Threads, FileFrame(t), Counters',
           FilePart(t)'
    PROVE  FileInv'
<1>1. path \in [Queues -> Names \cup {None}] /\ m_queueList \in [Names -> Queues \cup {None}]
      /\ m_queueList' \in [Names -> Queues \cup {None}]
  BY DEF TypeInv, TypeOK
<1>2. FileGrows
  BY DEF FileFrame
<1>3. ASSUME NEW n \in Names, m_queueList'[n] # None
      PROVE  \E p \in Names : path'[m_queueList'[n]] = p /\ Whole(p)'
  <2>1. PICK q \in Queues : q = m_queueList'[n]
    BY <1>1, <1>3
  <2>2. path'[q] = path[q]
    BY <2>1 DEF FileFrame
  <2>3. path[q] \in Names /\ Whole(path[q])
    <3>1. CASE m_queueList'[n] \in {None} \cup {m_queueList[m] : m \in Names}
      <4>1. PICK m \in Names : m_queueList[m] = q
        BY <1>3, <2>1, <3>1
      <4>2. path[q] # None /\ q # None
        BY <4>1, ThreadsAndNone DEF QueueInv, ListAlive
      <4> QED  BY <1>1, <4>1, <4>2 DEF FileInv, OpenedIsWhole
    <3>2. CASE pc[t] = "in" /\ Kind(t) = "create" /\ m_queueList'[n] = obj[t]
      BY <2>1, <3>2 DEF FileInv, FilePart, TypeInv, ThreadPart
    <3> QED  BY <3>1, <3>2 DEF FileFrame
  <2>4. PICK p \in Names : p = path[q]
    BY <2>3
  <2>5. Whole(p)'
    BY <1>2, <2>3, <2>4, WholeStays
  <2> QED  BY <2>1, <2>2, <2>4, <2>5
<1>4. OpenedIsWhole'
  BY <1>3 DEF OpenedIsWhole, Whole, OneRow
<1>5. ASSUME NEW u \in Threads, u # t PROVE FilePart(u)'
  <2>1. /\ pc'[u] = pc[u] /\ op'[u] = op[u] /\ obj'[u] = obj[u] /\ at'[u] = at[u]
        /\ rc'[u] = rc[u] /\ FilePart(u) /\ ThreadPart(u)
    BY <1>5 DEF FileFrame, FileInv, TypeInv
  <2>2. CASE pc[u] \in Building
    <3>1. Name(u) \in Names /\ obj[u] \in Queues /\ path'[obj[u]] = path[obj[u]]
      BY <1>5, <2>1, <2>2 DEF ThreadPart, FileFrame
    <3>2. PICK name \in Names : name = Name(u) /\ name = Name(u)'
      BY <2>1, <3>1 DEF Name
    <3>3. file[name] \ {"zero"} \subseteq file'[name] /\ shared \subseteq shared'
      BY <1>2, <3>2 DEF FileGrows
    <3>4. /\ path'[obj'[u]] = name /\ "file" \in file'[name]
      BY <2>1, <2>2, <3>1, <3>2, <3>3 DEF FilePart
    <3>5. /\ TableDone(u, 1) => TableDone(u, 1)'
          /\ TableDone(u, 2) => TableDone(u, 2)'
      BY <2>1, <3>2, <3>3 DEF TableDone, Tables
    <3>6. AtRow(u) => "moved" \notin file'[name] \/ name \in shared'
      <4> SUFFICES ASSUME AtRow(u), "moved" \in file'[name] PROVE name \in shared'
        OBVIOUS
      <4>1. CASE "moved" \in file[name]
        BY <2>1, <3>2, <3>3, <4>1 DEF FilePart
      <4>2. CASE obj[t] \in Queues /\ path[obj[t]] = name
        <5>1. obj[t] # obj[u]
          BY <1>5, <2>2, <3>1, <4>2 DEF QueueInv, OwnPart, Referenced
        <5>2. path[obj[u]] = name
          BY <2>1, <2>2, <3>2 DEF FilePart
        <5>3. name # None
          BY ThreadsAndNone
        <5> QED  BY <3>1, <3>3, <4>2, <5>1, <5>2, <5>3 DEF FileInv, Counters
      <4> QED  BY <4>1, <4>2 DEF FileFrame
    <3> QED  BY <2>1, <2>2, <3>2, <3>4, <3>5, <3>6
             DEF FilePart, AtRow, Kind, Building, AtTables
  <2>3. CASE pc[u] = "in" /\ Kind(u) = "create"
    <3>1. Name(u) \in Names /\ obj[u] \in Queues /\ path'[obj[u]] = path[obj[u]]
      BY <1>5, <2>1, <2>3 DEF ThreadPart, FileFrame
    <3>2. PICK p \in Names : p = Name(u)
      BY <3>1
    <3>3. Whole(p)'
      BY <1>2, <2>1, <2>3, <3>2, WholeStays DEF FilePart
    <3>4. Whole(Name(u))'
      BY <2>1, <3>2, <3>3 DEF Name, Whole, OneRow
    <3> QED  BY <2>1, <2>3, <3>1, <3>4 DEF FilePart, AtRow, Name, Kind, Building, AtTables
  <2>4. CASE pc[u] \notin Building /\ ~(pc[u] = "in" /\ Kind(u) = "create")
    BY <2>1, <2>4 DEF FilePart, AtRow, Name, Kind, Building, AtTables
  <2> QED  BY <2>2, <2>3, <2>4
<1> QED  BY <1>4, <1>5 DEF FileInv

\* Where there is no file to open.
LEMMA FileElse ==
    ASSUME TypeInv, FileInv, NEW t \in Threads, at' = at, pc[t] \notin AtTables,
           pc'[t] \notin Building, pc'[t] = "in" => Kind(t)' # "create"
    PROVE  FilePart(t)'
BY DEF FileInv, FilePart, AtRow, Building, AtTables

\* A verified table leads to the next one, or to a whole file.
LEMMA FileVerified ==
    ASSUME TypeInv, TypeInv', FileInv, NEW t \in Threads, NEW code \in 0..2,
           pc[t] \in AtTables, Verified(t, code), FileGrows, Counters',
           UNCHANGED <<op, obj, path>>,
           code # 1 => /\ Tables[at[t]] \in file'[Name(t)]
                       /\ at[t] = 3 => HasRow(Name(t))'
    PROVE  FilePart(t)'
<1>1. /\ FilePart(t) /\ Name(t) \in Names /\ Kind(t) = "create" /\ pc[t] \in Building
      /\ at[t] \in 1..3 /\ rc[t] \in Codes /\ obj[t] \in Queues
  <2>1. pc[t] \in Building
    BY DEF AtTables, Building
  <2> QED  BY <2>1 DEF FileInv, TypeInv, TypeOK, ThreadPart, Codes
<1>2. PICK name \in Names : name = Name(t) /\ name = Name(t)'
  BY <1>1 DEF Name
<1>3. file[name] \ {"zero"} \subseteq file'[name] /\ "file" \in file'[name] /\ path'[obj'[t]] = name
  BY <1>1, <1>2 DEF FilePart, FileGrows
<1>4. PICK codes \in Codes :
        /\ codes = [rc[t] EXCEPT ![at[t]] = code]
        /\ \A j \in 1..3 : codes[j] = IF j = at[t] THEN code ELSE rc[t][j]
  <2>1. PICK old \in Codes, i \in 1..3 : old = rc[t] /\ i = at[t]
    BY <1>1
  <2>2. PICK codes : codes = [old EXCEPT ![i] = code]
    OBVIOUS
  <2>3. codes \in Codes
    BY <2>2, SetCode
  <2>4. ASSUME NEW j \in 1..3 PROVE codes[j] = IF j = i THEN code ELSE old[j]
    <3>1. PICK a \in 0..2, b \in 0..2, c \in 0..2 : old = <<a, b, c>>
      BY DEF Codes
    <3> QED  BY <2>2, <3>1
  <2>5. codes = [rc[t] EXCEPT ![at[t]] = code]
    BY <2>1, <2>2
  <2>6. \A j \in 1..3 : codes[j] = IF j = at[t] THEN code ELSE rc[t][j]
    BY <2>1, <2>4
  <2> USE <2>3
  <2> WITNESS codes \in Codes
  <2> QED  BY <2>5, <2>6
<1>5. \A j \in 1..3 : codes[j] = IF j = at[t] THEN code ELSE rc[t][j]
  BY <1>4
<1>6. \/ /\ ~(at[t] = 1 /\ code = 1) /\ at[t] < 3 /\ pc'[t] = "look"
         /\ at'[t] = at[t] + 1 /\ rc'[t] = codes
      \/ at'[t] = 1 /\ pc'[t] = "close"
      \/ AllAgree(codes) /\ at[t] = 3 /\ at'[t] = 1 /\ pc'[t] = "in"
  BY <1>4, Verifying DEF TypeInv
<1>7. CASE ~(at[t] = 1 /\ code = 1) /\ at[t] < 3 /\ pc'[t] = "look"
           /\ at'[t] = at[t] + 1 /\ rc'[t] = codes
  <2>1. CASE at[t] = 1
    <3>1. codes[1] = code /\ code # 1 /\ at'[t] = 2
      BY <1>5, <1>7, <2>1
    <3>2. Tables[1] \in file'[name]
      BY <1>2, <2>1, <3>1
    <3> QED  BY <1>2, <1>3, <1>7, <3>1, <3>2 DEF FilePart, AtRow, TableDone, Building, AtTables
  <2>2. CASE at[t] = 2
    <3>1. codes[1] = rc[t][1] /\ codes[2] = code /\ at'[t] = 3
      BY <1>5, <1>7, <2>2
    <3>2. rc[t][1] # 1 /\ Tables[1] \in file'[name]
      BY <1>1, <1>2, <1>3, <2>2 DEF FilePart, TableDone, Tables
    <3>3. code # 1 => Tables[2] \in file'[name]
      BY <1>2, <2>2
    <3> QED  BY <1>2, <1>3, <1>7, <3>1, <3>2, <3>3
             DEF FilePart, AtRow, TableDone, Building, AtTables
  <2> QED  BY <1>1, <1>7, <2>1, <2>2
<1>8. CASE at'[t] = 1 /\ pc'[t] = "close"
  BY <1>2, <1>3, <1>8 DEF FilePart, AtRow, Building, AtTables
<1>9. CASE AllAgree(codes) /\ at[t] = 3 /\ at'[t] = 1 /\ pc'[t] = "in"
  <2>1. codes[1] = rc[t][1] /\ codes[2] = rc[t][2] /\ codes[3] = code
    BY <1>5, <1>9
  <2>2. rc[t][1] # 1 /\ rc[t][2] # 1 /\ code # 1
    <3>1. rc[t][1] # 1
      BY <1>1, <1>9 DEF FilePart
    <3>2. codes[1] = codes[2] /\ codes[2] = codes[3]
      BY <1>9 DEF AllAgree
    <3> QED  BY <2>1, <3>1, <3>2
  <2>3. Tables[1] \in file'[name] /\ Tables[2] \in file'[name]
    BY <1>1, <1>2, <1>3, <1>9, <2>2 DEF FilePart, TableDone, Tables
  <2>4. Tables[3] \in file'[name] /\ HasRow(name)'
    BY <1>2, <1>9, <2>2 DEF HasRow
  <2>5. Parts \ {"zero", "moved"} \subseteq file'[name]
    BY <1>3, <2>3, <2>4 DEF Parts, Tables
  <2>6. name \in shared' \/ OneRow(name)'
    BY <2>4 DEF Counters, Sound, OneRow, HasRow
  <2>7. Whole(Name(t))'
    BY <1>2, <2>4, <2>5, <2>6 DEF Whole, OneRow, HasRow
  <2> QED  BY <1>2, <1>3, <1>9, <2>7 DEF FilePart, AtRow, Building, AtTables
<1> QED  BY <1>6, <1>7, <1>8, <1>9

\* What connectToDB adds to its file.
LEMMA FileAdds ==
    ASSUME TypeInv, FileInv, NEW t \in Threads, Look(t) \/ Make(t) \/ InsertRow(t),
           Name(t) \in Names, at[t] \in 1..3
    PROVE  /\ FileGrows /\ Counters'
           /\ \A n \in Names : "moved" \in file'[n] => "moved" \in file[n]
           /\ \A part \in Parts : Adds(t, part) => part \in file'[Name(t)]
<1>1. PICK name \in Names : name = Name(t)
  OBVIOUS
<1>2. UNCHANGED <<path, shared>> /\ file \in [Names -> SUBSET Parts]
  BY DEF Look, Make, InsertRow, queues, history, TypeInv, TypeOK
<1>3. \A part \in Parts : Adds(t, part) =>
        /\ file'[name] = file[name] \cup {part}
        /\ \A n \in Names : n # name => file'[n] = file[n]
  BY <1>1, <1>2 DEF Adds
<1>4. ASSUME NEW part \in Parts \ {"moved"}, Adds(t, part), Sound(name)'
      PROVE  /\ FileGrows /\ Counters'
             /\ \A n \in Names : "moved" \in file'[n] => "moved" \in file[n]
  <2>1. /\ file'[name] = file[name] \cup {part}
        /\ \A n \in Names : n # name => file'[n] = file[n]
    BY <1>3, <1>4
  <2>2. FileGrows
    BY <1>2, <2>1 DEF FileGrows, HasRow
  <2>3. \A n \in Names : n # name => Sound(n)'
    BY <1>2, <2>1 DEF FileInv, Counters, Sound, HasRow
  <2>4. Counters'
    BY <1>2, <1>4, <2>3 DEF FileInv, Counters
  <2> QED  BY <1>4, <2>1, <2>2, <2>4
<1>5. CASE UNCHANGED file
  BY <1>1, <1>2, <1>3, <1>5, SameFiles, CountersStay DEF FileInv
<1>6. CASE Make(t) /\ Adds(t, Table(t))
  <2>1. Table(t) \in {"pending", "done", "lastID"}
    BY DEF Table, Tables
  <2>2. file'[name] = file[name] \cup {Table(t)}
    BY <1>3, <1>6, <2>1 DEF Parts
  <2>3. Sound(name)'
    BY <1>2, <2>1, <2>2 DEF FileInv, Counters, Sound, HasRow
  <2> QED  BY <1>1, <1>3, <1>4, <1>6, <2>1, <2>3 DEF Parts
<1>7. CASE InsertRow(t) /\ Adds(t, "zero") /\ Has(t, "lastID")
  <2>1. file'[name] = file[name] \cup {"zero"}
    BY <1>3, <1>7 DEF Parts
  <2>2. "moved" \notin file[name] \/ name \in shared
    BY <1>1, <1>7 DEF InsertRow, FileInv, FilePart, AtRow
  <2>3. Sound(name)'
    BY <1>1, <1>2, <1>7, <2>1, <2>2 DEF Sound, Has, HasRow
  <2> QED  BY <1>1, <1>3, <1>4, <1>7, <2>3 DEF Parts
<1> QED  BY <1>5, <1>6, <1>7 DEF Look, Make, InsertRow, MakesTable

\* connectToDB.
LEMMA FileConnect ==
    ASSUME TypeInv, TypeInv', QueueInv, FileInv, NEW t \in Threads,
           Look(t) \/ Make(t) \/ InsertRow(t)
    PROVE  FileInv'
<1>1. /\ pc[t] \in AtTables /\ pc[t] \in Building /\ UNCHANGED <<m_queueList, path, op, obj>>
  BY DEF Look, Make, InsertRow, AtTables, Building, queues
<1>2. /\ FilePart(t) /\ Name(t) \in Names /\ Kind(t) = "create" /\ at[t] \in 1..3
      /\ file \in [Names -> SUBSET Parts]
  BY <1>1 DEF FileInv, TypeInv, TypeOK, ThreadPart
<1>3. PICK name \in Names : name = Name(t) /\ name = Name(t)'
  BY <1>1, <1>2 DEF Name
<1>4. /\ FileGrows /\ Counters'
      /\ \A n \in Names : "moved" \in file'[n] => "moved" \in file[n]
      /\ \A part \in Parts : Adds(t, part) => part \in file'[name]
  BY <1>1, <1>2, <1>3, FileAdds
<1>5. \/ \E code \in 0..2 :
           /\ Verified(t, code)
           /\ code # 1 => /\ Tables[at[t]] \in file'[name]
                          /\ at[t] = 3 => HasRow(name)'
      \/ Goto(t, "make") /\ UNCHANGED <<at, rc>> /\ pc[t] = "look" /\ ~Has(t, Table(t))
      \/ Goto(t, "row") /\ UNCHANGED <<at, rc>> /\ pc[t] = "make" /\ Table(t) = "lastID"
  <2>1. file[name] \ {"zero"} \subseteq file'[name] /\ (HasRow(name) => HasRow(name)')
    BY <1>4 DEF FileGrows
  <2>2. (Table(t) = "lastID" <=> at[t] = 3) /\ Table(t) \in Parts \ {"zero", "moved"}
    BY <1>2 DEF Table, Tables, Parts
  <2>3. CASE Look(t)
    <3>1. CASE Has(t, Table(t)) /\ Verified(t, CodeOfTable(t))
      <4>1. CodeOfTable(t) \in 0..2
        BY DEF CodeOfTable
      <4>2. Tables[at[t]] \in file'[name]
        BY <1>3, <2>1, <2>2, <3>1 DEF Has, Table
      <4>3. CodeOfTable(t) # 1 /\ at[t] = 3 => HasRow(name)'
        BY <1>3, <2>1, <2>2 DEF CodeOfTable, OneRow, HasRow
      <4> QED  BY <3>1, <4>1, <4>2, <4>3
    <3>2. CASE Goto(t, "make") /\ UNCHANGED connecting /\ ~Has(t, Table(t))
      BY <2>3, <3>2 DEF Look, connecting
    <3>3. CASE Verified(t, 1)
      BY <3>3
    <3> QED  BY <2>3, <3>1, <3>2, <3>3 DEF Look
  <2>4. CASE Make(t)
    <3>1. CASE MakesTable(t, Table(t)) /\ Verified(t, 2) /\ Table(t) # "lastID"
      <4>1. Tables[at[t]] \in file'[name]
        BY <1>4, <2>2, <3>1 DEF MakesTable, Table
      <4> QED  BY <2>2, <3>1, <4>1
    <3>2. CASE Table(t) = "lastID" /\ Goto(t, "row") /\ UNCHANGED connecting
      BY <2>4, <3>2 DEF Make, connecting
    <3>3. CASE Verified(t, 1)
      BY <3>3
    <3> QED  BY <2>4, <3>1, <3>2, <3>3 DEF Make
  <2>5. CASE InsertRow(t)
    <3>1. CASE Has(t, "lastID") /\ Adds(t, "zero") /\ Verified(t, 2)
      <4>1. at[t] = 3
        BY <1>2, <2>5 DEF InsertRow, FilePart
      <4>2. "lastID" \in file'[name] /\ "zero" \in file'[name]
        BY <1>3, <1>4, <2>1, <3>1 DEF Has, Parts
      <4> QED  BY <3>1, <4>1, <4>2 DEF Tables, HasRow
    <3>2. CASE Verified(t, 1)
      BY <3>2
    <3> QED  BY <2>5, <3>1, <3>2 DEF InsertRow
  <2> QED  BY <2>3, <2>4, <2>5
<1>6. CASE \E code \in 0..2 :
             /\ Verified(t, code)
             /\ code # 1 => /\ Tables[at[t]] \in file'[name]
                            /\ at[t] = 3 => HasRow(name)'
  <2>1. PICK code \in 0..2 :
          /\ Verified(t, code)
          /\ code # 1 => /\ Tables[at[t]] \in file'[name]
                         /\ at[t] = 3 => HasRow(name)'
    BY <1>6
  <2>2. FilePart(t)'
    <3>1. code # 1 => Tables[at[t]] \in file'[Name(t)] /\ (at[t] = 3 => HasRow(Name(t))')
      BY <1>3, <2>1 DEF HasRow
    <3> QED  BY <1>1, <1>4, <2>1, <3>1, FileVerified
  <2>3. \A u \in Threads : u # t => UNCHANGED <<pc[u], op[u], obj[u], at[u], rc[u]>>
    BY <1>1, <2>1, Verifying DEF TypeInv
  <2>4. FileFrame(t)
    BY <1>1, <1>4, <2>3 DEF FileFrame
  <2> QED  BY <1>4, <2>2, <2>4, FileMoves
<1>7. CASE \/ Goto(t, "make") /\ UNCHANGED <<at, rc>> /\ pc[t] = "look" /\ ~Has(t, Table(t))
           \/ Goto(t, "row") /\ UNCHANGED <<at, rc>> /\ pc[t] = "make" /\ Table(t) = "lastID"
  <2>1. PICK label \in {"make", "row"} :
          Goto(t, label) /\ (label = "row" => Table(t) = "lastID")
    BY <1>7
  <2>2. pc'[t] = label /\ \A u \in Threads : u # t => pc'[u] = pc[u]
    BY <2>1, Going DEF TypeInv, Labels
  <2>3. label = "row" => at[t] = 3
    BY <1>2, <2>1 DEF Table, Tables
  <2>4. /\ file[name] \ {"zero"} \subseteq file'[name] /\ UNCHANGED <<at, rc>> /\ FilePart(t)
        /\ shared \subseteq shared'
    BY <1>2, <1>4, <1>7 DEF FileGrows
  <2>5. FilePart(t)'
    <3>1. path'[obj'[t]] = name /\ "file" \in file'[name]
      BY <1>1, <1>3, <2>4 DEF FilePart
    <3>2. /\ at'[t] > 1 => rc'[t][1] # 1 /\ Tables[1] \in file'[name]
          /\ at'[t] > 2 /\ rc'[t][2] # 1 => Tables[2] \in file'[name]
      BY <1>1, <1>2, <1>3, <2>4 DEF FilePart, TableDone, Tables
    <3>3. AtRow(t)' => "moved" \notin file'[name] \/ name \in shared'
      <4> SUFFICES ASSUME AtRow(t)' PROVE "moved" \notin file[name] \/ name \in shared
        BY <1>4, <2>4
      <4>1. CASE pc[t] = "look" /\ ~Has(t, Table(t))
        <5>1. at[t] = 3
          BY <1>7, <2>2, <2>3, <2>4 DEF AtRow
        <5>2. "lastID" \notin file[name]
          BY <1>3, <4>1, <5>1 DEF Has, Table, Tables
        <5> QED  BY <5>2 DEF FileInv, Counters, Sound, HasRow
      <4>2. CASE pc[t] = "make" /\ Table(t) = "lastID"
        <5>1. AtRow(t)
          BY <1>2, <4>2 DEF AtRow, Table, Tables
        <5> QED  BY <1>3, <2>4, <5>1 DEF FilePart
      <4> QED  BY <1>7, <4>1, <4>2
    <3> QED  BY <1>3, <2>2, <2>3, <2>4, <3>1, <3>2, <3>3
             DEF FilePart, TableDone, Building, AtTables
  <2>6. FileFrame(t)
    BY <1>1, <1>4, <1>7, <2>2 DEF FileFrame
  <2> QED  BY <1>4, <2>5, <2>6, FileMoves
<1> QED  BY <1>5, <1>6, <1>7

LEMMA FileOpen ==
    ASSUME TypeInv, TypeInv', QueueInv, FileInv, NEW t \in Threads, Open(t)
    PROVE  FileInv'
<1>1. PICK q \in Queues :
        /\ path[q] = None
        /\ path' = [path EXCEPT ![q] = Name(t)] /\ obj' = [obj EXCEPT ![t] = q]
  BY DEF Open, Unused
<1>2. /\ pc[t] = "open" /\ UNCHANGED <<m_queueList, op, at, rc>>
      /\ file' = [file EXCEPT ![Name(t)] = @ \cup {"file"}]
      /\ shared' = IF \E p \in Queues : path[p] = Name(t) THEN shared \cup {Name(t)} ELSE shared
  BY DEF Open, connecting
<1>3. PICK name \in Names : name = Name(t) /\ name = Name(t)'
  BY <1>2 DEF TypeInv, ThreadPart, Name
<1>4. /\ path'[q] = name /\ \A p \in Queues : p # q => path'[p] = path[p]
      /\ obj'[t] = q /\ \A u \in Threads : u # t => obj'[u] = obj[u]
      /\ file'[name] = file[name] \cup {"file"}
      /\ \A n \in Names : n # name => file'[n] = file[n]
  BY <1>1, <1>2, <1>3 DEF TypeInv, TypeOK
<1>5. pc'[t] \in {"look", "close"} /\ \A u \in Threads : u # t => pc'[u] = pc[u]
  BY Going DEF Open, TypeInv, Labels
<1>6. /\ \A n \in Names : m_queueList'[n] # q
      /\ \A u \in Threads : obj[u] # q
  <2>1. q # None
    BY ThreadsAndNone
  <2> QED  BY <1>1, <1>2, <2>1 DEF QueueInv, ListAlive, HeldAlive
<1>7. FilePart(t)'
  <2>1. at'[t] = 1
    BY <1>2 DEF FileInv, FilePart, AtTables
  <2> QED  BY <1>3, <1>4, <1>5, <2>1 DEF FilePart, AtRow, Building, AtTables
<1>8. FileGrows /\ \A n \in Names : "moved" \in file'[n] => "moved" \in file[n]
  BY <1>2, <1>3, <1>4 DEF FileGrows, HasRow
<1>9. FileFrame(t)
  BY <1>2, <1>4, <1>5, <1>6, <1>8 DEF FileFrame
<1>10. Counters'
  <2>1. \A n \in Names : Sound(n)'
    BY <1>2, <1>3, <1>4 DEF FileInv, Counters, Sound, HasRow
  <2>2. ASSUME NEW p1 \in Queues, NEW p2 \in Queues, p1 # p2, path'[p1] = path'[p2],
               path'[p1] # None
        PROVE  path'[p1] \in shared'
    <3>1. CASE p1 # q /\ p2 # q
      BY <1>2, <1>4, <2>2, <3>1 DEF FileInv, Counters
    <3>2. CASE p1 = q \/ p2 = q
      BY <1>2, <1>3, <1>4, <2>2, <3>2
    <3> QED  BY <3>1, <3>2
  <2> QED  BY <2>1, <2>2 DEF Counters
<1> QED  BY <1>7, <1>9, <1>10, FileMoves

\* The calls on the list.
LEMMA FileCalls ==
    ASSUME TypeInv, TypeInv', QueueInv, FileInv, NEW t \in Threads,
           Insert(t) \/ Erase(t) \/ Rename(t) \/ GetQueue(t)
    PROVE  FileInv'
<1>1. /\ TypeOK /\ ThreadPart(t) /\ m_queueList \in [Names -> Queues \cup {None}]
      /\ m_queueList' \in [Names -> Queues \cup {None}]
  BY DEF TypeInv, TypeOK
<1>2. /\ pc[t] = "in" /\ Name(t) \in Names /\ m_queueList[Name(t)] \in Queues \cup {None}
      /\ UNCHANGED <<file, shared, path, at, rc>>
  <2>1. pc[t] = "in" /\ UNCHANGED <<file, shared, path, at, rc>>
    BY DEF Insert, Erase, Rename, GetQueue, queues, connecting, history
  <2> QED  BY <1>1, <2>1 DEF ThreadPart
<1>3. Find(t) \subseteq {m_queueList[Name(t)], None} /\ Find(t) \subseteq Queues \cup {None}
  BY <1>2 DEF Find
<1>4. /\ pc'[t] \notin Building /\ (pc'[t] = "in" => Kind(t)' # "create")
      /\ \A u \in Threads : u # t => UNCHANGED <<pc[u], op[u], obj[u]>>
  <2>1. CASE \E q \in Queues \cup {None} : LetGo(t, q)
    BY <1>1, <2>1, LettingGo DEF Building
  <2>2. CASE GetQueue(t)
    <3>1. PICK q : obj' = [obj EXCEPT ![t] = q]
                   /\ IF q = None THEN Ends(t) ELSE Goto(t, "use") /\ op' = [op EXCEPT ![t] = Done]
      BY <2>2 DEF GetQueue
    <3>2. /\ pc'[t] \in {"idle", "use"}
          /\ \A u \in Threads : u # t => pc'[u] = pc[u] /\ op'[u] = op[u]
      BY <1>1, <3>1, Ending, Going, SetCall, LastCalls DEF Labels
    <3>3. \A u \in Threads : u # t => obj'[u] = obj[u]
      BY <1>1, <3>1 DEF TypeOK
    <3> QED  BY <3>2, <3>3 DEF Building
  <2>3. CASE Goto(t, "in") /\ UNCHANGED obj /\ op' = [op EXCEPT ![t] = Erasing(@)]
    <3>1. op'[t].kind = "erase" /\ \A u \in Threads : u # t => op'[u] = op[u]
      <4>1. op[t] \in Op
        BY <1>1 DEF TypeOK, Op, Kinds
      <4> QED  BY <1>1, <2>3, <4>1, SetCall, LastCalls
    <3>2. pc'[t] = "in" /\ \A u \in Threads : u # t => pc'[u] = pc[u]
      BY <1>1, <2>3, Going DEF Labels
    <3> QED  BY <2>3, <3>1, <3>2 DEF Building, Kind
  <2>4. Insert(t) \/ Erase(t) => \E q \in Queues \cup {None} : LetGo(t, q)
    BY <1>3 DEF Insert, Erase
  <2>5. Rename(t) => \/ \E q \in Queues \cup {None} : LetGo(t, q)
                     \/ Goto(t, "in") /\ UNCHANGED obj /\ op' = [op EXCEPT ![t] = Erasing(@)]
    <3>1. Rename(t) => m_queueList[op[t].to] \in Queues \cup {None}
      BY <1>1 DEF Rename, ThreadPart
    <3> QED  BY <3>1 DEF Rename
  <2> QED  BY <2>1, <2>2, <2>3, <2>4, <2>5
<1>5. \A n \in Names :
        \/ m_queueList'[n] \in {None} \cup {m_queueList[m] : m \in Names}
        \/ pc[t] = "in" /\ Kind(t) = "create" /\ m_queueList'[n] = obj[t]
  <2>1. CASE Insert(t)
    <3>1. Kind(t) = "create"
          /\ (UNCHANGED m_queueList \/ m_queueList' = [m_queueList EXCEPT ![Name(t)] = obj[t]])
      BY <2>1 DEF Insert
    <3> QED  BY <1>1, <1>2, <3>1
  <2>2. CASE Erase(t)
    <3>1. m_queueList' = m_queueList \/ m_queueList' = [m_queueList EXCEPT ![Name(t)] = None]
      BY <1>1, <1>2, <2>2 DEF Erase
    <3> QED  BY <1>1, <1>2, <3>1
  <2>3. CASE Rename(t)
    <3>1. op[t].to \in Names
      BY <1>1, <2>3 DEF Rename, ThreadPart
    <3>2. PICK q \in {m_queueList[Name(t)], None} :
            \/ UNCHANGED m_queueList
            \/ m_queueList' = [m_queueList EXCEPT ![op[t].to] = q]
      BY <1>3, <2>3 DEF Rename
    <3> QED  BY <1>1, <1>2, <3>1, <3>2
  <2>4. CASE GetQueue(t)
    BY <2>4 DEF GetQueue
  <2> QED  BY <2>1, <2>2, <2>3, <2>4
<1>6. FilePart(t)'
  BY <1>2, <1>4, FileElse DEF AtTables
<1>7. FileFrame(t)
  BY <1>2, <1>4, <1>5, SameFiles DEF FileFrame
<1> QED  BY <1>2, <1>6, <1>7, FileMoves, CountersStay DEF FileInv

\* The calls on a queue, and its end.
LEMMA FileUse ==
    ASSUME TypeInv, TypeInv', QueueInv, FileInv, NEW t \in Threads,
           (Close(t) /\ t # Boot) \/ Start(t) \/ Release(t) \/ Destroy(t)
    PROVE  FileInv'
<1>1. /\ TypeOK /\ ThreadPart(t) /\ UNCHANGED <<file, shared, m_queueList, at, rc>>
      /\ pc[t] \in {"close", "use", "release", "destroy"}
  BY DEF Close, Start, Release, Destroy, TypeInv, connecting, history
<1>2. obj[t] \in Queues
  BY <1>1 DEF ThreadPart, Building
<1>3. /\ pc'[t] \notin Building /\ (pc'[t] = "in" => Kind(t)' # "create")
      /\ \A u \in Threads : u # t => UNCHANGED <<pc[u], op[u]>>
  <2>1. CASE Ends(t)
    BY <1>1, <2>1, Ending DEF Building
  <2>2. CASE Goto(t, "in") /\ UNCHANGED op /\ Kind(t) = "erase"
    BY <1>1, <2>2, Going DEF Building, Labels, Kind
  <2>3. CASE (Goto(t, "release") \/ Goto(t, "destroy")) /\ UNCHANGED op
    BY <1>1, <2>3, Going DEF Building, Labels
  <2> QED  BY <2>1, <2>2, <2>3 DEF Close, Start, Release, Destroy, Return
<1>4. \A u \in Threads : u # t => obj'[u] = obj[u]
  BY <1>1 DEF Close, Start, Release, Destroy, TypeOK
<1>5. \A q \in Queues :
        \/ path'[q] = path[q]
        \/ /\ \A n \in Names : m_queueList'[n] # q
           /\ \A u \in Threads : u # t => obj[u] # q
  <2>1. CASE Start(t) \/ Release(t)
    BY <2>1 DEF Start, Release
  <2>2. CASE (Close(t) /\ t # Boot) \/ Destroy(t)
    <3>1. ~Referenced(t)
      BY <2>2 DEF Close, Destroy, QueueInv, OwnPart, Building
    <3>2. path' = [path EXCEPT ![obj[t]] = None]
      BY <2>2 DEF Close, Destroy
    <3>3. \A q \in Queues : q # obj[t] => path'[q] = path[q]
      BY <1>1, <3>2 DEF TypeOK
    <3> QED  BY <1>1, <3>1, <3>3 DEF Referenced
  <2> QED  BY <2>1, <2>2
<1>6. FilePart(t)'
  BY <1>1, <1>3, FileElse DEF AtTables
<1>7. FileFrame(t)
  BY <1>1, <1>3, <1>4, <1>5, SameFiles DEF FileFrame
<1>8. Counters'
  <2>1. path' = path \/ path' = [path EXCEPT ![obj[t]] = None]
    BY DEF Close, Start, Release, Destroy
  <2>2. \A q \in Queues : path'[q] \in {None, path[q]}
    BY <1>1, <2>1 DEF TypeOK
  <2> QED  BY <1>1, <2>2, CountersStay DEF FileInv
<1> QED  BY <1>6, <1>7, <1>8, FileMoves

\* A counter is moved on.
LEMMA FileAddTask ==
    ASSUME TypeInv, TypeInv', QueueInv, FileInv, NEW t \in Threads, AddTask(t)
    PROVE  FileInv'
<1>1. /\ pc[t] = "use" /\ obj[t] \in Queues /\ path[obj[t]] \in Names
      /\ Goto(t, "release") /\ UNCHANGED <<m_queueList, path, op, obj, at, rc, shared>>
  <2>1. /\ pc[t] = "use" /\ Goto(t, "release")
        /\ UNCHANGED <<m_queueList, path, op, obj, at, rc, shared>>
    BY DEF AddTask, queues, connecting, history
  <2>2. obj[t] \in Queues /\ obj[t] # None
    BY <2>1, ThreadsAndNone DEF TypeInv, ThreadPart
  <2> QED  BY <2>1, <2>2 DEF TypeInv, TypeOK, QueueInv, HeldAlive
<1>2. PICK name \in Names : name = path[obj[t]]
  BY <1>1
<1>3. \/ UNCHANGED file
      \/ /\ OneRow(name) /\ file'[name] = (file[name] \ {"zero"}) \cup {"moved"}
         /\ \A n \in Names : n # name => file'[n] = file[n]
  BY <1>2 DEF AddTask, TypeInv, TypeOK
<1>4. FileGrows /\ \A n \in Names : "moved" \in file'[n] => "moved" \in file[n] \/ n = name
  BY <1>1, <1>3 DEF FileGrows, HasRow
<1>5. Counters'
  <2>1. Sound(name) /\ (UNCHANGED file => Sound(name)')
    BY <1>1 DEF FileInv, Counters, Sound, HasRow
  <2>2. Sound(name)'
    BY <1>1, <1>3, <2>1 DEF Sound, OneRow, HasRow
  <2>3. \A n \in Names : n # name => Sound(n)'
    BY <1>1, <1>3 DEF FileInv, Counters, Sound, HasRow
  <2> QED  BY <1>1, <2>2, <2>3 DEF FileInv, Counters
<1>6. pc'[t] = "release" /\ \A u \in Threads : u # t => pc'[u] = pc[u]
  BY <1>1, Going DEF TypeInv, Labels
<1>7. FilePart(t)'
  BY <1>1, <1>6, FileElse DEF AtTables, Building
<1>8. FileFrame(t)
  BY <1>1, <1>2, <1>4, <1>6 DEF FileFrame
<1> QED  BY <1>5, <1>7, <1>8, FileMoves

\* Threads that take no part in either.
LEMMA FileAway ==
    ASSUME TypeInv, TypeInv', QueueInv, FileInv,
           \/ BootNext \/ DropNext
           \/ \E t \in Threads : List(t) \/ (t \in Handlers /\ Call(t))
    PROVE  FileInv'
<1>1. TypeOK /\ UNCHANGED <<file, shared, path, at, rc>> /\ Boot \in Threads
  BY DEF TypeInv, BootNext, DropNext, List, Call, queues, connecting, history, Threads
<1>2. Counters' /\ FileGrows /\ \A n \in Names : "moved" \in file'[n] => "moved" \in file[n]
  BY <1>1, SameFiles, CountersStay DEF FileInv
<1>3. CASE BootNext /\ todo = {}
  BY <1>3, FileStays DEF BootNext, queues, threads, history
<1>4. CASE BootNext /\ todo # {}
  <2>1. PICK n : op' = [op EXCEPT ![Boot] = [kind |-> "create", name |-> n, to |-> None]]
                 /\ Goto(Boot, "open")
    BY <1>4 DEF BootNext
  <2>2. UNCHANGED <<m_queueList, obj>> /\ pc[Boot] = "idle"
    BY <1>4 DEF BootNext
  <2>3. pc'[Boot] = "open" /\ \A u \in Threads : u # Boot => UNCHANGED <<pc[u], op[u]>>
    BY <1>1, <2>1, Going DEF Labels, TypeOK
  <2>4. FilePart(Boot)'
    BY <1>1, <2>2, <2>3, FileElse DEF AtTables, Building
  <2>5. FileFrame(Boot)
    BY <1>1, <2>2, <2>3, <1>2 DEF FileFrame
  <2> QED  BY <1>2, <1>1, <2>4, <2>5, FileMoves
<1>5. CASE DropNext
  <2>1. /\ pc[Boot] = "idle" /\ Goto(Boot, "release")
        /\ \E n \in Names : /\ m_queueList' = [m_queueList EXCEPT ![n] = None]
                            /\ obj' = [obj EXCEPT ![Boot] = m_queueList[n]]
                            /\ op' = [op EXCEPT ![Boot] = Done]
    BY <1>5 DEF DropNext
  <2>2. pc'[Boot] = "release" /\ \A u \in Threads : u # Boot => UNCHANGED <<pc[u], op[u], obj[u]>>
    BY <1>1, <2>1, Going DEF Labels, TypeOK
  <2>3. \A n \in Names : m_queueList'[n] \in {None} \cup {m_queueList[m] : m \in Names}
    BY <1>1, <2>1 DEF TypeOK
  <2>4. FilePart(Boot)'
    BY <1>1, <2>1, <2>2, FileElse DEF AtTables, Building
  <2>5. FileFrame(Boot)
    BY <1>1, <2>2, <2>3, <1>2 DEF FileFrame
  <2> QED  BY <1>2, <1>1, <2>4, <2>5, FileMoves
<1>6. ASSUME NEW t \in Threads, List(t) \/ (t \in Handlers /\ Call(t))
      PROVE  FileInv'
  <2>1. UNCHANGED <<m_queueList, obj>>
    BY <1>6 DEF List, Call
  <2>2. CASE List(t)
    <3>1. pc[t] = "in" /\ Ends(t)
      BY <2>2 DEF List
    <3>2. pc'[t] = "idle" /\ \A u \in Threads : u # t => UNCHANGED <<pc[u], op[u]>>
      BY <1>1, <3>1, Ending
    <3>3. FilePart(t)'
      BY <1>1, <3>1, <3>2, FileElse DEF AtTables, Building
    <3>4. FileFrame(t)
      BY <1>1, <2>1, <3>2, <1>2 DEF FileFrame
    <3> QED  BY <1>2, <3>3, <3>4, FileMoves
  <2>3. CASE Call(t)
    <3> PICK k \in Ops, n \in Names, to \in Names \cup {None} :
            /\ op' = [op EXCEPT ![t] = [kind |-> k, name |-> n, to |-> to]]
            /\ Goto(t, IF k = "create" THEN "open" ELSE "in")
      BY <2>3 DEF Call
    <3>1. PICK label \in {"open", "in"} :
            Goto(t, label) /\ (label = "in" => k # "create")
      OBVIOUS
    <3>2. /\ pc[t] = "idle" /\ pc'[t] = label
          /\ \A u \in Threads : u # t => UNCHANGED <<pc[u], op[u]>>
      BY <1>1, <2>3, <3>1, Going DEF Call, Labels, TypeOK
    <3>3. Kind(t)' = k
      BY <1>1, <3>1 DEF Kind, TypeOK
    <3>4. FilePart(t)'
      BY <1>1, <3>1, <3>2, <3>3, FileElse DEF AtTables, Building
    <3>5. FileFrame(t)
      BY <1>1, <2>1, <3>2, <1>2 DEF FileFrame
    <3> QED  BY <1>2, <3>4, <3>5, FileMoves
  <2> QED  BY <1>6, <2>2, <2>3
<1> QED  BY <1>3, <1>4, <1>5, <1>6

LEMMA FileNext == TypeInv /\ TypeInv' /\ QueueInv /\ FileInv /\ [Next]_vars => FileInv'
<1> SUFFICES ASSUME TypeInv, TypeInv', QueueInv, FileInv, [Next]_vars PROVE FileInv'
  OBVIOUS
<1>1. ASSUME NEW t \in Threads, Step(t) PROVE FileInv'
  <2>1. CASE Close(t) /\ t = Boot
    BY <2>1, FileDies DEF Close, history
  <2>2. CASE ~(Close(t) /\ t = Boot)
    BY <1>1, <2>2, FileOpen, FileConnect, FileCalls, FileUse, FileAddTask, FileAway DEF Step
  <2> QED  BY <2>1, <2>2
<1>2. ASSUME NEW t \in Handlers, Call(t) PROVE FileInv'
  BY <1>2, FileAway DEF Threads
<1>3. CASE BootNext \/ DropNext
  BY <1>3, FileAway
<1>4. CASE \/ Crash \/ Restart \/ Listen \/ Signal \/ Shutdown \/ Closed \/ Dropped \/ Terminate
           \/ \E q \in Queues : LoopEnds(q) \/ LoopHangs(q)
           \/ \E t \in Threads : Corrupt(t)
           \/ UNCHANGED vars
  <2>1. ServerDies \/ UNCHANGED <<m_queueList, path, threads>>
    BY <1>4 DEF Crash, Restart, Listen, Signal, Shutdown, Closed, Dropped, Terminate,
       LoopEnds, LoopHangs, Corrupt, vars, queues
  <2>2. UNCHANGED <<file, shared>>
    BY <1>4 DEF Crash, Restart, Listen, Signal, Shutdown, Closed, Dropped, Terminate,
       LoopEnds, LoopHangs, Corrupt, vars, history
  <2> QED  BY <2>1, <2>2, FileDies, FileStays
<1> QED  BY <1>1, <1>2, <1>3, <1>4 DEF Next, Main

\* A queue in the list has a file with every table and a counter, whatever fails,
\* whoever dies and however many threads create it at the same time; only in a file
\* that two queues had open at once may the counter have a second row.
\* (connectToDB's comparison of the three codes, verifyID, getID)
THEOREM OpenedFilesAreWhole == Spec => []OpenedIsWhole
<1>1. TypeInv /\ QueueInv /\ FileInv /\ [Next]_vars => TypeInv' /\ QueueInv' /\ FileInv'
  BY TypeNext, QueueNext, FileNext
<1>2. FileInv => OpenedIsWhole
  BY DEF FileInv
<1> QED  BY <1>1, <1>2, TypeInit, QueueInit, FileInit, PTL DEF Spec

-----------------------------------------------------------------------------
(* The life of the server: who is at work in which part of it.             *)

LifePart ==
    /\ server = "down" => /\ todo = {} /\ \A n \in Names : m_queueList[n] = None
                          /\ \A t \in Threads : pc[t] = "idle"
    /\ server \in {"boot", "ready", "ending", "over"} => \A t \in Handlers : pc[t] = "idle"
    /\ server \in {"ready", "up", "closing", "over"} => pc[Boot] = "idle"
    /\ server = "over" => \A n \in Names : m_queueList[n] = None

\* What init() has opened, is opening and has still to open.
BootPart ==
    server = "boot" =>
       /\ \A n \in todo : m_queueList[n] = None
       /\ pc[Boot] # "idle" =>
            /\ pc[Boot] \in {"open", "in"} \cup Building /\ Kind(Boot) = "create"
            /\ Name(Boot) \notin todo /\ m_queueList[Name(Boot)] = None
       /\ \A n \in Names : m_queueList[n] # None =>
            path[m_queueList[n]] = n /\ "file" \in file[n]
       /\ \A n \in todo : "file" \in file[n]
       /\ \A n \in Names : "file" \in file[n] =>
            \/ m_queueList[n] # None \/ n \in todo
            \/ pc[Boot] # "idle" /\ n = Name(Boot)

LifeInv == LifePart /\ BootPart /\ ListIsOfFiles

LEMMA LifeInit == Init => LifeInv
BY DEF Init, LifeInv, LifePart, BootPart, ListIsOfFiles, Threads

LEMMA LifeDies == ServerDies => LifeInv'
<1> SUFFICES ASSUME ServerDies PROVE LifeInv'
  OBVIOUS
<1>1. server' = "down" /\ todo' = {} /\ Fresh
  BY DEF ServerDies
<1>2. LifePart'
  BY <1>1, FreshTypes DEF LifePart
<1> QED  BY <1>1, <1>2 DEF LifeInv, BootPart, ListIsOfFiles

\* A step of one thread moves no other.
LEMMA OneMoves ==
    ASSUME TypeInv, NEW t \in Threads, Step(t), ~ServerDies
    PROVE  \A u \in Threads : u # t => pc'[u] = pc[u]
<1> DEFINE Rest == \A u \in Threads : u # t => pc'[u] = pc[u]
<1>1. ASSUME NEW label \in Labels, Goto(t, label) PROVE Rest
  BY <1>1, Going DEF TypeInv
<1>2. CASE Ends(t)
  BY <1>2, Ending DEF TypeInv
<1>3. ASSUME NEW code \in 0..2, Verified(t, code) PROVE Rest
  BY <1>3, Verifying DEF TypeInv
<1>4. ASSUME NEW q, LetGo(t, q) PROVE Rest
  BY <1>1, <1>2, <1>4 DEF LetGo, Labels
<1>5. Return(t) => Rest
  BY <1>1, <1>2 DEF Return, Labels
<1>6. Look(t) \/ Make(t) \/ InsertRow(t) => Rest
  BY <1>1, <1>3 DEF Look, Make, InsertRow, CodeOfTable, Labels
<1>7. Open(t) \/ Close(t) \/ List(t) \/ Start(t) \/ AddTask(t) => Rest
  BY <1>1, <1>2 DEF Open, Close, List, Start, AddTask, Labels
<1>8. Insert(t) \/ Erase(t) => Rest
  BY <1>4 DEF Insert, Erase
<1>9. Rename(t) \/ GetQueue(t) => Rest
  BY <1>1, <1>2, <1>4 DEF Rename, GetQueue, Labels
<1>10. Release(t) \/ Destroy(t) => Rest
  BY <1>1, <1>5 DEF Release, Destroy, Labels
<1> QED  BY <1>6, <1>7, <1>8, <1>9, <1>10 DEF Step

\* init() opens a file and inserts its queue.
LEMMA BootMoves ==
    ASSUME TypeInv, QueueInv, FileInv, LifeInv, server = "boot", Boot \in Threads,
           Step(Boot), ~ServerDies, UNCHANGED <<server, todo>>
    PROVE  BootPart'
<1>1. /\ pc[Boot] \in {"open", "in"} \cup Building /\ Kind(Boot) = "create"
      /\ ThreadPart(Boot) /\ FilePart(Boot) /\ TypeOK
      /\ \A u \in Threads \ {Boot} : pc[u] = "idle"
  <2>1. pc[Boot] # "idle"
    BY DEF Step, Open, Look, Make, InsertRow, Close, Insert, Erase, Rename, List,
       GetQueue, Start, AddTask, Release, Destroy
  <2>2. \A u \in Threads \ {Boot} : pc[u] = "idle"
    BY DEF LifeInv, LifePart, Threads
  <2> QED  BY <2>1, <2>2 DEF LifeInv, BootPart, TypeInv, FileInv
<1>2. PICK name \in Names : name = Name(Boot)
  BY <1>1 DEF ThreadPart
<1>3. /\ \A n \in todo : m_queueList[n] = None /\ "file" \in file[n] /\ n \in Names
      /\ name \notin todo /\ m_queueList[name] = None
      /\ \A n \in Names : m_queueList[n] # None =>
           path[m_queueList[n]] = n /\ "file" \in file[n]
      /\ \A n \in Names : "file" \in file[n] =>
           m_queueList[n] # None \/ n \in todo \/ n = name
  <2>1. pc[Boot] # "idle" /\ BootPart /\ todo \subseteq Names
    BY <1>1 DEF LifeInv, TypeOK, Building
  <2> QED  BY <1>2, <2>1 DEF BootPart
<1>4. CASE Open(Boot)
  <2>1. PICK q \in Queues :
          /\ path[q] = None
          /\ path' = [path EXCEPT ![q] = Name(Boot)]
    BY <1>4 DEF Open, Unused
  <2>2. /\ UNCHANGED <<m_queueList, op>>
        /\ file' = [file EXCEPT ![Name(Boot)] = @ \cup {"file"}]
    BY <1>4 DEF Open
  <2>3. \A n \in Names : /\ n # name => file'[n] = file[n]
                         /\ "file" \in file[n] => "file" \in file'[n]
    BY <1>1, <1>2, <2>2 DEF TypeOK
  <2>4. ASSUME NEW n \in Names, m_queueList[n] # None
        PROVE path'[m_queueList[n]] = path[m_queueList[n]]
    BY <1>1, <2>1, <2>4 DEF QueueInv, ListAlive, TypeOK
  <2>5. pc'[Boot] \in {"look", "close"}
    BY <1>1, <1>4, Going DEF Open, Labels
  <2>6. Name(Boot)' = name /\ Kind(Boot)' = "create"
    BY <1>1, <1>2, <2>2 DEF Name, Kind
  <2> QED  BY <1>3, <2>2, <2>3, <2>4, <2>5, <2>6 DEF BootPart, Building
<1>5. CASE Look(Boot) \/ Make(Boot) \/ InsertRow(Boot)
  <2>1. UNCHANGED <<m_queueList, path, op>>
    BY <1>5 DEF Look, Make, InsertRow, queues
  <2>2. Name(Boot)' = name /\ Kind(Boot)' = "create"
    BY <1>1, <1>2, <2>1 DEF Name, Kind
  <2>3. \A n \in Names : "file" \in file'[n] <=> "file" \in file[n]
    <3>1. CASE UNCHANGED file
      BY <3>1
    <3>2. CASE \E part \in Parts \ {"file"} : Adds(Boot, part)
      BY <1>1, <1>2, <3>2 DEF Adds, TypeOK
    <3>3. Table(Boot) \in Parts \ {"file"} /\ "zero" \in Parts
      <4>1. at[Boot] \in 1..3
        BY <1>1 DEF TypeOK
      <4> QED  BY <4>1 DEF Table, Tables, Parts
    <3> QED  BY <1>5, <3>1, <3>2, <3>3 DEF Look, Make, InsertRow, MakesTable
  <2>4. pc'[Boot] \in {"look", "make", "row", "close", "in"}
    <3>1. ASSUME NEW code \in 0..2, Verified(Boot, code)
          PROVE  pc'[Boot] \in {"look", "close", "in"}
      BY <1>1, <3>1, Verifying
    <3>2. ASSUME NEW label \in {"make", "row", "in"}, Goto(Boot, label)
          PROVE  pc'[Boot] = label
      BY <1>1, <3>2, Going DEF Labels
    <3> QED  BY <1>5, <3>1, <3>2 DEF Look, Make, InsertRow, CodeOfTable
  <2> QED  BY <1>3, <2>1, <2>2, <2>3, <2>4 DEF BootPart, Building
<1>6. CASE Insert(Boot)
  <2>1. ~Conflict(Boot)
    BY <1>1 DEF Conflict
  <2>2. Find(Boot) = {None}
    BY <1>2, <1>3, <2>1 DEF Find
  <2>3. LetGo(Boot, None) /\ m_queueList' = [m_queueList EXCEPT ![Name(Boot)] = obj[Boot]]
        /\ UNCHANGED <<path, file>>
    BY <1>6, <2>1, <2>2 DEF Insert
  <2>4. pc'[Boot] = "idle"
    BY <1>1, <2>3, LettingGo
  <2>5. /\ obj[Boot] \in Queues /\ path[obj[Boot]] = name /\ "file" \in file[name]
    BY <1>1, <1>2, <1>6 DEF Insert, ThreadPart, FilePart, Whole, Parts
  <2>6. /\ m_queueList'[name] = obj[Boot]
        /\ \A n \in Names : n # name => m_queueList'[n] = m_queueList[n]
    BY <1>1, <1>2, <2>3 DEF TypeOK
  <2>7. obj[Boot] # None
    BY <2>5, ThreadsAndNone
  <2> QED  BY <1>3, <2>3, <2>4, <2>5, <2>6, <2>7 DEF BootPart
<1>7. ~Close(Boot)
  BY DEF Close
<1> QED  BY <1>1, <1>4, <1>5, <1>6, <1>7
       DEF Step, Erase, Rename, List, GetQueue, Start, AddTask, Release, Destroy, Building

\* Any thread's step.
LEMMA LifeStep ==
    ASSUME TypeInv, QueueInv, FileInv, LifeInv, NEW t \in Threads, Step(t), ~ServerDies
    PROVE  LifeInv'
<1>1. UNCHANGED <<server, todo>> /\ pc[t] # "idle"
  BY DEF Step, Open, Look, Make, InsertRow, Close, Insert, Erase, Rename, List,
     GetQueue, Start, AddTask, Release, Destroy, process
<1>2. /\ \A u \in Threads : u # t => pc'[u] = pc[u]
      /\ Boot \in Threads /\ \A u \in Handlers : u \in Threads /\ u # Boot
  BY OneMoves, ThreadsAndNone DEF Threads
<1>3. CASE t \in Handlers
  <2>1. server \in {"up", "closing"}
    BY <1>1, <1>2, <1>3 DEF LifeInv, LifePart, TypeInv, TypeOK
  <2> QED  BY <1>1, <1>2, <1>3, <2>1 DEF LifeInv, LifePart, BootPart, ListIsOfFiles
<1>4. CASE t = Boot
  <2>1. server \in {"boot", "ending"}
    BY <1>1, <1>4 DEF LifeInv, LifePart, TypeInv, TypeOK
  <2>2. \A u \in Handlers : pc'[u] = "idle"
    BY <1>2, <1>4, <2>1 DEF LifeInv, LifePart
  <2>3. LifePart' /\ ListIsOfFiles'
    BY <1>1, <2>1, <2>2 DEF LifePart, ListIsOfFiles
  <2>4. BootPart'
    <3>1. CASE server = "boot"
      BY <1>1, <1>4, <3>1, BootMoves
    <3>2. CASE server # "boot"
      BY <1>1, <3>2 DEF BootPart
    <3> QED  BY <3>1, <3>2
  <2> QED  BY <2>3, <2>4 DEF LifeInv
<1> QED  BY <1>3, <1>4 DEF Threads

LEMMA LifeNext == TypeInv /\ QueueInv /\ FileInv /\ LifeInv /\ [Next]_vars => LifeInv'
<1> SUFFICES ASSUME TypeInv, QueueInv, FileInv, LifeInv, [Next]_vars PROVE LifeInv'
  OBVIOUS
<1>1. CASE ServerDies
  BY <1>1, LifeDies
<1>2. ASSUME NEW t \in Threads, Step(t), ~ServerDies PROVE LifeInv'
  BY <1>2, LifeStep
<1>3. CASE \/ UNCHANGED vars \/ \E q \in Queues : LoopEnds(q) \/ LoopHangs(q)
           \/ Signal /\ ~ServerDies
  <2>1. UNCHANGED <<file, server, todo, m_queueList, path, pc, op>>
    BY <1>3 DEF vars, process, queues, threads, LoopEnds, LoopHangs, Signal
  <2> QED  BY <2>1 DEF LifeInv, LifePart, BootPart, ListIsOfFiles, Name, Kind
<1>4. CASE Restart
  <2>1. /\ server = "down" /\ server' = "boot" /\ todo' = {n \in Names : "file" \in file[n]}
        /\ UNCHANGED <<file, m_queueList, path, pc, op>>
    BY <1>4 DEF Restart, queues, threads
  <2>2. Boot \in Threads /\ Handlers \subseteq Threads
    BY DEF Threads
  <2> QED  BY <2>1, <2>2 DEF LifeInv, LifePart, BootPart, ListIsOfFiles
<1>5. CASE BootNext
  <2>1. server = "boot" /\ pc[Boot] = "idle" /\ UNCHANGED <<file, m_queueList, path>>
    BY <1>5 DEF BootNext, queues
  <2>2. CASE todo = {}
    <3>1. server' = "ready" /\ UNCHANGED <<todo, pc, op>>
      BY <1>5, <2>2 DEF BootNext
    <3> QED  BY <2>1, <2>2, <3>1 DEF LifeInv, LifePart, BootPart, ListIsOfFiles
  <2>3. CASE todo # {}
    <3>1. PICK n \in todo :
            /\ todo' = todo \ {n}
            /\ op' = [op EXCEPT ![Boot] = [kind |-> "create", name |-> n, to |-> None]]
            /\ Goto(Boot, "open") /\ UNCHANGED server
      BY <1>5, <2>3 DEF BootNext
    <3>2. /\ pc'[Boot] = "open" /\ \A u \in Handlers : pc'[u] = pc[u]
      BY <3>1, Going, ThreadsAndNone DEF Threads, Labels, TypeInv
    <3>3. Name(Boot)' = n /\ Kind(Boot)' = "create"
      BY <3>1 DEF Name, Kind, TypeInv, TypeOK, Threads
    <3>4. LifePart' /\ ListIsOfFiles'
      BY <2>1, <3>1, <3>2 DEF LifeInv, LifePart, ListIsOfFiles
    <3>5. BootPart'
      BY <2>1, <3>1, <3>2, <3>3 DEF LifeInv, BootPart
    <3> QED  BY <3>4, <3>5 DEF LifeInv
  <2> QED  BY <2>2, <2>3
<1>6. CASE (Listen /\ ~ServerDies) \/ Shutdown \/ Closed \/ Dropped
  <2>1. UNCHANGED <<m_queueList, pc>>
    BY <1>6 DEF Listen, Shutdown, Closed, Dropped, threads
  <2>2. \/ server = "ready" /\ server' = "up"
        \/ server = "up" /\ server' = "closing"
        \/ server = "closing" /\ HandlersIdle /\ server' = "ending"
        \/ /\ server = "ending" /\ pc[Boot] = "idle" /\ server' = "over"
           /\ \A n \in Names : m_queueList[n] = None
    BY <1>6 DEF Listen, Shutdown, Closed, Dropped
  <2> QED  BY <2>1, <2>2 DEF LifeInv, LifePart, BootPart, ListIsOfFiles, HandlersIdle
<1>7. CASE DropNext
  <2>1. server = "ending" /\ server' = "ending" /\ Goto(Boot, "release")
    BY <1>7 DEF DropNext, process
  <2>2. \A u \in Handlers : pc'[u] = pc[u]
    BY <2>1, Going, ThreadsAndNone DEF Threads, Labels, TypeInv
  <2> QED  BY <2>1, <2>2 DEF LifeInv, LifePart, BootPart, ListIsOfFiles
<1>8. ASSUME NEW t \in Handlers, Call(t) PROVE LifeInv'
  <2>1. server = "up" /\ server' = "up"
    BY <1>8 DEF Call, Serves, process
  <2>2. pc'[Boot] = pc[Boot]
    BY <1>8, Going, ThreadsAndNone DEF Call, Threads, Labels, TypeInv
  <2> QED  BY <2>1, <2>2 DEF LifeInv, LifePart, BootPart, ListIsOfFiles
<1>9. Crash \/ Terminate \/ (\E t \in Threads : Corrupt(t)) => ServerDies
  BY DEF Crash, Terminate, Corrupt
<1> QED  BY <1>1, <1>2, <1>3, <1>4, <1>5, <1>6, <1>7, <1>8, <1>9 DEF Next, Main

\* All of it together.
AllInv == TypeInv /\ QueueInv /\ FileInv /\ LifeInv

LEMMA AllAlways == Spec => []AllInv
<1>1. Init => AllInv
  BY TypeInit, QueueInit, FileInit, LifeInit DEF AllInv
<1>2. AllInv /\ [Next]_vars => AllInv'
  BY TypeNext, QueueNext, FileNext, LifeNext DEF AllInv
<1> QED  BY <1>1, <1>2, PTL DEF Spec

\* The server begins to serve with the queues of all the files it found, each under
\* the name of its file, whatever was renamed or deleted before.
\* (SQLiteQueueList::init)
THEOREM ListOfFiles == Spec => []ListIsOfFiles
<1>1. AllInv => ListIsOfFiles
  BY DEF AllInv, LifeInv
<1> QED  BY <1>1, AllAlways, PTL

\* When the list is gone after main(), so are all queues but those that races lost.
\* (Server::start's Shutdown, the order of sqliteQueueList and server)
THEOREM NoneRunsOn == Spec => []NothingRunsOn
<1>1. ASSUME AllInv, server = "over", NEW q \in Queues \ lost
      PROVE  path[q] = None /\ loop[q] = "off"
  <2>1. \A n \in Names : m_queueList[n] # q
    BY <1>1, ThreadsAndNone DEF AllInv, LifeInv, LifePart
  <2>2. \A t \in Threads : obj[t] # q
    <3>1. \A t \in Threads : pc[t] = "idle"
      BY <1>1 DEF AllInv, LifeInv, LifePart, Threads
    <3> QED  BY <1>1, <3>1, ThreadsAndNone DEF AllInv, TypeInv, ThreadPart
  <2>3. path[q] = None
    BY <1>1, <2>1, <2>2 DEF AllInv, QueueInv, Kept
  <2> QED  BY <1>1, <2>3 DEF AllInv, QueueInv, LoopAlive
<1>2. AllInv => NothingRunsOn
  BY <1>1 DEF NothingRunsOn
<1> QED  BY <1>2, AllAlways, PTL
=============================================================================
