------------------------- MODULE RemoteQueueProofs -------------------------
(***************************************************************************)
(* Theorems about RemoteQueue, for every number of clients, names, calls,  *)
(* IDs and crashes.                                                        *)
(***************************************************************************)
EXTENDS RemoteQueue, TaskTableProofs

-----------------------------------------------------------------------------
(* The inductive invariant. *)

\* Calls are made in the order of their numbers, one at a time by each client,
\* and told "OK" with what their handler returned.
CallPart(k) ==
    /\ k > made => told[k] = "unasked" /\ handler[k] = "none" /\ value[k] = 0 /\ heard[k] = 0
    /\ k <= made => told[k] # "unasked" /\ request[k] \in Request
    /\ Op(k) \in Silent => value[k] = 0 /\ heard[k] = 0
    /\ told[k] = "OK" /\ Op(k) \notin Silent => handler[k] = "OK" /\ heard[k] = value[k]
WaitPart(c) ==
    waiting[c] # 0 =>
        /\ told[waiting[c]] = "waiting" /\ waiting[c] <= made
        /\ request[waiting[c]].client = c
        /\ \A k \in Calls : waiting[c] < k /\ k <= made => request[k].client # c
CallInv == (\A k \in Calls : CallPart(k)) /\ (\A c \in Clients : WaitPart(c))

\* A handler that works on a queue has one.
QueueInv ==
    \A k \in Calls :
        (handler[k] = "found" \/ (handler[k] = "OK" /\ Op(k) \in QueueOps)) => queue[k] \in Names

-----------------------------------------------------------------------------
(* Types. *)

LEMMA CommandsAreRequests ==
    ASSUME NEW c \in Clients, m_queueName \in [Clients -> Names \cup {None}]
    PROVE  \A r \in Commands(c) : r \in Request /\ r.client = c
BY DEF Commands, ListCommands, QueueCommands, Request, QueueOps, ListOps, IDs

LEMMA TypeInit == Init => TypeOK
BY BoundsAssumption DEF Init, TypeOK, NoRequest, Calls

LEMMA TypeClient ==
    ASSUME TypeOK, NEW c \in Clients, ClientStep(c)
    PROVE  TypeOK'
<1> USE BoundsAssumption DEF TypeOK, server, handlers, clients
<1>1. CASE Ask(c)
  <2>1. made + 1 \in Calls /\ made + 1 \in 0..MaxCalls
    BY <1>1 DEF Ask, Calls
  <2>2. PICK r \in Commands(c) : request' = [request EXCEPT ![made + 1] = r]
    BY <1>1 DEF Ask
  <2>3. r \in Request
    BY <2>2, CommandsAreRequests
  <2> QED  BY <1>1, <2>1, <2>2, <2>3 DEF Ask
<1>2. CASE ReadNext(c)
  <2> DEFINE k == waiting[c]
  <2>1. k \in Calls /\ Len(out[k]) < Len(rows[k]) /\ out[k] \in Seq(Nat) /\ rows[k] \in Seq(Nat)
    BY <1>2 DEF ReadNext, Calls
  <2>2. rows[k][Len(out[k]) + 1] \in Nat
    BY <2>1
  <2>3. Append(out[k], rows[k][Len(out[k]) + 1]) \in Seq(Nat)
    BY <2>1, <2>2
  <2> QED  BY <1>2, <2>1, <2>3 DEF ReadNext
<1>3. CASE Answered(c)
  <2>1. waiting[c] \in Calls
    BY <1>3 DEF Answered, Calls
  <2>2. Op(waiting[c]) = "getQueue" => NameOf(waiting[c]) \in Names \cup {None}
    BY <2>1 DEF Op, NameOf, Request, NoRequest
  <2> QED  BY <1>3, <2>1, <2>2 DEF Answered, Returns
<1>4. CASE Refused(c)
  <2>1. told' \in [Calls -> {"unasked", "waiting", "OK", "error"}]
    BY <1>4 DEF Refused, Returns
  <2> QED  BY <1>4, <2>1 DEF Refused, Returns
<1>5. CASE GivesUp(c)
  <2>1. told' \in [Calls -> {"unasked", "waiting", "OK", "error"}]
    BY <1>5 DEF GivesUp, Returns
  <2> QED  BY <1>5, <2>1 DEF GivesUp, Returns
<1>6. CASE Leave(c)
  BY <1>6 DEF Leave
<1> QED  BY <1>1, <1>2, <1>3, <1>4, <1>5, <1>6 DEF ClientStep

\* What a handler is asked for.
LEMMA Asked ==
    ASSUME TypeOK, CallInv, NEW k \in Calls, handler[k] # "none"
    PROVE  /\ k <= made /\ request[k] \in Request
           /\ NameOf(k) \in Names /\ request[k].id \in Nat
           /\ Op(k) \in QueueOps \cup ListOps
<1>1. k <= made
  BY DEF TypeOK, CallInv, CallPart, Calls
<1>2. request[k] \in Request
  BY <1>1 DEF CallInv, CallPart
<1> QED  BY <1>1, <1>2 DEF Request, NameOf, Op

LEMMA CountersReadType ==
    ASSUME TypeOK, NEW q \in Names, NEW id \in CountersRead(q)
    PROVE  id \in 0..lastID[q] /\ id \in 0..MaxID
BY BoundsAssumption DEF TypeOK, CountersRead

LEMMA TypeHandler ==
    ASSUME TypeOK, CallInv, QueueInv, NEW k \in Calls, HandlerStep(k)
    PROVE  TypeOK'
<1> USE BoundsAssumption DEF TypeOK, server, handlers, clients, Ends
<1>1. CASE Find(k)
  <2>1. NameOf(k) \in Names
    BY <1>1, Asked DEF Find
  <2> QED  BY <1>1, <2>1 DEF Find
<1>2. CASE Fails(k)
  BY <1>2 DEF Fails
<1>3. CASE AddTask(k)
  <2>1. queue[k] \in Names
    BY <1>3 DEF AddTask, QueueInv
  <2>2. PICK id \in CountersRead(queue[k]) :
          /\ lastID' = [lastID EXCEPT ![queue[k]] = IF id = @ THEN @ + 1 ELSE @]
          /\ \/ /\ pending' = [pending EXCEPT ![queue[k]] = InsertPending(@, id)]
                /\ value' = [value EXCEPT ![k] = id]
             \/ UNCHANGED <<pending, value>>
    BY <1>3 DEF AddTask
  <2>3. id \in 0..MaxID /\ lastID[queue[k]] \in 0..MaxID /\ lastID[queue[k]] + 1 \in 0..MaxID
    BY <1>3, <2>1, CountersReadType DEF AddTask
  <2>4. InsertPending(pending[queue[k]], id) \in Seq(Nat)
    BY <2>1, <2>3 DEF InsertPending
  <2>8. pending' \in [Names -> Seq(Nat)]
    BY <2>1, <2>2, <2>4
  <2>5. value' \in [Calls -> 0..MaxID]
    BY <2>2, <2>3
  <2>6. handler' \in [Calls -> {"none", "sent", "found", "OK", "error", "lost"}]
    BY <1>3 DEF AddTask
  <2>7. lastID' \in [Names -> 0..MaxID]
    BY <2>1, <2>2, <2>3
  <2> QED  BY <1>3, <2>5, <2>6, <2>7, <2>8 DEF AddTask
<1>4. CASE RemoveTask(k)
  <2>1. queue[k] \in Names /\ request[k].id \in Nat
    BY <1>4, Asked DEF RemoveTask, QueueInv
  <2>2. DeletePending(pending[queue[k]], request[k].id) \in Seq(Nat)
    BY <2>1, DeleteKeepsType
  <2> QED  BY <1>4, <2>1, <2>2 DEF RemoveTask
<1>5. CASE ClearPending(k)
  <2>1. queue[k] \in Names
    BY <1>5 DEF ClearPending, QueueInv
  <2>2. <<>> \in Seq(Nat)
    OBVIOUS
  <2> QED  BY <1>5, <2>1, <2>2 DEF ClearPending
<1>6. CASE ListPending(k)
  <2>1. queue[k] \in Names
    BY <1>6 DEF ListPending, QueueInv
  <2> QED  BY <1>6, <2>1 DEF ListPending
<1>7. CASE Other(k)
  BY <1>7 DEF Other
<1>8. CASE OnList(k)
  <2>1. NameOf(k) \in Names
    BY <1>8, Asked DEF OnList
  <2>2. /\ m_queueList' \in [Names -> Names \cup {None}]
        /\ files' \subseteq Names /\ shared' \subseteq Names
    BY <1>8, <2>1 DEF OnList, CreateQueue, DeleteQueue, RenameQueue, ListQueue, GetQueue
  <2> QED  BY <1>8, <2>2 DEF OnList
<1> QED  BY <1>1, <1>2, <1>3, <1>4, <1>5, <1>6, <1>7, <1>8 DEF HandlerStep

LEMMA TypeServer ==
    ASSUME TypeOK
    PROVE  /\ \A f \in Names : Work(f) => TypeOK'
           /\ Crash => TypeOK'
<1> USE BoundsAssumption DEF TypeOK, handlers, clients
<1>1. ASSUME NEW f \in Names, Work(f) PROVE TypeOK'
  <2>1. pending[f] \in Seq(Nat) /\ pending[f] # <<>>
    BY <1>1 DEF Work
  <2>2. pending[f][1] \in Nat
    BY <2>1, EmptySeq, LenProperties
  <2>3. DeletePending(pending[f], pending[f][1]) \in Seq(Nat)
    BY <2>1, <2>2, DeleteKeepsType
  <2> QED  BY <1>1, <2>3 DEF Work
<1>2. CASE Crash
  BY <1>2 DEF Crash
<1> QED  BY <1>1, <1>2

LEMMA TypeNext == TypeOK /\ CallInv /\ QueueInv /\ [Next]_vars => TypeOK'
<1> SUFFICES ASSUME TypeOK, CallInv, QueueInv, [Next]_vars PROVE TypeOK'
  OBVIOUS
<1>1. CASE UNCHANGED vars
  BY <1>1 DEF vars, TypeOK
<1> QED  BY <1>1, TypeClient, TypeHandler, TypeServer DEF Next

-----------------------------------------------------------------------------
(* Calls. *)

LEMMA CallInit == Init => CallInv /\ QueueInv
BY BoundsAssumption DEF Init, CallInv, CallPart, WaitPart, QueueInv, Calls, Op, NoRequest

\* Two clients never wait for the same call.
LEMMA OwnCalls ==
    ASSUME TypeOK, CallInv, NEW c \in Clients, NEW d \in Clients, waiting[c] # 0,
           waiting[c] = waiting[d]
    PROVE  c = d
BY DEF CallInv, WaitPart

LEMMA CallAsk ==
    ASSUME TypeOK, CallInv, QueueInv, NEW c \in Clients, Ask(c)
    PROVE  CallInv' /\ QueueInv'
<1> DEFINE n == made + 1
<1>1. n \in Calls /\ made \in Nat /\ made' = n
  BY BoundsAssumption DEF Ask, Calls, TypeOK
<1>2. PICK r \in Commands(c) : request' = [request EXCEPT ![n] = r]
  BY DEF Ask
<1>3. r \in Request /\ r.client = c
  BY <1>2, CommandsAreRequests DEF TypeOK
<1>4. /\ told' = [told EXCEPT ![n] = "waiting"] /\ handler' = [handler EXCEPT ![n] = "sent"]
      /\ waiting' = [waiting EXCEPT ![c] = n] /\ UNCHANGED <<value, heard, queue>>
  BY DEF Ask
<1>5. told[n] = "unasked" /\ value[n] = 0 /\ heard[n] = 0
  BY <1>1 DEF CallInv, CallPart
<1> HIDE DEF n
<1>6. ASSUME NEW k \in Calls PROVE CallPart(k)'
  <2>1. CASE k = n
    <3>1. told'[n] = "waiting" /\ request'[n] = r /\ value'[n] = 0 /\ heard'[n] = 0
      BY <1>1, <1>2, <1>4, <1>5 DEF TypeOK
    <3>2. ~(n > made')
      BY <1>1 DEF Calls
    <3> QED  BY <1>3, <2>1, <3>1, <3>2 DEF CallPart
  <2>2. CASE k # n
    <3>1. /\ told'[k] = told[k] /\ handler'[k] = handler[k] /\ request'[k] = request[k]
          /\ value'[k] = value[k] /\ heard'[k] = heard[k]
      BY <1>2, <1>4, <2>2 DEF TypeOK
    <3>2. (k <= made' <=> k <= made) /\ (k > made' => k > made)
      BY <1>1, <2>2 DEF n, Calls
    <3> QED  BY <3>1, <3>2, <1>1 DEF CallInv, CallPart, Op, Calls
  <2> QED  BY <2>1, <2>2
<1>7. ASSUME NEW d \in Clients PROVE WaitPart(d)'
  <2>1. CASE d = c
    BY <1>1, <1>2, <1>3, <1>4, <2>1 DEF WaitPart, TypeOK, Calls
  <2>2. CASE d # c
    <3> SUFFICES ASSUME waiting[d] # 0 PROVE WaitPart(d)'
      BY <1>4, <2>2 DEF WaitPart, TypeOK
    <3>1. waiting'[d] = waiting[d] /\ waiting[d] \in Calls /\ waiting[d] <= made
      BY <1>4, <2>2 DEF CallInv, WaitPart, TypeOK, Calls
    <3>2. waiting[d] # n
      BY <1>1, <3>1 DEF n, Calls
    <3>3. ASSUME NEW k \in Calls, waiting[d] < k, k <= made' PROVE request'[k].client # d
      <4>1. CASE k = n
        BY <1>1, <1>2, <1>3, <2>2, <4>1 DEF TypeOK
      <4>2. CASE k # n
        <5>1. k <= made /\ request'[k] = request[k]
          BY <1>1, <1>2, <3>3, <4>2 DEF n, TypeOK, Calls
        <5> QED  BY <3>3, <5>1 DEF CallInv, WaitPart
      <4> QED  BY <4>1, <4>2
    <3>4. told'[waiting[d]] = told[waiting[d]] /\ request'[waiting[d]] = request[waiting[d]]
      BY <1>2, <1>4, <3>1, <3>2 DEF TypeOK
    <3>5. waiting[d] <= made'
      BY <1>1, <3>1 DEF n, Calls
    <3> QED  BY <3>1, <3>3, <3>4, <3>5 DEF CallInv, WaitPart
  <2> QED  BY <2>1, <2>2
<1>8. QueueInv'
  <2>1. ASSUME NEW k \in Calls, handler'[k] = "found" \/ (handler'[k] = "OK" /\ Op(k)' \in QueueOps)
        PROVE  queue'[k] \in Names
    <3>1. k # n
      BY <1>1, <1>4, <2>1 DEF TypeOK
    <3> QED  BY <1>2, <1>4, <2>1, <3>1 DEF QueueInv, Op, TypeOK
  <2> QED  BY <2>1 DEF QueueInv
<1> QED  BY <1>6, <1>7, <1>8 DEF CallInv

\* A call returns: nothing but what its client knows of it changes.
LEMMA CallReturns ==
    ASSUME TypeOK, CallInv, QueueInv, NEW c \in Clients, NEW status, waiting[c] # 0,
           Returns(c, status), status \in {"OK", "error"},
           \/ /\ status = "OK" /\ handler[waiting[c]] = "OK"
              /\ heard' = [heard EXCEPT ![waiting[c]] = value[waiting[c]]]
           \/ status = "error" /\ UNCHANGED heard
    PROVE  CallInv' /\ QueueInv'
<1> DEFINE n == waiting[c]
<1>1. n \in Calls /\ n <= made
  BY DEF TypeOK, CallInv, WaitPart, Calls
<1>2. /\ told' = [told EXCEPT ![n] = IF Op(n) \in Silent THEN "OK" ELSE status]
      /\ waiting' = [waiting EXCEPT ![c] = 0]
      /\ UNCHANGED <<handler, queue, value, request, made>>
  BY DEF Returns, handlers
<1>3. \A k \in Calls : Op(k)' = Op(k)
  BY <1>2 DEF Op
<1>4. ASSUME NEW k \in Calls PROVE CallPart(k)'
  <2>1. CASE k = n
    BY <1>1, <1>2, <1>3, <2>1 DEF CallInv, CallPart, TypeOK, Calls
  <2>2. CASE k # n
    <3>1. told'[k] = told[k] /\ heard'[k] = heard[k]
      BY <1>2, <2>2 DEF TypeOK
    <3> QED  BY <1>2, <1>3, <3>1 DEF CallInv, CallPart
  <2> QED  BY <2>1, <2>2
<1>5. ASSUME NEW d \in Clients PROVE WaitPart(d)'
  <2>1. CASE d = c
    BY <1>2, <2>1 DEF WaitPart, TypeOK
  <2>2. CASE d # c
    <3> SUFFICES ASSUME waiting[d] # 0 PROVE WaitPart(d)'
      BY <1>2, <2>2 DEF WaitPart, TypeOK
    <3>1. waiting'[d] = waiting[d] /\ waiting[d] # n
      BY <1>2, <2>2, OwnCalls DEF TypeOK
    <3>2. told'[waiting[d]] = told[waiting[d]]
      BY <1>2, <3>1 DEF TypeOK
    <3> QED  BY <1>2, <3>1, <3>2 DEF CallInv, WaitPart
  <2> QED  BY <2>1, <2>2
<1>6. QueueInv'
  BY <1>2, <1>3 DEF QueueInv
<1> QED  BY <1>4, <1>5, <1>6 DEF CallInv

\* What handlers and the server do to calls.
HandlerQuiet ==
    /\ UNCHANGED <<told, heard, request, made, waiting>>
    /\ \A k \in Calls :
          /\ handler[k] = "OK" => handler'[k] = "OK" /\ queue'[k] = queue[k] /\ value'[k] = value[k]
          /\ handler[k] = "none" => handler'[k] = "none"
          /\ (handler[k] = "none" \/ Op(k) \in Silent) => value'[k] = value[k]

LEMMA CallQuiet == ASSUME TypeOK, CallInv, HandlerQuiet PROVE CallInv'
<1>1. \A k \in Calls : Op(k)' = Op(k)
  BY DEF HandlerQuiet, Op
<1>2. \A k \in Calls : CallPart(k)'
  BY <1>1 DEF HandlerQuiet, CallInv, CallPart
<1>3. \A c \in Clients : WaitPart(c)'
  BY DEF HandlerQuiet, CallInv, WaitPart
<1> QED  BY <1>2, <1>3 DEF CallInv

LEMMA QuietHandlers ==
    ASSUME TypeOK, CallInv, QueueInv
    PROVE  /\ \A k \in Calls : HandlerStep(k) => HandlerQuiet /\ QueueInv'
           /\ Crash => HandlerQuiet /\ QueueInv'
           /\ \A f \in Names : Work(f) => HandlerQuiet /\ QueueInv'
           /\ \A c \in Clients : ReadNext(c) \/ Leave(c) => HandlerQuiet /\ QueueInv'
<1> USE DEF HandlerQuiet, QueueInv, Op
<1>1. ASSUME NEW k \in Calls, HandlerStep(k) PROVE HandlerQuiet /\ QueueInv'
  <2> USE <1>1 DEF TypeOK, clients, server, Ends
  <2>1. CASE Find(k)
    <3>1. NameOf(k) \in Names
      BY <2>1, Asked DEF Find
    <3>2. m_queueList[NameOf(k)] # None => m_queueList[NameOf(k)] \in Names
      BY <3>1
    <3> QED  BY <2>1, <3>2 DEF Find
  <2>2. CASE Fails(k)
    BY <2>2 DEF Fails
  <2>3. CASE AddTask(k)
    BY <2>3 DEF AddTask, Silent
  <2>4. CASE RemoveTask(k)
    BY <2>4 DEF RemoveTask, Silent
  <2>5. CASE ClearPending(k)
    BY <2>5 DEF ClearPending, Silent
  <2>6. CASE ListPending(k)
    BY <2>6 DEF ListPending
  <2>7. CASE Other(k)
    BY <2>7 DEF Other
  <2>8. CASE OnList(k)
    BY <2>8 DEF OnList, QueueOps
  <2> QED  BY <2>1, <2>2, <2>3, <2>4, <2>5, <2>6, <2>7, <2>8 DEF HandlerStep
<1>2. CASE Crash
  BY <1>2 DEF Crash, clients, TypeOK
<1>3. ASSUME NEW f \in Names, Work(f) PROVE HandlerQuiet /\ QueueInv'
  BY <1>3 DEF Work, clients, handlers
<1>4. ASSUME NEW c \in Clients, ReadNext(c) \/ Leave(c) PROVE HandlerQuiet /\ QueueInv'
  BY <1>4 DEF ReadNext, Leave, handlers
<1> QED  BY <1>1, <1>2, <1>3, <1>4

LEMMA ReturnsKinds ==
    ASSUME NEW c \in Clients, Answered(c) \/ Refused(c) \/ GivesUp(c), TypeOK, CallInv, QueueInv
    PROVE  CallInv' /\ QueueInv'
<1>1. CASE Answered(c)
  BY <1>1, CallReturns DEF Answered
<1>2. CASE Refused(c) \/ GivesUp(c)
  BY <1>2, CallReturns DEF Refused, GivesUp
<1> QED  BY <1>1, <1>2

LEMMA CallNext == TypeOK /\ CallInv /\ QueueInv /\ [Next]_vars => CallInv' /\ QueueInv'
<1> SUFFICES ASSUME TypeOK, CallInv, QueueInv, [Next]_vars PROVE CallInv' /\ QueueInv'
  OBVIOUS
<1>1. CASE UNCHANGED vars
  <2>1. HandlerQuiet /\ QueueInv'
    BY <1>1 DEF vars, HandlerQuiet, QueueInv, Op
  <2> QED  BY <2>1, CallQuiet
<1>2. ASSUME NEW c \in Clients, ClientStep(c) PROVE CallInv' /\ QueueInv'
  BY <1>2, CallAsk, ReturnsKinds, QuietHandlers, CallQuiet DEF ClientStep
<1>3. ASSUME NEW k \in Calls, HandlerStep(k) PROVE CallInv' /\ QueueInv'
  BY <1>3, QuietHandlers, CallQuiet
<1>4. ASSUME Crash \/ \E f \in Names : Work(f) PROVE CallInv' /\ QueueInv'
  BY <1>4, QuietHandlers, CallQuiet
<1> QED  BY <1>1, <1>2, <1>3, <1>4 DEF Next

Inv == TypeOK /\ CallInv /\ QueueInv

\* The invariant holds in every behaviour.
THEOREM Invariance == Spec => []Inv
<1>1. Init => Inv
  BY TypeInit, CallInit DEF Inv
<1>2. Inv /\ [Next]_vars => Inv'
  BY TypeNext, CallNext DEF Inv
<1> QED  BY <1>1, <1>2, PTL DEF Spec

\* Every variable has its type.
THEOREM TypeCorrect == Spec => []TypeOK
<1>1. Inv => TypeOK
  BY DEF Inv
<1> QED  BY <1>1, Invariance, PTL

-----------------------------------------------------------------------------
(* RemoteQueue implements CallOnce. *)

LEMMA OnceInit == Init => Once!Init
BY DEF Init, Once!Init, Told, Done, Op, NoRequest

LEMMA OnceAsk ==
    ASSUME Inv, NEW c \in Clients, Ask(c) PROVE Once!Next \/ UNCHANGED Once!calls
<1>1. PICK n \in Calls : n = made + 1
  BY BoundsAssumption DEF Inv, Ask, Calls, TypeOK
<1>2. PICK r \in Commands(c) : request' = [request EXCEPT ![n] = r]
  BY <1>1 DEF Ask
<1>3. /\ told' = [told EXCEPT ![n] = "waiting"] /\ handler' = [handler EXCEPT ![n] = "sent"]
      /\ UNCHANGED <<value, heard>>
  BY <1>1 DEF Ask
<1>4. told[n] = "unasked" /\ handler[n] = "none"
  BY <1>1 DEF Inv, TypeOK, CallInv, CallPart, Calls
<1>5. request'[n] = r /\ \A k \in Calls : k # n => Op(k)' = Op(k)
  BY <1>1, <1>2 DEF Inv, TypeOK, Op
<1>6. Done' = Done
  BY <1>1, <1>3, <1>4, <1>5 DEF Done, Inv, TypeOK
<1>7. CASE r.op \in Silent
  <2>1. Told' = Told
    BY <1>1, <1>3, <1>4, <1>5, <1>7 DEF Told, Inv, TypeOK, Op
  <2> QED  BY <1>3, <1>6, <2>1 DEF Once!calls
<1>8. CASE r.op \notin Silent
  <2>1. Told[n] = "unasked" /\ Told' = [Told EXCEPT ![n] = "waiting"]
    <3>1. told'[n] = "waiting" /\ Told[n] = "unasked"
      BY <1>1, <1>3, <1>4 DEF Told, Inv, TypeOK
    <3>0. Op(n)' \notin Silent
      BY <1>5, <1>8 DEF Op
    <3>2. \A k \in Calls : k # n => told'[k] = told[k] /\ Op(k)' = Op(k)
      BY <1>1, <1>3, <1>5 DEF Inv, TypeOK
    <3> QED  BY <1>1, <3>0, <3>1, <3>2 DEF Told
  <2>2. Once!Invoke(n)
    BY <1>3, <1>6, <2>1 DEF Once!Invoke
  <2> QED  BY <1>1, <2>2 DEF Once!Next
<1> QED  BY <1>7, <1>8

LEMMA OnceReturns ==
    ASSUME Inv, NEW c \in Clients, Answered(c) \/ Refused(c) \/ GivesUp(c)
    PROVE  Once!Next \/ UNCHANGED Once!calls
<1>1. PICK n \in Calls : n = waiting[c] /\ told[n] = "waiting"
  BY DEF Answered, Refused, GivesUp, Inv, CallInv, WaitPart, TypeOK, Calls
<1>2. UNCHANGED <<handler, value, request>> /\ Done' = Done /\ \A k \in Calls : Op(k)' = Op(k)
  BY DEF Answered, Refused, GivesUp, Returns, handlers, Done, Op
<1>3. CASE Answered(c)
  <2>1. /\ told' = [told EXCEPT ![n] = "OK"] /\ heard' = [heard EXCEPT ![n] = value[n]]
        /\ handler[n] = "OK"
    BY <1>1, <1>3 DEF Answered, Returns
  <2>2. CASE Op(n) \in Silent
    <3>1. heard' = heard
      BY <1>1, <2>1, <2>2 DEF Inv, TypeOK, CallInv, CallPart
    <3>2. Told' = Told
      BY <1>1, <1>2, <2>1, <2>2 DEF Told, Inv, TypeOK
    <3> QED  BY <1>2, <3>1, <3>2 DEF Once!calls
  <2>3. CASE Op(n) \notin Silent
    <3>3. Told[n] = "waiting" /\ Done[n] = "yes"
      BY <1>1, <2>1, <2>3 DEF Told, Done
    <3>4. told'[n] = "OK" /\ \A k \in Calls : k # n => told'[k] = told[k]
      BY <1>1, <2>1 DEF Inv, TypeOK
    <3>1. Told[n] = "waiting" /\ Told' = [Told EXCEPT ![n] = "OK"] /\ Done[n] = "yes"
      BY <1>1, <1>2, <2>3, <3>3, <3>4 DEF Told
    <3>2. Once!Succeed(n)
      BY <1>2, <2>1, <3>1 DEF Once!Succeed
    <3> QED  BY <1>1, <3>2 DEF Once!Next
  <2> QED  BY <2>2, <2>3
<1>4. CASE Refused(c) \/ GivesUp(c)
  <2>1. /\ told' = [told EXCEPT ![n] = IF Op(n) \in Silent THEN "OK" ELSE "error"]
        /\ UNCHANGED heard
    BY <1>1, <1>4 DEF Refused, GivesUp, Returns
  <2>2. CASE Op(n) \in Silent
    <3>1. Told' = Told
      BY <1>1, <1>2, <2>1, <2>2 DEF Told, Inv, TypeOK
    <3> QED  BY <1>2, <2>1, <3>1 DEF Once!calls
  <2>3. CASE Op(n) \notin Silent
    <3>3. Told[n] = "waiting"
      BY <1>1, <2>3 DEF Told
    <3>4. told'[n] = "error" /\ \A k \in Calls : k # n => told'[k] = told[k]
      BY <1>1, <2>1, <2>3 DEF Inv, TypeOK
    <3>1. Told[n] = "waiting" /\ Told' = [Told EXCEPT ![n] = "error"]
      BY <1>1, <1>2, <2>3, <3>3, <3>4 DEF Told
    <3>2. Once!Fail(n)
      BY <1>2, <2>1, <3>1 DEF Once!Fail
    <3> QED  BY <1>1, <3>2 DEF Once!Next
  <2> QED  BY <2>2, <2>3
<1> QED  BY <1>3, <1>4

\* A step that ends the handler k, or leaves all as they are for CallOnce.
LEMMA OnceHandler ==
    ASSUME Inv, NEW k \in Calls, HandlerStep(k) PROVE Once!Next \/ UNCHANGED Once!calls
<1>1. /\ UNCHANGED <<told, heard, request>> /\ Told' = Told
      /\ handler[k] \in {"sent", "found"}
  BY DEF HandlerStep, Find, Fails, AddTask, RemoveTask, ClearPending, ListPending, Other, OnList,
     clients, Told, Op
<1>2. PICK h \in {"found", "OK", "error"} : handler' = [handler EXCEPT ![k] = h]
  BY DEF HandlerStep, Find, Fails, AddTask, RemoveTask, ClearPending, ListPending, Other, OnList,
     Ends
<1>3. \A j \in Calls : Op(j)' = Op(j)
  BY <1>1 DEF Op
<1>4. value' = value \/ (h # "found" /\ Op(k) \notin Silent /\ h = "OK"
                          /\ \E v \in 0..MaxID : value' = [value EXCEPT ![k] = v])
  <2> USE DEF Inv, TypeOK
  <2>1. CASE Find(k) \/ Fails(k) \/ ListPending(k) \/ Other(k) \/ OnList(k)
    BY <2>1 DEF Find, Fails, ListPending, Other, OnList
  <2>2. CASE AddTask(k)
    <3>1. queue[k] \in Names
      BY <2>2 DEF AddTask, QueueInv
    <3>2. \A id \in CountersRead(queue[k]) : id \in 0..MaxID
      BY <3>1, CountersReadType
    <3>3. handler'[k] = h
      BY <1>2
    <3>4. value' = value \/ (handler'[k] = "OK" /\ \E id \in CountersRead(queue[k]) :
                                                     value' = [value EXCEPT ![k] = id])
      BY <2>2 DEF AddTask, Ends
    <3> QED  BY <2>2, <3>2, <3>3, <3>4 DEF AddTask, Silent
  <2>3. CASE RemoveTask(k) \/ ClearPending(k)
    <3>1. lastID[queue[k]] \in 0..MaxID
      BY <2>3 DEF RemoveTask, ClearPending, QueueInv
    <3> QED  BY <1>2, <2>3, <3>1 DEF RemoveTask, ClearPending, Ends, Silent
  <2> QED  BY <2>1, <2>2, <2>3 DEF HandlerStep
<1>5. CASE Op(k) \in Silent \/ h = "found"
  <2>1. Done' = Done
    BY <1>1, <1>2, <1>3, <1>5 DEF Done, Inv, TypeOK
  <2>2. value' = value
    BY <1>4, <1>5
  <2> QED  BY <1>1, <2>1, <2>2 DEF Once!calls
<1>6. CASE Op(k) \notin Silent /\ h # "found"
  <2>1. Told[k] \in {"waiting", "error"}
    <3>1. told[k] # "unasked" /\ told[k] # "OK"
      BY <1>1, <1>6 DEF Inv, TypeOK, CallInv, CallPart, Calls
    <3> QED  BY <1>6, <3>1 DEF Told, Inv, TypeOK
  <2>2. Done[k] = "no"
    BY <1>1 DEF Done
  <2>3. CASE h = "OK"
    <3>1. Done' = [Done EXCEPT ![k] = "yes"]
      BY <1>2, <1>3, <1>6, <2>3 DEF Done, Inv, TypeOK
    <3>2. \E v \in 0..MaxID : value' = [value EXCEPT ![k] = v]
      <4>1. value[k] \in 0..MaxID /\ value = [value EXCEPT ![k] = value[k]]
        BY DEF Inv, TypeOK
      <4> QED  BY <1>4, <4>1
    <3>3. Once!Apply(k)
      BY <1>1, <2>1, <2>2, <3>1, <3>2 DEF Once!Apply
    <3> QED  BY <3>3 DEF Once!Next
  <2>4. CASE h = "error"
    <3>1. Done' = [Done EXCEPT ![k] = "refused"] /\ value' = value
      BY <1>2, <1>3, <1>4, <1>6, <2>4 DEF Done, Inv, TypeOK
    <3>2. Once!Refuse(k)
      BY <1>1, <2>1, <2>2, <3>1 DEF Once!Refuse
    <3> QED  BY <3>2 DEF Once!Next
  <2> QED  BY <1>2, <1>6, <2>3, <2>4
<1> QED  BY <1>5, <1>6

LEMMA OnceStutters ==
    ASSUME Inv, UNCHANGED <<told, heard, request, value>>,
           handler' = handler \/ Crash
    PROVE  UNCHANGED Once!calls
<1>1. Told' = Told /\ \A k \in Calls : Op(k)' = Op(k)
  BY DEF Told, Op
<1>2. Done' = Done
  <2>1. \A k \in Calls : (handler'[k] = "OK" <=> handler[k] = "OK")
                         /\ (handler'[k] = "error" <=> handler[k] = "error")
    BY DEF Crash, Inv, TypeOK
  <2> QED  BY <1>1, <2>1 DEF Done
<1> QED  BY <1>1, <1>2 DEF Once!calls

\* A call that is not silent is done at most once, and before its client is
\* told that it was, whatever is handled late, lost or interrupted.
THEOREM CallsAreDoneOnce == Spec => AtMostOnce
<1>1. Init => Once!Init
  BY OnceInit
<1>2. Inv /\ [Next]_vars => [Once!Next]_(Once!calls)
  <2> SUFFICES ASSUME Inv, [Next]_vars PROVE Once!Next \/ UNCHANGED Once!calls
    OBVIOUS
  <2>1. CASE UNCHANGED vars
    BY <2>1, OnceStutters DEF vars
  <2>2. ASSUME NEW c \in Clients, ClientStep(c) PROVE Once!Next \/ UNCHANGED Once!calls
    <3>1. CASE ReadNext(c) \/ Leave(c)
      BY <3>1, OnceStutters DEF ReadNext, Leave, handlers
    <3> QED  BY <2>2, <3>1, OnceAsk, OnceReturns DEF ClientStep
  <2>3. ASSUME NEW k \in Calls, HandlerStep(k) PROVE Once!Next \/ UNCHANGED Once!calls
    BY <2>3, OnceHandler
  <2>4. CASE Crash \/ \E f \in Names : Work(f)
    BY <2>4, OnceStutters DEF Crash, Work, clients, handlers
  <2> QED  BY <2>1, <2>2, <2>3, <2>4 DEF Next
<1> QED  BY <1>1, <1>2, Invariance, PTL DEF Spec, AtMostOnce, Once!Spec

-----------------------------------------------------------------------------
(* What clients see of the order of their calls: the inductive invariant. *)

\* A file that one queue has open: its rows are in order, its counter is ahead.
FilePart(f) ==
    f \notin shared => InIDOrder(pending[f]) /\ \A w \in RowIDs(pending[f]) : w < lastID[f]
FileInv == \A f \in Names : FilePart(f)

\* The call k was done on such a file.
Applied(k) ==
    handler[k] = "OK" /\ Op(k) \in QueueOps /\ queue[k] \in Names /\ queue[k] \notin shared

\* The rows t do not have what the call j took away.
Past(j, t) ==
    /\ (Op(j) = "removeTask" /\ request[j].id < value[j]) => request[j].id \notin RowIDs(t)
    /\ Op(j) = "clearPending" => \A w \in RowIDs(t) : w >= value[j]

\* The counter is beyond what a call was given, and no call is undone.
DonePart(j) ==
    Applied(j) =>
        /\ Op(j) \in {"removeTask", "clearPending"} => value[j] <= lastID[queue[j]]
        /\ Op(j) = "addTask" => value[j] < lastID[queue[j]]
        /\ Past(j, pending[queue[j]])

\* A call that was done after a client had been told of another saw what that did.
PairPart(j, k) ==
    (Applied(j) /\ Applied(k) /\ queue[j] = queue[k] /\ j # k) =>
        /\ (Op(j) = "addTask" /\ Op(k) = "addTask") =>
               value[j] # value[k] /\ ((told[j] = "OK" /\ After(j, k)) => value[j] < value[k])
        /\ (Op(k) = "listPending" /\ told[j] = "OK" /\ After(j, k)) => Past(j, rows[k])

\* Clients read rows of the list that was written.
OutPart(k) ==
    IF handler[k] = "OK" THEN RowIDs(out[k]) \subseteq RowIDs(rows[k]) ELSE out[k] = <<>>

DoneInv == \A j \in Calls : DonePart(j)
PairInv == \A j, k \in Calls : PairPart(j, k)
OutInv == \A k \in Calls : OutPart(k)
OrderInv == Inv /\ FileInv /\ DoneInv /\ PairInv /\ OutInv

\* No row is in an empty table.
LEMMA NoRows == RowIDs(<<>>) = {}
BY DEF RowIDs

LEMMA OrderInit == Init => OrderInv
<1> SUFFICES ASSUME Init PROVE OrderInv
  OBVIOUS
<1>1. Inv
  BY TypeInit, CallInit DEF Inv
<1>2. FileInv
  BY NoRows DEF Init, FileInv, FilePart, InIDOrder
<1>3. DoneInv /\ PairInv
  BY DEF Init, DoneInv, DonePart, PairInv, PairPart, Applied
<1>4. OutInv
  BY DEF Init, OutInv, OutPart
<1> QED  BY <1>1, <1>2, <1>3, <1>4 DEF OrderInv

-----------------------------------------------------------------------------
(* The files. *)

\* Taking a row away.
LEMMA FileDelete ==
    ASSUME TypeOK, FileInv, NEW f \in Names, NEW id \in Nat,
           pending' = [pending EXCEPT ![f] = DeletePending(@, id)],
           UNCHANGED <<lastID, shared>>
    PROVE  /\ FileInv'
           /\ \A g \in Names : g \notin shared => RowIDs(pending'[g]) \subseteq RowIDs(pending[g])
<1> SUFFICES ASSUME NEW g \in Names, g \notin shared
             PROVE  FilePart(g)' /\ RowIDs(pending'[g]) \subseteq RowIDs(pending[g])
  BY DEF FileInv, FilePart
<1>1. InIDOrder(pending[g]) /\ pending[g] \in Seq(Nat)
  BY DEF FileInv, FilePart, TypeOK
<1>2. CASE g = f
  <2>1. pending'[g] = DeletePending(pending[g], id)
    BY <1>2 DEF TypeOK
  <2> QED  BY <1>1, <2>1, DeleteRows DEF FileInv, FilePart
<1>3. CASE g # f
  <2>1. pending'[g] = pending[g]
    BY <1>3 DEF TypeOK
  <2> QED  BY <2>1 DEF FileInv, FilePart
<1> QED  BY <1>2, <1>3

\* No row below the counter comes to a file that one queue has open.
OnlyNewRows ==
    \A f \in Names : f \notin shared' =>
        /\ f \notin shared /\ lastID[f] <= lastID'[f]
        /\ \A w \in RowIDs(pending'[f]) : w \in RowIDs(pending[f]) \/ w >= lastID[f]

LEMMA FileAdd ==
    ASSUME Inv, FileInv, NEW k \in Calls, AddTask(k)
    PROVE  FileInv' /\ OnlyNewRows
<1> DEFINE q == queue[k]
<1>1. q \in Names /\ shared' = shared
  BY DEF Inv, QueueInv, AddTask
<1>2. PICK id \in CountersRead(q) :
        /\ lastID' = [lastID EXCEPT ![q] = IF id = @ THEN @ + 1 ELSE @]
        /\ \/ pending' = [pending EXCEPT ![q] = InsertPending(@, id)]
           \/ pending' = pending
  BY DEF AddTask
<1> HIDE DEF q
<1>3. SUFFICES ASSUME NEW f \in Names, f \notin shared
      PROVE  /\ FilePart(f)' /\ lastID[f] <= lastID'[f]
             /\ \A w \in RowIDs(pending'[f]) : w \in RowIDs(pending[f]) \/ w >= lastID[f]
  BY <1>1 DEF FileInv, FilePart, OnlyNewRows
<1>4. /\ pending[f] \in Seq(Nat) /\ lastID[f] \in Nat
      /\ InIDOrder(pending[f]) /\ \A w \in RowIDs(pending[f]) : w < lastID[f]
  BY <1>3, BoundsAssumption DEF Inv, TypeOK, FileInv, FilePart
<1>5. CASE f # q
  <2>1. pending'[f] = pending[f] /\ lastID'[f] = lastID[f]
    BY <1>1, <1>2, <1>5 DEF Inv, TypeOK
  <2> QED  BY <1>1, <1>3, <1>4, <2>1 DEF FilePart
<1>6. CASE f = q
  <2>1. id = lastID[f]
    BY <1>3, <1>6 DEF CountersRead
  <2>2. lastID'[f] = lastID[f] + 1
    BY <1>1, <1>2, <1>6, <2>1 DEF Inv, TypeOK
  <2>3. pending'[f] = pending[f] \/ pending'[f] = InsertPending(pending[f], lastID[f])
    BY <1>1, <1>2, <1>6, <2>1 DEF Inv, TypeOK
  <2>4. /\ InIDOrder(pending'[f])
        /\ \A w \in RowIDs(pending'[f]) : w \in RowIDs(pending[f]) \/ w = lastID[f]
    BY <1>4, <2>3, InsertRows
  <2>5. \A w \in RowIDs(pending'[f]) : w < lastID'[f]
    <3>1. ASSUME NEW w \in RowIDs(pending'[f]) PROVE w < lastID'[f]
      <4>1. RowIDs(pending[f]) \subseteq Nat
        BY <1>4 DEF RowIDs
      <4> QED  BY <1>4, <2>2, <2>4, <4>1
    <3> QED  BY <3>1
  <2>6. lastID[f] <= lastID'[f] /\ lastID[f] >= lastID[f]
    BY <1>4, <2>2
  <2> QED  BY <2>4, <2>5, <2>6 DEF FilePart
<1> QED  BY <1>5, <1>6

\* The rows of a file, before and after a step other than an addition.
LEMMA FileOther ==
    ASSUME Inv, FileInv,
           \/ UNCHANGED <<pending, lastID>> /\ shared \subseteq shared'
           \/ \E k \in Calls : RemoveTask(k) \/ ClearPending(k)
           \/ \E f \in Names : Work(f)
    PROVE  /\ FileInv' /\ OnlyNewRows /\ lastID' = lastID
<1> USE DEF Inv
<1>0. \A f \in Names : lastID[f] \in Nat
  BY BoundsAssumption DEF TypeOK
<1>1. CASE UNCHANGED <<pending, lastID>> /\ shared \subseteq shared'
  BY <1>0, <1>1 DEF FileInv, FilePart, OnlyNewRows
<1>2. ASSUME NEW k \in Calls, RemoveTask(k) PROVE FileInv' /\ OnlyNewRows /\ lastID' = lastID
  <2>1. queue[k] \in Names /\ request[k].id \in Nat /\ UNCHANGED <<lastID, shared>>
    BY <1>2, Asked DEF RemoveTask, QueueInv
  <2>2. pending' = [pending EXCEPT ![queue[k]] = DeletePending(@, request[k].id)]
    BY <1>2 DEF RemoveTask
  <2>3. /\ FileInv'
        /\ \A g \in Names : g \notin shared => RowIDs(pending'[g]) \subseteq RowIDs(pending[g])
    BY <2>1, <2>2, FileDelete
  <2>4. \A g \in Names : lastID[g] <= lastID'[g]
    BY <1>0, <2>1
  <2> QED  BY <2>1, <2>3, <2>4 DEF OnlyNewRows
<1>3. ASSUME NEW k \in Calls, ClearPending(k) PROVE FileInv' /\ OnlyNewRows /\ lastID' = lastID
  <2>1. queue[k] \in Names /\ UNCHANGED <<lastID, shared>>
    BY <1>3 DEF ClearPending, QueueInv
  <2>2. \A f \in Names : pending'[f] = pending[f] \/ pending'[f] = <<>>
    BY <1>3, <2>1 DEF ClearPending, TypeOK
  <2>3. InIDOrder(<<>>)
    BY DEF InIDOrder
  <2> QED  BY <1>0, <2>1, <2>2, <2>3, NoRows DEF FileInv, FilePart, OnlyNewRows
<1>4. ASSUME NEW f \in Names, Work(f) PROVE FileInv' /\ OnlyNewRows /\ lastID' = lastID
  <2>1. pending[f] \in Seq(Nat) /\ pending[f] # <<>> /\ UNCHANGED <<lastID, shared>>
    BY <1>4 DEF Work, TypeOK
  <2>2. PICK id \in Nat : pending' = [pending EXCEPT ![f] = DeletePending(@, id)]
    <3>1. pending[f][1] \in Nat
      BY <2>1, EmptySeq, LenProperties
    <3> QED  BY <1>4, <3>1 DEF Work, TypeOK
  <2>3. /\ FileInv'
        /\ \A g \in Names : g \notin shared => RowIDs(pending'[g]) \subseteq RowIDs(pending[g])
    BY <2>1, <2>2, FileDelete
  <2>4. \A g \in Names : lastID[g] <= lastID'[g]
    BY <1>0, <2>1
  <2> QED  BY <2>1, <2>3, <2>4 DEF OnlyNewRows
<1> QED  BY <1>1, <1>2, <1>3, <1>4

-----------------------------------------------------------------------------
(* The calls. *)

\* What a step leaves alone, but for what it may do to the call k (to none of
\* them if k is none).
Kept(k) ==
    /\ \A j \in Calls \ {k} :
          Applied(j)' => /\ Applied(j)
                         /\ request'[j] = request[j] /\ queue'[j] = queue[j]
                         /\ value'[j] = value[j] /\ rows'[j] = rows[j]
    /\ \A j \in Calls :
          told'[j] = "OK" => told[j] = "OK" \/ \A l \in Calls : Applied(l) => ~After(j, l)

LEMMA KeptPast ==
    ASSUME TypeOK, NEW j \in Calls, NEW f \in Names, Past(j, pending[f]),
           Op(j) \in {"removeTask", "clearPending"} => value[j] <= lastID[f],
           \A w \in RowIDs(pending'[f]) : w \in RowIDs(pending[f]) \/ w >= lastID[f],
           request'[j] = request[j], value'[j] = value[j], pending'[f] \in Seq(Nat),
           Op(j) = "removeTask" => request[j].id \in Nat
    PROVE  Past(j, pending[f])'
<1>1. /\ RowIDs(pending'[f]) \subseteq Nat
      /\ value[j] \in Nat /\ lastID[f] \in Nat
  BY BoundsAssumption DEF TypeOK, RowIDs
<1>2. Op(j)' = Op(j)
  BY DEF Op
<1>3. CASE Op(j) = "removeTask"
  BY <1>1, <1>2, <1>3 DEF Past
<1>4. CASE Op(j) = "clearPending"
  BY <1>1, <1>2, <1>4 DEF Past
<1>5. CASE Op(j) \notin {"removeTask", "clearPending"}
  BY <1>2, <1>5 DEF Past
<1> QED  BY <1>3, <1>4, <1>5

LEMMA KeptDone ==
    ASSUME Inv, Inv', DoneInv, NEW k, Kept(k), OnlyNewRows, NEW j \in Calls, j # k
    PROVE  DonePart(j)'
<1> SUFFICES ASSUME Applied(j)' PROVE DonePart(j)'
  BY DEF DonePart
<1>1. /\ Applied(j) /\ request'[j] = request[j] /\ queue'[j] = queue[j]
      /\ value'[j] = value[j] /\ Op(j)' = Op(j)
  BY DEF Kept, Op
<1>2. queue[j] \in Names /\ queue[j] \notin shared' /\ handler[j] # "none"
  BY <1>1 DEF Applied
<1>3. /\ Op(j) \in {"removeTask", "clearPending"} => value[j] <= lastID[queue[j]]
      /\ Op(j) = "addTask" => value[j] < lastID[queue[j]]
      /\ Past(j, pending[queue[j]])
  BY <1>1 DEF DoneInv, DonePart
<1>4. /\ lastID[queue[j]] <= lastID'[queue[j]]
      /\ \A w \in RowIDs(pending'[queue[j]]) :
            w \in RowIDs(pending[queue[j]]) \/ w >= lastID[queue[j]]
  BY <1>2 DEF OnlyNewRows
<1>5. pending'[queue[j]] \in Seq(Nat) /\ request[j].id \in Nat
  BY <1>2, Asked DEF Inv, TypeOK
<1>6. Past(j, pending[queue[j]])'
  <2>1. \A f \in Names : f = queue[j] => Past(j, pending[f])'
    BY <1>1, <1>2, <1>3, <1>4, <1>5, KeptPast DEF Inv
  <2> QED  BY <1>1, <1>2, <2>1 DEF Past
<1>7. value[j] \in Nat /\ lastID[queue[j]] \in Nat /\ lastID'[queue[j]] \in Nat
  BY <1>2, BoundsAssumption DEF Inv, TypeOK
<1>8. /\ Op(j) \in {"removeTask", "clearPending"} => value[j] <= lastID'[queue[j]]
      /\ Op(j) = "addTask" => value[j] < lastID'[queue[j]]
  BY <1>3, <1>4, <1>7
<1> QED  BY <1>1, <1>6, <1>8 DEF DonePart

LEMMA KeptPair ==
    ASSUME PairInv, NEW k, Kept(k), NEW j \in Calls, NEW l \in Calls, j # k, l # k
    PROVE  PairPart(j, l)'
<1> SUFFICES ASSUME Applied(j)', Applied(l)', queue'[j] = queue'[l], j # l
             PROVE  PairPart(j, l)'
  BY DEF PairPart
<1>1. /\ Applied(j) /\ request'[j] = request[j] /\ queue'[j] = queue[j] /\ value'[j] = value[j]
      /\ Applied(l) /\ request'[l] = request[l] /\ queue'[l] = queue[l] /\ value'[l] = value[l]
      /\ rows'[l] = rows[l]
  BY DEF Kept
<1>2. Op(j)' = Op(j) /\ Op(l)' = Op(l) /\ (After(j, l)' <=> After(j, l))
  BY <1>1 DEF Op, After
<1>3. (told'[j] = "OK" /\ After(j, l)) => told[j] = "OK"
  BY <1>1 DEF Kept
<1>4. Past(j, rows[l])' <=> Past(j, rows[l])
  BY <1>1, <1>2 DEF Past
<1> QED  BY <1>1, <1>2, <1>3, <1>4 DEF PairInv, PairPart

LEMMA KeptClient ==
    ASSUME Inv, NEW c \in Clients, ClientStep(c)
    PROVE  Kept(0) /\ UNCHANGED <<pending, lastID, shared>>
<1> USE DEF Inv, TypeOK, server, handlers, Applied, Op
<1>1. UNCHANGED <<pending, lastID, shared>>
  BY DEF ClientStep, Ask, ReadNext, Answered, Refused, GivesUp, Leave, Returns
<1>2. CASE Ask(c)
  <2>1. PICK n \in Calls : n = made + 1
    BY <1>2, BoundsAssumption DEF Ask, Calls
  <2>2. PICK r \in Commands(c) : request' = [request EXCEPT ![n] = r]
    BY <1>2, <2>1 DEF Ask
  <2>3. /\ told' = [told EXCEPT ![n] = "waiting"] /\ handler' = [handler EXCEPT ![n] = "sent"]
        /\ UNCHANGED <<queue, value, rows, shared>>
    BY <1>2, <2>1 DEF Ask, server
  <2>4. \A j \in Calls : told'[j] = "OK" => told[j] = "OK"
    BY <2>3
  <2>5. handler'[n] = "sent"
    BY <2>3
  <2>6. \A j \in Calls : j # n => request'[j] = request[j] /\ handler'[j] = handler[j]
    BY <2>2, <2>3
  <2> QED  BY <1>1, <2>3, <2>4, <2>5, <2>6 DEF Kept
<1>3. CASE ReadNext(c) \/ Leave(c)
  BY <1>1, <1>3 DEF ReadNext, Leave, Kept
<1>4. CASE Answered(c) \/ Refused(c) \/ GivesUp(c)
  <2>1. PICK n \in Calls : n = waiting[c]
    BY <1>4 DEF Answered, Refused, GivesUp, Calls
  <2>2. UNCHANGED <<handler, request, queue, value, rows, shared>>
    BY <1>4 DEF Answered, Refused, GivesUp, Returns
  <2>3. \A j \in Calls : j # n => told'[j] = told[j]
    BY <1>4, <2>1 DEF Answered, Refused, GivesUp, Returns
  <2>4. ASSUME NEW l \in Calls, Applied(l) PROVE ~After(n, l)
    <3>1. l <= made
      BY <2>4 DEF CallInv, CallPart, Calls
    <3>2. /\ request[n].client = c
          /\ \A i \in Calls : n < i /\ i <= made => request[i].client # c
      BY <2>1 DEF CallInv, WaitPart, Calls
    <3> QED  BY <3>1, <3>2 DEF After
  <2> QED  BY <1>1, <2>2, <2>3, <2>4 DEF Kept
<1> QED  BY <1>2, <1>3, <1>4 DEF ClientStep

\* Handlers and the server tell nobody anything.
LEMMA KeptHandler ==
    ASSUME Inv, NEW k \in Calls, HandlerStep(k)
    PROVE  /\ Kept(k) /\ shared \subseteq shared' /\ UNCHANGED <<request, told, out>>
           /\ handler[k] \in {"sent", "found"}
           /\ \A j \in Calls : j # k => handler'[j] = handler[j] /\ rows'[j] = rows[j]
<1> USE DEF Inv, TypeOK
<1>1. UNCHANGED <<request, told, out>> /\ handler[k] \in {"sent", "found"}
  BY DEF HandlerStep, Find, Fails, AddTask, RemoveTask, ClearPending, ListPending, Other, OnList,
     clients
<1>2. shared \subseteq shared'
  BY DEF HandlerStep, Find, Fails, AddTask, RemoveTask, ClearPending, ListPending, Other, OnList,
     server, CreateQueue, DeleteQueue, RenameQueue, ListQueue, GetQueue
<1>3. ASSUME NEW j \in Calls, j # k
      PROVE  /\ handler'[j] = handler[j] /\ rows'[j] = rows[j]
             /\ queue'[j] = queue[j] /\ value'[j] = value[j]
  BY <1>3 DEF HandlerStep, Find, Fails, AddTask, RemoveTask, ClearPending, ListPending, Other,
     OnList, Ends
<1> QED  BY <1>1, <1>2, <1>3 DEF Kept, Applied, Op

LEMMA KeptServer ==
    ASSUME Inv, Crash \/ \E f \in Names : Work(f)
    PROVE  /\ Kept(0) /\ UNCHANGED <<shared, out, rows>>
           /\ \A k \in Calls : handler'[k] = "OK" <=> handler[k] = "OK"
<1>1. UNCHANGED <<shared, request, told, out, queue, value, rows>>
  BY DEF Crash, Work, clients, handlers
<1>2. \A k \in Calls : handler'[k] = "OK" <=> handler[k] = "OK"
  BY DEF Crash, Work, handlers, Inv, TypeOK
<1> QED  BY <1>1, <1>2 DEF Kept, Applied, Op

-----------------------------------------------------------------------------
(* The call that a handler does. *)

\* A call that is being handled has not succeeded yet, but for the silent ones.
LEMMA NotYetTold ==
    ASSUME Inv, NEW k \in Calls, handler[k] # "OK", told[k] = "OK"
    PROVE  Op(k) \in Silent
BY DEF Inv, CallInv, CallPart

LEMMA NewCall ==
    ASSUME OrderInv, Inv', NEW k \in Calls, HandlerStep(k), Applied(k)'
    PROVE  DonePart(k)' /\ \A j \in Calls : PairPart(j, k)' /\ PairPart(k, j)'
<1> USE DEF OrderInv
<1>1. /\ Kept(k) /\ UNCHANGED <<request, told>> /\ handler[k] \in {"sent", "found"}
      /\ shared \subseteq shared'
  BY KeptHandler
<1>2. handler'[k] = "OK" /\ Op(k) \in QueueOps /\ Op(k)' = Op(k)
  BY <1>1 DEF Applied, Op
<1>3. AddTask(k) \/ RemoveTask(k) \/ ClearPending(k) \/ ListPending(k) \/ Other(k)
  <2>1. ~Find(k) /\ ~Fails(k)
    BY <1>2 DEF Find, Fails, Ends, Inv, TypeOK
  <2>2. ~OnList(k)
    BY <1>2 DEF OnList, QueueOps
  <2> QED  BY <2>1, <2>2 DEF HandlerStep
<1>4. PICK q \in Names : q = queue[k] /\ queue'[k] = q /\ q \notin shared'
  BY <1>3 DEF AddTask, RemoveTask, ClearPending, ListPending, Other, Applied
<1>5. q \notin shared /\ lastID[q] \in Nat /\ pending[q] \in Seq(Nat)
  BY <1>1, <1>4, BoundsAssumption DEF Inv, TypeOK
<1>6. told[k] = "OK" => Op(k) \in Silent
  BY <1>1, NotYetTold
\* The calls that were done before, on the same file.
<1>7. ASSUME NEW j \in Calls, j # k, Applied(j)', queue'[j] = q
      PROVE  /\ Op(j)' = Op(j) /\ request'[j] = request[j] /\ value'[j] = value[j]
             /\ Op(j) = "addTask" => value[j] < lastID[q] /\ value[j] \in Nat
             /\ Past(j, pending[q])
  <2>1. Applied(j) /\ request'[j] = request[j] /\ queue[j] = q /\ value'[j] = value[j]
    BY <1>1, <1>7 DEF Kept
  <2>2. DonePart(j)
    BY DEF DoneInv
  <2> QED  BY <2>1, <2>2, BoundsAssumption DEF DonePart, Op, Inv, TypeOK
<1>8. CASE AddTask(k)
  <2>1. Op(k) = "addTask" /\ CountersRead(q) = {lastID[q]}
    BY <1>5, <1>8 DEF AddTask, CountersRead
  <2>2. PICK id \in CountersRead(q) :
          /\ lastID' = [lastID EXCEPT ![q] = IF id = @ THEN @ + 1 ELSE @]
          /\ value' = [value EXCEPT ![k] = id] \/ Ends(k, "error")
    BY <1>4, <1>8 DEF AddTask
  <2>3. ~Ends(k, "error")
    BY <1>2 DEF Ends, Inv, TypeOK
  <2>4. value'[k] = lastID[q] /\ lastID'[q] = lastID[q] + 1
    BY <2>1, <2>2, <2>3 DEF Inv, TypeOK
  <2>5. DonePart(k)'
    BY <1>2, <1>4, <1>5, <2>1, <2>4 DEF DonePart, Past
  <2>6. ASSUME NEW j \in Calls PROVE PairPart(j, k)' /\ PairPart(k, j)'
    <3> SUFFICES ASSUME j # k, Applied(j)', queue'[j] = q PROVE PairPart(j, k)' /\ PairPart(k, j)'
      BY <1>4 DEF PairPart
    <3>1. Op(j)' = Op(j) /\ (Op(j) = "addTask" => value'[j] < value'[k] /\ value'[j] # value'[k])
      BY <1>5, <1>7, <2>4
    <3>2. told'[k] # "OK"
      BY <1>1, <1>6, <2>1 DEF Silent
    <3> QED  BY <1>2, <2>1, <3>1, <3>2 DEF PairPart
  <2> QED  BY <2>5, <2>6
<1>9. CASE RemoveTask(k) \/ ClearPending(k)
  <2>5. request[k].id \in Nat
    BY <1>1, Asked DEF Inv
  <2>6. value' = [value EXCEPT ![k] = lastID[q]]
    BY <1>4, <1>9 DEF RemoveTask, ClearPending
  <2>1. /\ Op(k) \in {"removeTask", "clearPending"} /\ lastID' = lastID
        /\ value'[k] = lastID[q] /\ request[k].id \in Nat
    BY <1>9, <2>5, <2>6 DEF RemoveTask, ClearPending, Inv, TypeOK
  <2>2. Past(k, pending[q])'
    <3>1. CASE RemoveTask(k)
      <4>1. pending'[q] = DeletePending(pending[q], request[k].id) /\ Op(k) = "removeTask"
        BY <1>4, <3>1 DEF RemoveTask, Inv, TypeOK
      <4>2. RowIDs(pending'[q]) = RowIDs(pending[q]) \ {request[k].id}
        BY <1>5, <2>1, <4>1, DeleteRows DEF FileInv, FilePart
      <4> QED  BY <1>1, <1>2, <4>1, <4>2 DEF Past
    <3>2. CASE ClearPending(k)
      <4>1. pending'[q] = <<>> /\ Op(k) = "clearPending"
        BY <1>4, <3>2 DEF ClearPending, Inv, TypeOK
      <4> QED  BY <1>2, <4>1, NoRows DEF Past
    <3> QED  BY <1>9, <3>1, <3>2
  <2>3. DonePart(k)'
    <3>1. value'[k] <= lastID'[q]
      BY <1>5, <2>1
    <3>2. Past(k, pending[queue[k]])'
      BY <1>4, <2>2 DEF Past
    <3> QED  BY <1>2, <1>4, <2>1, <3>1, <3>2 DEF DonePart
  <2>4. ASSUME NEW j \in Calls PROVE PairPart(j, k)' /\ PairPart(k, j)'
    BY <1>1, <1>2, <1>6, <2>1 DEF PairPart, Silent
  <2> QED  BY <2>3, <2>4
<1>10. CASE ListPending(k)
  <2>1. Op(k) = "listPending" /\ rows'[k] = pending[q]
    BY <1>4, <1>10 DEF ListPending, Inv, TypeOK
  <2>2. DonePart(k)'
    BY <1>2, <2>1 DEF DonePart, Past
  <2>3. ASSUME NEW j \in Calls PROVE PairPart(j, k)' /\ PairPart(k, j)'
    <3>1. PairPart(k, j)'
      BY <1>2, <2>1 DEF PairPart, Past
    <3>2. PairPart(j, k)'
      <4> SUFFICES ASSUME j # k, Applied(j)', queue'[j] = q PROVE PairPart(j, k)'
        BY <1>4 DEF PairPart
      <4>1. Past(j, rows[k])'
        BY <1>7, <2>1 DEF Past
      <4> QED  BY <1>2, <2>1, <4>1 DEF PairPart
    <3> QED  BY <3>1, <3>2
  <2> QED  BY <2>2, <2>3
<1>11. CASE Other(k)
  <2>1. Op(k) \in {"other", "silent"}
    BY <1>11 DEF Other
  <2>2. DonePart(k)'
    BY <1>2, <2>1 DEF DonePart, Past
  <2>3. ASSUME NEW j \in Calls PROVE PairPart(j, k)' /\ PairPart(k, j)'
    BY <1>2, <2>1 DEF PairPart, Past
  <2> QED  BY <2>2, <2>3
<1> QED  BY <1>3, <1>8, <1>9, <1>10, <1>11

-----------------------------------------------------------------------------
(* The theorems. *)

LEMMA OutNext == OrderInv /\ [Next]_vars => OutInv'
<1> SUFFICES ASSUME OrderInv, [Next]_vars, NEW k \in Calls PROVE OutPart(k)'
  BY DEF OutInv
<1> USE DEF OrderInv
<1>1. OutPart(k) /\ Inv
  BY DEF OutInv
<1>2. CASE UNCHANGED vars
  BY <1>1, <1>2 DEF vars, OutPart
<1>3. ASSUME NEW c \in Clients, ClientStep(c) PROVE OutPart(k)'
  <2>1. CASE Ask(c)
    <3>1. made + 1 \in Calls /\ handler[made + 1] = "none"
      BY <2>1, BoundsAssumption DEF Ask, Inv, TypeOK, CallInv, CallPart, Calls
    <3>2. UNCHANGED <<out, rows>> /\ handler' = [handler EXCEPT ![made + 1] = "sent"]
      BY <2>1 DEF Ask
    <3>3. (handler'[k] = "OK" <=> handler[k] = "OK")
      BY <3>1, <3>2 DEF Inv, TypeOK
    <3> QED  BY <1>1, <3>2, <3>3 DEF OutPart
  <2>2. CASE ReadNext(c)
    <3>1. PICK n \in Calls : n = waiting[c] /\ handler[n] = "OK" /\ Len(out[n]) < Len(rows[n])
      BY <2>2 DEF ReadNext, Inv, TypeOK, Calls
    <3>2. /\ UNCHANGED <<handler, rows>>
          /\ out' = [out EXCEPT ![n] = Append(out[n], rows[n][Len(out[n]) + 1])]
      BY <2>2, <3>1 DEF ReadNext, handlers
    <3>3. CASE k # n
      BY <1>1, <3>2, <3>3 DEF OutPart, Inv, TypeOK
    <3>4. CASE k = n
      <4>1. out[k] \in Seq(Nat) /\ rows[k] \in Seq(Nat)
        BY DEF Inv, TypeOK
      <4>2. Len(out[k]) + 1 \in DOMAIN rows[k]
        BY <3>1, <3>4, <4>1
      <4>3. rows[k][Len(out[k]) + 1] \in RowIDs(rows[k]) /\ rows[k][Len(out[k]) + 1] \in Nat
        BY <4>1, <4>2 DEF RowIDs
      <4>4. out'[k] = InsertPending(out[k], rows[k][Len(out[k]) + 1])
        BY <3>2, <3>4 DEF InsertPending, Inv, TypeOK
      <4>5. RowIDs(out'[k]) = RowIDs(out[k]) \cup {rows[k][Len(out[k]) + 1]}
        BY <4>1, <4>3, <4>4, InsertRows
      <4> QED  BY <1>1, <3>1, <3>2, <3>4, <4>3, <4>5 DEF OutPart
    <3> QED  BY <3>3, <3>4
  <2>3. CASE Answered(c) \/ Refused(c) \/ GivesUp(c) \/ Leave(c)
    <3>1. UNCHANGED <<handler, rows, out>>
      BY <2>3 DEF Answered, Refused, GivesUp, Leave, Returns, handlers
    <3> QED  BY <1>1, <3>1 DEF OutPart
  <2> QED  BY <1>3, <2>1, <2>2, <2>3 DEF ClientStep
<1>4. ASSUME NEW j \in Calls, HandlerStep(j) PROVE OutPart(k)'
  <2>1. CASE k # j
    BY <1>1, <1>4, <2>1, KeptHandler DEF OutPart
  <2>2. CASE k = j
    <3>1. out'[k] = <<>>
      BY <1>1, <1>4, <2>2, KeptHandler DEF OutPart
    <3> QED  BY <3>1, NoRows DEF OutPart
  <2> QED  BY <2>1, <2>2
<1>5. CASE Crash \/ \E f \in Names : Work(f)
  BY <1>1, <1>5, KeptServer DEF OutPart
<1> QED  BY <1>2, <1>3, <1>4, <1>5 DEF Next

\* A step that finishes no call on a file.
LEMMA OrderKept ==
    ASSUME OrderInv, Inv', Kept(0), FileInv', OnlyNewRows
    PROVE  DoneInv' /\ PairInv'
<1>1. \A j \in Calls : j # 0
  BY DEF Calls
<1> QED  BY <1>1, KeptDone, KeptPair DEF OrderInv, DoneInv, PairInv

LEMMA OrderHandler ==
    ASSUME OrderInv, Inv', NEW k \in Calls, HandlerStep(k)
    PROVE  FileInv' /\ DoneInv' /\ PairInv'
<1> USE DEF OrderInv
<1>1. Kept(k) /\ shared \subseteq shared'
  BY KeptHandler
<1>2. FileInv' /\ OnlyNewRows
  <2>1. CASE AddTask(k)
    BY <2>1, FileAdd
  <2>2. CASE RemoveTask(k) \/ ClearPending(k)
    BY <2>2, FileOther
  <2>3. CASE Find(k) \/ Fails(k) \/ ListPending(k) \/ Other(k) \/ OnList(k)
    <3>1. UNCHANGED <<pending, lastID>>
      BY <2>3 DEF Find, Fails, ListPending, Other, OnList, server
    <3> QED  BY <1>1, <3>1, FileOther
  <2> QED  BY <2>1, <2>2, <2>3 DEF HandlerStep
<1>3. DonePart(k)' /\ \A j \in Calls : PairPart(j, k)' /\ PairPart(k, j)'
  <2>1. CASE Applied(k)'
    BY <2>1, NewCall
  <2>2. CASE ~Applied(k)'
    BY <2>2 DEF DonePart, PairPart
  <2> QED  BY <2>1, <2>2
<1>4. \A j \in Calls : j # k => DonePart(j)'
  BY <1>1, <1>2, KeptDone
<1>5. \A i, j \in Calls : i # k /\ j # k => PairPart(i, j)'
  BY <1>1, KeptPair
<1> QED  BY <1>2, <1>3, <1>4, <1>5 DEF DoneInv, PairInv

LEMMA OrderNext == OrderInv /\ [Next]_vars => OrderInv'
<1> SUFFICES ASSUME OrderInv, [Next]_vars PROVE OrderInv'
  OBVIOUS
<1>1. Inv' /\ OutInv'
  BY TypeNext, CallNext, OutNext DEF OrderInv, Inv
<1>2. CASE UNCHANGED vars
  <2>1. /\ FileInv' /\ DoneInv' /\ PairInv'
    BY <1>2 DEF OrderInv, vars, FileInv, FilePart, DoneInv, DonePart, PairInv, PairPart,
       Applied, Past, After, Op
  <2> QED  BY <1>1, <2>1 DEF OrderInv
<1>3. ASSUME NEW c \in Clients, ClientStep(c) PROVE OrderInv'
  <2>1. Kept(0) /\ UNCHANGED <<pending, lastID, shared>>
    BY <1>3, KeptClient DEF OrderInv
  <2>2. FileInv' /\ OnlyNewRows
    BY <2>1, FileOther DEF OrderInv
  <2> QED  BY <1>1, <2>1, <2>2, OrderKept DEF OrderInv
<1>4. ASSUME NEW k \in Calls, HandlerStep(k) PROVE OrderInv'
  BY <1>1, <1>4, OrderHandler DEF OrderInv
<1>5. CASE Crash \/ \E f \in Names : Work(f)
  <2>1. Kept(0)
    BY <1>5, KeptServer DEF OrderInv
  <2>2. FileInv' /\ OnlyNewRows
    BY <1>5, FileOther DEF OrderInv, Crash
  <2> QED  BY <1>1, <2>1, <2>2, OrderKept DEF OrderInv
<1> QED  BY <1>2, <1>3, <1>4, <1>5 DEF Next

THEOREM OrderInvariance == Spec => []OrderInv
BY OrderInit, OrderNext, PTL DEF Spec

\* What it takes for a call to have been told of its success.
LEMMA SucceededApplied ==
    ASSUME OrderInv, NEW k \in Calls, told[k] = "OK", Op(k) \in QueueOps, Op(k) \notin Silent,
           queue[k] \notin shared
    PROVE  Applied(k) /\ heard[k] = value[k]
<1>1. handler[k] = "OK" /\ heard[k] = value[k]
  BY DEF OrderInv, Inv, CallInv, CallPart
<1> QED  BY <1>1 DEF OrderInv, Inv, QueueInv, Applied

\* The IDs clients are given by a queue that has its file for itself differ, and those
\* of one client grow with its calls.
THEOREM IDsAreGivenOnce == Spec => []GivenIDs
<1>1. OrderInv => GivenIDs
  <2> SUFFICES ASSUME OrderInv, NEW j \in Calls, NEW k \in Calls,
                      Succeeded(j, "addTask"), Succeeded(k, "addTask"), SameFile(j, k), j # k
               PROVE  heard[j] # heard[k] /\ (After(j, k) => heard[j] < heard[k])
    BY DEF GivenIDs
  <2>1. Applied(j) /\ heard[j] = value[j] /\ Applied(k) /\ heard[k] = value[k]
    BY SucceededApplied DEF Succeeded, SameFile, QueueOps, Silent
  <2> QED  BY <2>1 DEF OrderInv, PairInv, PairPart, Succeeded, SameFile
<1> QED  BY <1>1, OrderInvariance, PTL

\* A client of such a queue does not list what it removed or cleared before.
THEOREM WritesAreRead == Spec => []ReadsOwnWrites
<1>1. OrderInv => ReadsOwnWrites
  <2> SUFFICES ASSUME OrderInv, NEW j \in Calls, NEW k \in Calls,
                      Succeeded(k, "listPending"), After(j, k), SameFile(j, k)
               PROVE  /\ (Succeeded(j, "removeTask") /\ request[j].id < heard[j])
                             => request[j].id \notin RowIDs(out[k])
                      /\ Succeeded(j, "clearPending") => \A id \in RowIDs(out[k]) : id >= heard[j]
    BY DEF ReadsOwnWrites
  <2>1. CASE handler[k] # "OK"
    <3>1. RowIDs(out[k]) = {}
      BY <2>1, NoRows DEF OrderInv, OutInv, OutPart
    <3> QED  BY <3>1
  <2>2. CASE handler[k] = "OK"
    <3> SUFFICES ASSUME Succeeded(j, "removeTask") \/ Succeeded(j, "clearPending")
                 PROVE  /\ (Succeeded(j, "removeTask") /\ request[j].id < heard[j])
                               => request[j].id \notin RowIDs(out[k])
                        /\ Succeeded(j, "clearPending") =>
                               \A id \in RowIDs(out[k]) : id >= heard[j]
      OBVIOUS
    <3>1. Applied(j) /\ heard[j] = value[j] /\ told[j] = "OK"
      BY SucceededApplied DEF Succeeded, SameFile, QueueOps, Silent
    <3>2. Applied(k) /\ Op(k) = "listPending" /\ queue[j] = queue[k] /\ j # k
      <4>1. j # k
        BY DEF After, Calls
      <4> QED  BY <2>2, <3>1, <4>1 DEF Applied, Succeeded, SameFile, QueueOps
    <3>3. Past(j, rows[k])
      BY <3>1, <3>2 DEF OrderInv, PairInv, PairPart
    <3>4. RowIDs(out[k]) \subseteq RowIDs(rows[k])
      BY <2>2 DEF OrderInv, OutInv, OutPart
    <3> QED  BY <3>1, <3>3, <3>4 DEF Past, Succeeded
  <2> QED  BY <2>1, <2>2
<1> QED  BY <1>1, OrderInvariance, PTL
=============================================================================
