---------------------------- MODULE RemoteQueue ----------------------------
(***************************************************************************)
(* Queues behind gRPC: GRPCQueueList and GRPCQueue in the clients, the     *)
(* handlers QueueListImpl and QueueImpl in the server, and the commands of *)
(* the CLI that call them.                                                 *)
(*                                                                         *)
(* A client makes one call at a time and waits for it, until an answer or  *)
(* its deadline comes or the connection breaks.  A handler never looks     *)
(* whether somebody still waits for it (UNUSED(ctx)): once a request was   *)
(* sent it may be handled at any later time, or never.  It takes two       *)
(* steps: it looks the queue up by its name, then it works on that queue.  *)
(*                                                                         *)
(* The queues are those of SqliteQueue and QueueList, seen from the        *)
(* handlers: each operation is a step, as the token's mutex makes it, and  *)
(* may fail; the main loops take rows away.  A queue is known by the file  *)
(* it was created on.  Two queues on one file have two tokens: their       *)
(* statements are steps, but a counter that one has read may be advanced   *)
(* by the other before it is.                                              *)
(*                                                                         *)
(* "other" stands for start, clearFinished, the details and the current    *)
(* task, which do not touch pending, "silent" for stop, isRunning,         *)
(* readCurrentOutput and listFinished, which do not report failures either.*)
(***************************************************************************)
EXTENDS TaskTable

QueueOps == {"addTask", "removeTask", "clearPending", "listPending", "other", "silent"}
\* Those whose status the client drops.
Silent == {"listPending", "silent"}
ListOps == {"createQueue", "deleteQueue", "renameQueue", "listQueue", "getQueue"}

CONSTANTS
    Clients,        \* processes that use GRPCQueueList
    Names,          \* names of queues, and of files
    None,           \* no name, no file
    Ops,            \* bound: the operations clients call
    MaxCalls,       \* bound: calls in a behaviour
    MaxID,          \* bound: IDs of a file
    MaxCrashes      \* bound: deaths of the server

ASSUME NamesAssumption == None \notin Names
ASSUME OpsAssumption == Ops \subseteq QueueOps \cup ListOps
ASSUME BoundsAssumption == MaxCalls \in Nat /\ MaxID \in Nat /\ MaxCrashes \in Nat

Calls == 1..MaxCalls
IDs == 0..(MaxID - 1)

Request ==
    [client : Clients, op : QueueOps \cup ListOps, name : Names, target : Names \cup {None},
     id : Nat]

VARIABLES
    m_queueList,    \* the file of the queue of each name, in the server
    files,          \* the files that are there
    shared,         \* those that two queues ever had open at once
    pending,        \* the rows of each file
    lastID,         \* the counter of each file
    crashes,        \* deaths of the server so far
    request,        \* what each call asks for
    handler,        \* how far its handler is, at last the status it returns
    queue,          \* the file of the queue its handler found
    rows,           \* what its handler writes, for listPending
    value,          \* the ID in its response; for a delete, the counter then
    made,           \* calls made so far
    waiting,        \* the call each client waits for, or 0
    m_queueName,    \* the queue each client has entered
    out,            \* what the client of each call has read
    told,           \* what it got as return code
    heard           \* what it got in the response

server == <<m_queueList, files, shared, pending, lastID, crashes>>
handlers == <<handler, queue, rows, value>>
clients == <<request, made, waiting, m_queueName, out, told, heard>>
vars == <<m_queueList, files, shared, pending, lastID, crashes, handler, queue, rows, value,
          request, made, waiting, m_queueName, out, told, heard>>

Op(k) == request[k].op
NameOf(k) == request[k].name
NoRequest == [client |-> None, op |-> "none", name |-> None, target |-> None, id |-> 0]

\* The server is up, with a queue for every file; some clients have entered one.
Init ==
    /\ m_queueList = [n \in Names |-> n]
    /\ files = Names /\ shared = {}
    /\ pending = [n \in Names |-> <<>>]
    /\ lastID = [n \in Names |-> 0]
    /\ crashes = 0
    /\ handler = [k \in Calls |-> "none"]
    /\ queue = [k \in Calls |-> None]
    /\ rows = [k \in Calls |-> <<>>]
    /\ value = [k \in Calls |-> 0]
    /\ request = [k \in Calls |-> NoRequest]
    /\ made = 0
    /\ waiting = [c \in Clients |-> 0]
    /\ m_queueName \in [Clients -> Names \cup {None}]
    /\ out = [k \in Calls |-> <<>>]
    /\ told = [k \in Calls |-> "unasked"]
    /\ heard = [k \in Calls |-> 0]

-----------------------------------------------------------------------------
(* Clients. *)

\* The commands on the list of queues, and in the queue that the client has entered.
ListCommands(c) ==
    [client : {c}, op : ListOps \ {"renameQueue"}, name : Names, target : {None}, id : {0}]
    \cup [client : {c}, op : {"renameQueue"}, name : Names, target : Names, id : {0}]
QueueCommands(c) ==
    LET here == {m_queueName[c]}
    IN  [client : {c}, op : QueueOps \ {"removeTask"}, name : here, target : {None}, id : {0}]
        \cup [client : {c}, op : {"removeTask"}, name : here, target : {None}, id : IDs]
Commands(c) ==
    {r \in IF m_queueName[c] = None THEN ListCommands(c) ELSE QueueCommands(c) : r.op \in Ops}

\* The stub sends the request, with a deadline, and blocks.
Ask(c) ==
    /\ waiting[c] = 0 /\ made < MaxCalls
    /\ \E r \in Commands(c) : request' = [request EXCEPT ![made + 1] = r]
    /\ made' = made + 1
    /\ waiting' = [waiting EXCEPT ![c] = made + 1]
    /\ told' = [told EXCEPT ![made + 1] = "waiting"]
    /\ handler' = [handler EXCEPT ![made + 1] = "sent"]
    /\ UNCHANGED <<server, queue, rows, value, m_queueName, out, heard>>

\* reader->Read(): the next row of the list.
ReadNext(c) ==
    LET k == waiting[c]
    IN  /\ k # 0 /\ Op(k) = "listPending" /\ handler[k] = "OK"
        /\ Len(out[k]) < Len(rows[k])
        /\ out' = [out EXCEPT ![k] = Append(@, rows[k][Len(@) + 1])]
        /\ UNCHANGED <<server, handlers, request, made, waiting, m_queueName, told, heard>>

\* Mutant: the state of the handler for the status of the call.
ReturnsState(c, status) ==
    LET k == waiting[c]
    IN  /\ told' = [told EXCEPT ![k] = handler[k]]
        /\ waiting' = [waiting EXCEPT ![c] = 0]
        /\ UNCHANGED <<server, handlers, request, made, out>>
\* The call returns.  Without its status, nothing, false or what has come of a list is
\* an answer like any other.
Returns(c, status) ==
    LET k == waiting[c]
    IN  /\ told' = [told EXCEPT ![k] = IF Op(k) \in Silent THEN "OK" ELSE status]
        /\ waiting' = [waiting EXCEPT ![c] = 0]
        /\ UNCHANGED <<server, handlers, request, made, out>>

\* status.ok(): the response is taken over; GetQueue makes a GRPCQueue, which
\* knows the name only.
Answered(c) ==
    LET k == waiting[c]
    IN  /\ k # 0 /\ handler[k] = "OK" /\ Len(out[k]) = Len(rows[k])
        /\ Returns(c, "OK")
        /\ heard' = [heard EXCEPT ![k] = value[k]]
        /\ m_queueName' = IF Op(k) = "getQueue"
                          THEN [m_queueName EXCEPT ![c] = NameOf(k)] ELSE m_queueName

\* The handler's error.
Refused(c) ==
    /\ waiting[c] # 0 /\ handler[waiting[c]] = "error"
    /\ Returns(c, "error")
    /\ UNCHANGED <<m_queueName, heard>>

\* Mutant: try again.
TriesAgain(c) ==
    /\ waiting[c] # 0
    /\ handler' = [handler EXCEPT ![waiting[c]] = "sent"]
    /\ UNCHANGED <<server, queue, rows, value, clients>>
\* DEADLINE_EXCEEDED, or UNAVAILABLE when the connection breaks.
GivesUp(c) ==
    /\ waiting[c] # 0
    /\ Returns(c, "error")
    /\ UNCHANGED <<m_queueName, heard>>

\* "exit" leaves the queue.
Leave(c) ==
    /\ waiting[c] = 0 /\ m_queueName[c] # None
    /\ m_queueName' = [m_queueName EXCEPT ![c] = None]
    /\ UNCHANGED <<server, handlers, request, made, waiting, out, told, heard>>

-----------------------------------------------------------------------------
(* Handlers. *)

\* ErrMsg::toGRPCStatus: one status or another, the client makes ErrCode_OS_ERROR
\* of it.
Ends(k, status) == handler' = [handler EXCEPT ![k] = status]

\* getQueue(req->name()), in each handler of QueueImpl.
Find(k) ==
    /\ handler[k] = "sent" /\ Op(k) \in QueueOps
    /\ queue' = [queue EXCEPT ![k] = m_queueList[NameOf(k)]]
    /\ Ends(k, IF m_queueList[NameOf(k)] = None THEN "error" ELSE "found")
    /\ UNCHANGED <<server, clients, rows, value>>

\* The operation on the queue or the list fails, or the lookup, for m_queueList
\* has no lock.
Fails(k) ==
    /\ handler[k] \in {"sent", "found"}
    /\ Ends(k, "error")
    /\ UNCHANGED <<server, clients, queue, rows, value>>

\* Mutants: the counter is not advanced; the row stays.
AddSameID(k) ==
    LET q == queue[k]
    IN  /\ handler[k] = "found" /\ Op(k) = "addTask" /\ lastID[q] < MaxID
        /\ pending' = [pending EXCEPT ![q] = InsertPending(@, lastID[q])]
        /\ value' = [value EXCEPT ![k] = lastID[q]]
        /\ Ends(k, "OK")
        /\ UNCHANGED <<m_queueList, files, shared, lastID, crashes, clients, queue, rows>>
RemoveNothing(k) ==
    /\ handler[k] = "found" /\ Op(k) = "removeTask"
    /\ value' = [value EXCEPT ![k] = lastID[queue[k]]]
    /\ Ends(k, "OK")
    /\ UNCHANGED <<server, clients, queue, rows>>

\* What getID may have read when it comes to advance the counter.
CountersRead(q) == IF q \in shared THEN 0..lastID[q] ELSE {lastID[q]}

\* "update lastID set ID=? where ID=?" advances no counter but the one it read, and
\* is OK all the same; the insertion takes an ID that has no row.
AddTask(k) ==
    LET q == queue[k]
    IN  /\ handler[k] = "found" /\ Op(k) = "addTask" /\ lastID[q] < MaxID
        /\ \E id \in CountersRead(q) :
              /\ lastID' = [lastID EXCEPT ![q] = IF id = @ THEN @ + 1 ELSE @]
              /\ \/ /\ id \notin RowIDs(pending[q])
                    /\ pending' = [pending EXCEPT ![q] = InsertPending(@, id)]
                    /\ value' = [value EXCEPT ![k] = id]
                    /\ Ends(k, "OK")
                 \/ UNCHANGED <<pending, value>> /\ Ends(k, "error")
        /\ UNCHANGED <<m_queueList, files, shared, crashes, clients, queue, rows>>

\* A row that is not there is removed like one that is.
RemoveTask(k) ==
    /\ handler[k] = "found" /\ Op(k) = "removeTask"
    /\ pending' = [pending EXCEPT ![queue[k]] = DeletePending(@, request[k].id)]
    /\ value' = [value EXCEPT ![k] = lastID[queue[k]]]
    /\ Ends(k, "OK")
    /\ UNCHANGED <<m_queueList, files, shared, lastID, crashes, clients, queue, rows>>

ClearPending(k) ==
    /\ handler[k] = "found" /\ Op(k) = "clearPending"
    /\ pending' = [pending EXCEPT ![queue[k]] = <<>>]
    /\ value' = [value EXCEPT ![k] = lastID[queue[k]]]
    /\ Ends(k, "OK")
    /\ UNCHANGED <<m_queueList, files, shared, lastID, crashes, clients, queue, rows>>

ListPending(k) ==
    /\ handler[k] = "found" /\ Op(k) = "listPending"
    /\ rows' = [rows EXCEPT ![k] = pending[queue[k]]]
    /\ Ends(k, "OK")
    /\ UNCHANGED <<server, clients, queue, value>>

Other(k) ==
    /\ handler[k] = "found" /\ Op(k) \in {"other", "silent"}
    /\ Ends(k, "OK")
    /\ UNCHANGED <<server, clients, queue, rows, value>>

\* The handlers of QueueListImpl.
\* Is the file of this name open, other than in the queue that createQueue replaces?
InUse(f) ==
    \/ \E n \in Names : n # f /\ m_queueList[n] = f
    \/ \E j \in Calls : handler[j] = "found" /\ queue[j] = f
CreateQueue(k) ==
    /\ m_queueList' = [m_queueList EXCEPT ![NameOf(k)] = NameOf(k)]
    /\ files' = files \cup {NameOf(k)}
    /\ shared' = IF InUse(NameOf(k)) THEN shared \cup {NameOf(k)} ELSE shared

DeleteQueue(k) ==
    /\ m_queueList[NameOf(k)] # None
    /\ m_queueList' = [m_queueList EXCEPT ![NameOf(k)] = None]
    /\ UNCHANGED <<files, shared>>

\* The new name, then the old one: a rename to the same name loses the queue.
RenameQueue(k) ==
    /\ m_queueList[NameOf(k)] # None
    /\ m_queueList' = [m_queueList EXCEPT ![request[k].target] = m_queueList[NameOf(k)],
                                          ![NameOf(k)] = None]
    /\ UNCHANGED <<files, shared>>

\* An empty list is NOT_FOUND.
ListQueue ==
    /\ \E n \in Names : m_queueList[n] # None
    /\ UNCHANGED <<m_queueList, files, shared>>
GetQueue(k) == m_queueList[NameOf(k)] # None /\ UNCHANGED <<m_queueList, files, shared>>

OnList(k) ==
    /\ handler[k] = "sent"
    /\ \/ Op(k) = "createQueue" /\ CreateQueue(k)
       \/ Op(k) = "deleteQueue" /\ DeleteQueue(k)
       \/ Op(k) = "renameQueue" /\ RenameQueue(k)
       \/ Op(k) = "listQueue" /\ ListQueue
       \/ Op(k) = "getQueue" /\ GetQueue(k)
    /\ Ends(k, "OK")
    /\ UNCHANGED <<pending, lastID, crashes, clients, queue, rows, value>>

-----------------------------------------------------------------------------
(* The server. *)

\* A main loop finishes the oldest task.
Work(f) ==
    /\ pending[f] # <<>>
    /\ pending' = [pending EXCEPT ![f] = DeletePending(@, @[1])]
    /\ UNCHANGED <<m_queueList, files, shared, lastID, crashes, handlers, clients>>

\* The server dies and starts again: every file becomes a queue with its
\* name, the handlers are gone.
Crash ==
    /\ crashes < MaxCrashes
    /\ crashes' = crashes + 1
    /\ m_queueList' = [n \in Names |-> IF n \in files THEN n ELSE None]
    /\ handler' = [k \in Calls |-> IF handler[k] \in {"sent", "found"} THEN "lost"
                                   ELSE handler[k]]
    /\ UNCHANGED <<files, shared, pending, lastID, queue, rows, value, clients>>

ClientStep(c) ==
    Ask(c) \/ ReadNext(c) \/ Answered(c) \/ Refused(c) \/ GivesUp(c) \/ Leave(c)
HandlerStep(k) ==
    \/ Find(k) \/ Fails(k) \/ AddTask(k) \/ RemoveTask(k) \/ ClearPending(k)
    \/ ListPending(k) \/ Other(k) \/ OnList(k)

Next ==
    \/ \E c \in Clients : ClientStep(c)
    \/ \E k \in Calls : HandlerStep(k)
    \/ \E f \in Names : Work(f)
    \/ Crash

Spec == Init /\ [][Next]_vars

-----------------------------------------------------------------------------
(* Properties. *)

TypeOK ==
    /\ m_queueList \in [Names -> Names \cup {None}]
    /\ files \subseteq Names /\ shared \subseteq Names
    /\ pending \in [Names -> Seq(Nat)] /\ lastID \in [Names -> 0..MaxID]
    /\ crashes \in Nat
    /\ handler \in [Calls -> {"none", "sent", "found", "OK", "error", "lost"}]
    /\ queue \in [Calls -> Names \cup {None}]
    /\ rows \in [Calls -> Seq(Nat)] /\ value \in [Calls -> 0..MaxID]
    /\ request \in [Calls -> Request \cup {NoRequest}]
    /\ made \in 0..MaxCalls
    /\ waiting \in [Clients -> 0..MaxCalls]
    /\ m_queueName \in [Clients -> Names \cup {None}]
    /\ out \in [Calls -> Seq(Nat)]
    /\ told \in [Calls -> {"unasked", "waiting", "OK", "error"}]
    /\ heard \in [Calls -> 0..MaxID]

Succeeded(k, op) == told[k] = "OK" /\ Op(k) = op
SameFile(j, k) == queue[j] = queue[k] /\ queue[k] \notin shared
\* One client made both calls, the second after the first had returned.
After(j, k) == j < k /\ request[j].client = request[k].client

\* The IDs that clients are given differ, and those a client is given grow, even
\* when handlers of calls that it gave up on run between its others, as long as no
\* file is open in two queues.  (addTask)
GivenIDs ==
    \A j, k \in Calls :
        (Succeeded(j, "addTask") /\ Succeeded(k, "addTask") /\ SameFile(j, k) /\ j # k)
            => heard[j] # heard[k] /\ (After(j, k) => heard[j] < heard[k])

\* A client does not list what it removed or cleared before: an operation
\* is over when its call has returned OK.  (An ID that is yet to be given is
\* removed with success, too.)  (removeTask, clearPending, listPending)
ReadsOwnWrites ==
    \A j, k \in Calls :
        (Succeeded(k, "listPending") /\ After(j, k) /\ SameFile(j, k))
            => /\ (Succeeded(j, "removeTask") /\ request[j].id < heard[j])
                    => request[j].id \notin RowIDs(out[k])
               /\ Succeeded(j, "clearPending") => \A id \in RowIDs(out[k]) : id >= heard[j]

-----------------------------------------------------------------------------
(* A call is done at most once, and before it is told to be.  The silent   *)
(* calls are left out: they are told "OK" whatever happens.                *)

Told == [k \in Calls |-> IF Op(k) \in Silent THEN "unasked" ELSE told[k]]
Done == [k \in Calls |-> IF Op(k) \in Silent THEN "no"
                         ELSE IF handler[k] = "OK" THEN "yes"
                         ELSE IF handler[k] = "error" THEN "refused" ELSE "no"]
Once == INSTANCE CallOnce WITH told <- Told, done <- Done, Values <- 0..MaxID
AtMostOnce == Once!Spec
=============================================================================
