------------------------------ MODULE CallOnce ------------------------------
(***************************************************************************)
(* What a remote call promises, without messages, handlers or deadlines.   *)
(* RemoteQueue implements it.                                              *)
(*                                                                         *)
(* A call is done at most once, after it was asked for.  The caller is     *)
(* told "OK" only after it was done, and hears the value that doing it     *)
(* gave.  An error promises nothing: the call may have been done, be       *)
(* refused, be done later or never.                                        *)
(***************************************************************************)
EXTENDS Integers

CONSTANTS
    Calls,
    Values    \* what doing a call may give

VARIABLES
    told,     \* what the caller knows of a call
    done,     \* whether the server did it
    value,    \* what doing it gave
    heard     \* the value the caller was told

calls == <<told, done, value, heard>>

Init ==
    /\ told = [k \in Calls |-> "unasked"]
    /\ done = [k \in Calls |-> "no"]
    /\ value = [k \in Calls |-> 0]
    /\ heard = [k \in Calls |-> 0]

Invoke(k) ==
    /\ told[k] = "unasked"
    /\ told' = [told EXCEPT ![k] = "waiting"]
    /\ UNCHANGED <<done, value, heard>>

\* Done while the caller waits, or after it gave up.
Apply(k) ==
    /\ told[k] \in {"waiting", "error"} /\ done[k] = "no"
    /\ \E v \in Values : value' = [value EXCEPT ![k] = v]
    /\ done' = [done EXCEPT ![k] = "yes"]
    /\ UNCHANGED <<told, heard>>

Refuse(k) ==
    /\ told[k] \in {"waiting", "error"} /\ done[k] = "no"
    /\ done' = [done EXCEPT ![k] = "refused"]
    /\ UNCHANGED <<told, value, heard>>

Succeed(k) ==
    /\ told[k] = "waiting" /\ done[k] = "yes"
    /\ told' = [told EXCEPT ![k] = "OK"]
    /\ heard' = [heard EXCEPT ![k] = value[k]]
    /\ UNCHANGED <<done, value>>

Fail(k) ==
    /\ told[k] = "waiting"
    /\ told' = [told EXCEPT ![k] = "error"]
    /\ UNCHANGED <<done, value, heard>>

Next ==
    \E k \in Calls : Invoke(k) \/ Apply(k) \/ Refuse(k) \/ Succeed(k) \/ Fail(k)

Spec == Init /\ [][Next]_calls
=============================================================================
