----------------------------- MODULE TaskTable -----------------------------
(***************************************************************************)
(* The tables of a queue's SQLite file, as the statements of               *)
(* model/dao/sqlitequeue.cpp use them.                                     *)
(*                                                                         *)
(* "pending" is the sequence of its rows in rowid order, the order in      *)
(* which "SELECT * FROM pending limit 1" meets them.  A row is abstracted  *)
(* to its ID: the program to execute, its arguments and its directory only *)
(* travel along.  "done" is a set of rows [ID, exitCode], nothing depends  *)
(* on its order.  Both tables declare ID as PRIMARY KEY.                   *)
(***************************************************************************)
EXTENDS Integers, Sequences

\* The IDs that have a row in the table t.
RowIDs(t) == {t[i] : i \in DOMAIN t}

\* insert into pending values(...): a new row gets the highest rowid.
InsertPending(t, id) == Append(t, id)

\* delete from pending where ID=?: no row, or the only one the key allows.
\* Mutants: nothing is deleted; the row after it goes too.
DeleteNothing(t, id) == t
DeleteTwo(t, id) ==
    IF id \notin RowIDs(t) THEN t
    ELSE LET i == CHOOSE k \in DOMAIN t : t[k] = id
         IN  SubSeq(t, 1, i - 1) \o SubSeq(t, i + 2, Len(t))
DeletePending(t, id) ==
    IF id \notin RowIDs(t) THEN t
    ELSE LET i == CHOOSE k \in DOMAIN t : t[k] = id
         IN  SubSeq(t, 1, i - 1) \o SubSeq(t, i + 1, Len(t))

\* The IDs that have a row in the table "done".
DoneIDs(d) == {r.ID : r \in d}

\* insert into done values(...): refused when the key is taken.
CanInsertDone(d, task) == task.ID \notin DoneIDs(d)
InsertDone(d, task) == d \cup {task}

\* The rows are in the order of their IDs, hence no ID has two rows.
InIDOrder(t) == \A i, j \in DOMAIN t : i < j => t[i] < t[j]
=============================================================================
