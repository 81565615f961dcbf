--------------------------- MODULE MCSqliteQueue ---------------------------
(* Instances of SqliteQueue for TLC. *)
EXTENDS SqliteQueue, TLC

CONSTANTS c1, c2

Symmetry == Permutations(Clients)
\* While the last start() is called, and after it, the others call nothing.
LastStartAlone == starts' < MaxStarts \/ \A c \in Clients \ {c1} : pc'[c] = "idle"

-----------------------------------------------------------------------------
(* What a user is told. *)

\* Stopping the queue does not stop the server.
StopSparesServer == \A c \in Clients : pc[c] = "stop.kill" => m_pid # 0
=============================================================================
