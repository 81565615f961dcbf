--------------------------- MODULE MCRemoteQueue ---------------------------
(* Instances of RemoteQueue for TLC. *)
EXTENDS RemoteQueue, TLC

Symmetry == Permutations(Names)
=============================================================================
