---------------------------- MODULE MCQueueList ----------------------------
(* Instances of QueueList for TLC. *)
EXTENDS QueueList, TLC

\* Names, threads and queue objects are interchangeable; not for liveness.
Symmetry ==
    Permutations(Names) \cup Permutations(Handlers) \cup Permutations(Queues)
=============================================================================
