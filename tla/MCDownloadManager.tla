------------------------ MODULE MCDownloadManager ------------------------
(* DownloadManager on small instances. *)
EXTENDS DownloadManager, TLC

(* Every task in the same queue. *)
OneQueue == [t \in Tasks |-> CHOOSE q \in Queues : TRUE]
Unlimited == [q \in Queues |-> 0]
(* The stored tasks share a queue, a new one has another. *)
TwoQueues ==
    LET q == CHOOSE q \in Queues : TRUE
    IN [t \in Tasks |-> IF t \in Stored THEN q ELSE CHOOSE r \in Queues \ {q} : TRUE]

OneEach == [q \in Queues |-> 1]

Symmetry == Permutations(Tasks)
StoredSymmetry == Permutations(Stored)
=============================================================================
