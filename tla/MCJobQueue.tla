----------------------------- MODULE MCJobQueue -----------------------------
(***************************************************************************)
(* Small instances of JobQueue for TLC.                                    *)
(***************************************************************************)
EXTENDS JobQueue, TLC

CONSTANTS j1, s1, s2, p1, p2, d1, d2

\* Both threads belong to one worker process (worker_concurrency = 2).
SharedProcess == [s \in Slots |-> p1]

\* One thread in each worker process (worker_concurrency = 1).
OwnProcess == [s \in Slots |-> IF s = s1 THEN p1 ELSE p2]

\* Threads of one process are interchangeable.
ThreadSymmetry == Permutations(Slots)

=============================================================================
