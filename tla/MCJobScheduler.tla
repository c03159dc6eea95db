---------------------------- MODULE MCJobScheduler ----------------------------
(* JobScheduler for TLC.                                                       *)
EXTENDS JobScheduler, TLC

\* Threads, queues and jobs are interchangeable; used where no liveness is checked.
Symmetry == Permutations(Threads) \cup Permutations(Queues) \cup Permutations(Jobs)

===============================================================================
