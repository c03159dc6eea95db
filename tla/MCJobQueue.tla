------------------------------ MODULE MCJobQueue ------------------------------
(* JobQueue for TLC: the configurations give the sets their elements.          *)
EXTENDS JobQueue, TLC

\* Threads, queues and jobs are interchangeable: no property names one of them.
Symmetry == Permutations(Threads) \cup Permutations(Queues) \cup Permutations(Jobs)

==============================================================================
