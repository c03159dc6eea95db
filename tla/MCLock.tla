--------------------------------- MODULE MCLock ---------------------------------
(* DeadLockProfiler, and Lock under it, for TLC.                                  *)
EXTENDS DeadLockProfiler

CONSTANTS l1, l2, l3, Session, Service, LockQueue

\* A lock of each of three classes.
Classes == l1 :> Session @@ l2 :> Service @@ l3 :> LockQueue

\* The last two locks, which nobody reads, may be exchanged together with their names.
Exchange == l2 :> l3 @@ l3 :> l2 @@ Service :> LockQueue @@ LockQueue :> Service

\* The search is right about every order of three names.
ASSUME SearchAssumption == SearchCorrect

Symmetry == Permutations(Threads) \cup {Exchange}

=================================================================================
