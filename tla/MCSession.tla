------------------------------- MODULE MCSession -------------------------------
(* Session for TLC.                                                            *)
EXTENDS Session, TLC

\* Threads are interchangeable; used where no liveness is checked.
Symmetry == Permutations(Threads)

================================================================================
