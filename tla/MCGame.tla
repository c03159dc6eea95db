--------------------------------- MODULE MCGame ---------------------------------
(* Game for TLC.                                                                *)
EXTENDS Game, TLC

\* Sessions are interchangeable.
Symmetry == Permutations(Sessions)

=================================================================================
