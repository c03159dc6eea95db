------------------------------ MODULE MCSendBuffer ------------------------------
(* SendBuffer for TLC.                                                          *)
EXTENDS SendBuffer

Symmetry == Permutations(Threads) \cup Permutations(Chunks) \cup Permutations(Buffers)

=================================================================================
