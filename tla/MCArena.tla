------------------------------ MODULE MCArena -------------------------------
(* Arena with pages that hold two small blocks or a single larger one.     *)
EXTENDS Arena

CONSTANTS t1, t2

Symmetry == Permutations(Threads)
=============================================================================
