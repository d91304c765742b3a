---------------------------- MODULE MCPageAlloc -----------------------------
(* PageAlloc with kernel threads and processes that are all alike. *)
EXTENDS PageAlloc, TLC

Symmetry == Permutations(KThreads) \cup Permutations(Procs)

\* Bound: the threads inside a call at once.
CONSTANT MaxBusy
FewBusy == Cardinality({t \in Threads : pc[t] \notin {"start", "out"}}) <= MaxBusy
=============================================================================
