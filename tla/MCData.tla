-------------------------------- MODULE MCData -------------------------------
(***************************************************************************)
(* What works on data alone: lists that two threads change and walk, and   *)
(* the functions of Data.  Those are asked before the threads begin, since *)
(* nothing that the threads do to the lists concerns them.                 *)
(***************************************************************************)
EXTENDS List, Data, TLC

MCInit == ListInit /\ DataInit
MCSpec == MCInit /\ [][ListNext /\ DataNext]_<<listVars, dataVars>>

Symmetry == Permutations(Callers) \cup Permutations(Elements)
=============================================================================
