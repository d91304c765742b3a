------------------------------ MODULE MCKeyboard -----------------------------
(* Keyboard with two readers, who are alike.                               *)
EXTENDS Keyboard, TLC

CONSTANTS r1, r2

Symmetry == Permutations(Readers)
=============================================================================
