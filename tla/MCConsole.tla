------------------------------ MODULE MCConsole ------------------------------
(* Console with two threads and three lines of three characters.           *)
(* The cursor's registers hold 0 .. 3, so that going from cell 7 to cell 8 *)
(* changes both, with 11, behind the screen, in between.                   *)
EXTENDS Console, TLC

CONSTANTS t1, t2, a, b, x, y

MCTexts == {<<a>>, <<a, LF, b>>, <<b, BS>>, <<a, b, b>>, <<LF>>}
MCReport == << <<x>>, <<y, x>> >>

Symmetry == Permutations(Threads)
=============================================================================
