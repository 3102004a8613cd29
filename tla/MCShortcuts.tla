---------------------------- MODULE MCShortcuts ----------------------------
(* Two games, one of a store that names the executable; two tasks.         *)
EXTENDS Shortcuts, TLC
CONSTANTS f1, f2, u1, u2
MCHomeOf == [f \in Foreign |-> IF f = f1 THEN u1 ELSE u2]
MCSymmetry == Permutations(Tasks)
=============================================================================
