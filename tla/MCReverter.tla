------------------------------ MODULE MCReverter ------------------------------
(* Instances of Reverter for TLC; the values are in the .cfg files. *)
EXTENDS Reverter, TLC

CONSTANTS a1, a2, a3, e1, d1, u1, u2

Symmetry == Permutations(Action) \cup Permutations(Undoer)
=============================================================================
