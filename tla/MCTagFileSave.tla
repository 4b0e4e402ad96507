--------------------------- MODULE MCTagFileSave ---------------------------
(***************************************************************************)
(* Two calls of one process, the worst case for temporary names, and a     *)
(* good, a big-endian and an unreadable tag.                               *)
(***************************************************************************)
EXTENDS TagFileSave, TLC

MCProcessOf == [s \in Saver |-> CHOOSE x \in Process : TRUE]
Symmetry == Permutations(Saver)
=============================================================================
