---------------------------- MODULE MCPageTable ----------------------------
(* Tables of two entries, five virtual pages under three tables of the lowest
   level, and one table too few for all of them. *)
EXTENDS PageTable, TLC

CONSTANTS root, p1, p2, p3, p4

Tables == {root, p1, p2, p3, p4}
Physical == {0, 1}
Symmetry == Permutations(Tables \ {root})
============================================================================
