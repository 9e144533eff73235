--------------------------- MODULE MCLibraryReads ---------------------------
(* A few readers for TLC.                                                  *)
EXTENDS LibraryReads, TLC

CONSTANTS r1, r2, r3
Symmetry == Permutations(Readers)
=============================================================================
