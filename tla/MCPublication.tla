---------------------------- MODULE MCPublication ----------------------------
(* Instances of Publication for TLC.  Builders, outputs, tokens and        *)
(* compositions are only ever compared, so each may be permuted.           *)
EXTENDS Publication, TLC

CONSTANTS b1, b2, o1, o2, t1, t2, c1, c2

Symmetry == Permutations(Builders) \cup Permutations(Compositions)
            \cup Permutations(Outputs) \cup Permutations(Tokens)
=============================================================================
