-------------------------- MODULE MCObservations --------------------------
(* Two sources of one list: a lookup whose answers are short-lived, and a   *)
(* feed whose answers live as long as the grace.                            *)
EXTENDS Observations, TLC
CONSTANTS dns, feed, v1, v2, v3, junk, w1, w2
TheSources == <<dns, feed>>
TheBodies == dns :> {{v1}, {v1, junk}} @@ feed :> {{v1, v2}, {v2, junk}, {junk}, {v1, v2, v3}}
TheValidity == dns :> 1 @@ feed :> 2
TheRevisions == <<dns :> 1 @@ feed :> 1, dns :> 1 @@ feed :> 2>>
Symmetry == Permutations(Workers)
=============================================================================
