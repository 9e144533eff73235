------------------------------ MODULE MCLibrary ------------------------------
(* A small library for TLC.                                                *)
EXTENDS Library, TLC

CONSTANTS s1, u1, c1, k1, f1, a1, v1, p1, t1

CarriedOne == c1 :> {s1}
OfferedNothing == s1 :> {}

\* At most two identities are issued, a profile names one list or category and
\* leaves out one list, and MaxTuned switches, words and removals stand at once.
MaxTuned == 1
Words(r) == {x \in Lists \X Values : r.said[x[1]][x[2]] # "auto"}
Small ==
  /\ Cardinality(issued) <= 2
  /\ \A p \in Profiles : LET c == profile[p].composition
                         IN  Cardinality(c.lists) + Cardinality(c.categories) <= 1 /\ Cardinality(c.exclusions) <= 1
  /\ Cardinality(rows.off) + Cardinality(Words(rows)) + Cardinality(rows.removed) <= MaxTuned
=============================================================================
