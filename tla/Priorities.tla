----------------------------- MODULE Priorities -----------------------------
(***************************************************************************)
(* Orders of lists, as one function for all of them makes them: what is    *)
(* available, first as it was stored and then as it is given.              *)
(***************************************************************************)
EXTENDS Integers, Sequences, FiniteSets

Entries(seq) == {seq[i] : i \in 1 .. Len(seq)}

\* A set in the order of the places its members have, no two the same.
Arranged(set, place) ==
  LET placed == {<<place[x], x>> : x \in set}
  IN  [k \in 1 .. Cardinality(set) |-> (CHOOSE p \in placed : Cardinality({q \in placed : q[1] < p[1]}) = k - 1)[2]]

Ids(set) == Arranged(set, [id \in set |-> id])

\* Where something is met first.
Place(seq, x) == CHOOSE i \in 1 .. Len(seq) : seq[i] = x /\ \A j \in 1 .. i - 1 : seq[j] # x

\* What is available in the stored order, then the rest in the given one.
MergePriority(stored, available) ==
  Arranged(Entries(available),
           [id \in Entries(available) |->
              IF id \in Entries(stored) THEN Place(stored, id) ELSE Len(stored) + Place(available, id)])
=============================================================================
