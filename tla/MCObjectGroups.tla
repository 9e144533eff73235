--------------------------- MODULE MCObjectGroups ---------------------------
(* Instances of ObjectGroups for TLC. *)
EXTENDS ObjectGroups, TLC

CONSTANTS o1, o2

(* o1's list grows from one entry to two and a second group, whose name   *)
(* o2 uses as well; the operator may use any of the names.                 *)
MCFiles ==
  (o1 :> { <<{1, 2}, {}, {}>>, <<{2, 3}, {1}, {}>> }) @@ (o2 :> { <<{}, {3}, {}>> })
=============================================================================
