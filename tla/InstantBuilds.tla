--------------------------- MODULE InstantBuilds ---------------------------
(***************************************************************************)
(* What publishing promises to whoever downloads an output's file: as far  *)
(* as the operator's choices go, the file is what a build that took no     *)
(* time would have published at the moment the pointer advanced, and an    *)
(* output that may not be published at all never changes.  Files, locks,   *)
(* generations and the length of a build are left out; Publication         *)
(* implements this specification.                                          *)
(***************************************************************************)
CONSTANTS Outputs,
          Nothing,   \* an output that was never published
          Frozen     \* an output no build may publish

VARIABLES wanted,    \* what every output would be published from now
          current    \* what every output's latest artifact was made from

Init == current = [o \in Outputs |-> Nothing]

(* The operator's choices change as they like.                             *)
Change == current' = current

Build(o) ==
  /\ wanted[o] # Frozen
  /\ current' = [current EXCEPT ![o] = wanted[o]]
  /\ UNCHANGED wanted

Next == Change \/ \E o \in Outputs : Build(o)

Spec == Init /\ [][Next]_<<wanted, current>>
=============================================================================
