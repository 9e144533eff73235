--------------------------- MODULE MCRouteDelivery ---------------------------
(* Instances of RouteDelivery for TLC. *)
EXTENDS RouteDelivery, TLC

CONSTANTS o1, o2, p1, p2, w1, w2

(* Two formats that share p1 with different labels; o2 may also deliver a  *)
(* file from before labels were kept (no labels) or want p2 as well.       *)
MCArtifacts ==
  (o1 :> { p1 :> {1} }) @@ (o2 :> { p1 :> {2}, (p1 :> {}) @@ (p2 :> {2}) })
(* One file each over one prefix, where the order of the steps matters.    *)
MCOnePrefix ==
  (o1 :> { p1 :> {1} }) @@ (o2 :> { p1 :> {} })
MCTexts == { NoText }
=============================================================================
