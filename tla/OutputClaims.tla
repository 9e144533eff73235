---------------------------- MODULE OutputClaims ----------------------------
(***************************************************************************)
(* What the exact-route ledger promises to the formats that share a route  *)
(* surface, with the router, the backups and the failures left out: every  *)
(* output has its own set of claims, a delivery replaces one output's      *)
(* claims by what its artifact wants, a removal empties them, and retiring *)
(* the surface empties all of them.  No step touches two outputs' claims   *)
(* except the retirement.  RouteDelivery implements this specification.    *)
(***************************************************************************)
EXTENDS ManagedRoutes

CONSTANT Artifacts   \* for every output, the route sets its files may want

VARIABLE claimed     \* for every output, the prefixes it claims and why

Init == claimed = [o \in Outputs |-> Nothing]

Deliver(o) ==
  \E wanted \in Artifacts[o] : claimed' = [claimed EXCEPT ![o] = wanted]

Withdraw(o) == claimed' = [claimed EXCEPT ![o] = Nothing]

Retire == claimed' = [o \in Outputs |-> Nothing]

Next == Retire \/ \E o \in Outputs : Deliver(o) \/ Withdraw(o)

Spec == Init /\ [][Next]_claimed
=============================================================================
