---------------------------- MODULE MCDeliveries ----------------------------
(* An instance of Deliveries for TLC.  Requests, devices, outputs,         *)
(* addresses and identities are only ever compared.                        *)
EXTENDS Deliveries, TLC

CONSTANTS h1, h2, d1, d2, o1, o2, a1, a2, i1

Symmetry ==
  Permutations(Handlers) \cup Permutations(Devices) \cup Permutations(Outputs) \cup Permutations(Addresses)
=============================================================================
