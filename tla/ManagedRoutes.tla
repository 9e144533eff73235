--------------------------- MODULE ManagedRoutes ---------------------------
(***************************************************************************)
(* The exact-route ledger of one route surface (one router endpoint, one   *)
(* catalog target, one interface) and the reconciliation that turns a      *)
(* ledger, one output's wanted routes and an observed route table into a   *)
(* change of the router and the next ledger.                               *)
(*                                                                         *)
(* A ledger is two tables: claims tie an output to a prefix with the       *)
(* labels that explain it, routes say for every claimed prefix whether     *)
(* Routevane created the route on the router and under which description. *)
(* Everything here is a pure operator; RouteDelivery is the machine.       *)
(***************************************************************************)
EXTENDS Naturals, FiniteSets

CONSTANTS Outputs,   \* formats that may be delivered to this surface
          Prefixes,  \* canonical IPv4 prefixes
          Labels     \* provenance labels; their order is the order of Nat

ASSUME LabelsAssumption == Labels \subseteq Nat \ {0} /\ IsFiniteSet(Labels)

(* A route's description: the first label and how many more there are.    *)
(* NoText is the empty description.  Truncation of a long label is left   *)
(* out: labels here are already short.                                    *)
Text == [first : Nat, more : Nat]
NoText == [first |-> 0, more |-> 0]

Claim == [output : Outputs, prefix : Prefixes, labels : SUBSET Labels]
Route == [prefix : Prefixes, text : Text, created : BOOLEAN]
Ledger == [claims : SUBSET Claim, routes : SUBSET Route]
EmptyLedger == [claims |-> {}, routes |-> {}]

FirstLabel(labels) == CHOOSE l \in labels : \A m \in labels : l <= m

(* CompactManagedRouteDescription: two different label sets may well have *)
(* the same compact form.                                                  *)
Compact(labels) ==
  IF labels = {}
    THEN NoText
    ELSE [first |-> FirstLabel(labels), more |-> Cardinality(labels) - 1]

----------------------------------------------------------------------------
(* Reading a ledger.                                                       *)

Claimed(claims) == { c.prefix : c \in claims }
LabelsOf(claims, p) == UNION { c.labels : c \in { d \in claims : d.prefix = p } }
Named(ledger) == { r.prefix : r \in ledger.routes }
CreatedIn(ledger) == { r.prefix : r \in { s \in ledger.routes : s.created } }
RecordedTexts(ledger, p) ==
  { r.text : r \in { s \in ledger.routes : s.prefix = p /\ s.created } }

(* The parts of validateManagedRouteOwnership.                             *)
OneRoutePerPrefix(ledger) ==
  \A r, s \in ledger.routes : r.prefix = s.prefix => r = s
OneClaimPerOutput(ledger) ==
  \A c, d \in ledger.claims : c.output = d.output /\ c.prefix = d.prefix => c = d
RoutesAreClaimed(ledger) == Named(ledger) = Claimed(ledger.claims)
ForeignIsUntitled(ledger) ==
  \A r \in ledger.routes : ~ r.created => r.text = NoText
TextsFollowClaims(ledger) ==
  \A r \in ledger.routes :
    r.created /\ LabelsOf(ledger.claims, r.prefix) # {}
      => r.text = Compact(LabelsOf(ledger.claims, r.prefix))

ValidLedger(ledger) ==
  /\ OneRoutePerPrefix(ledger)
  /\ OneClaimPerOutput(ledger)
  /\ RoutesAreClaimed(ledger)
  /\ ForeignIsUntitled(ledger)
  /\ TextsFollowClaims(ledger)

----------------------------------------------------------------------------
(* reconcileManagedRoutes(prior, o, wanted, seen).  wanted maps the        *)
(* artifact's prefixes to their labels; seen says which prefixes are on    *)
(* the router (at) and under which descriptions (text).                    *)

Wanted == UNION { [P -> SUBSET Labels] : P \in SUBSET Prefixes }
Nothing == [p \in {} |-> {}]
Observation == [at : SUBSET Prefixes, text : [Prefixes -> Text]]

NextClaims(prior, o, wanted) ==
  { c \in prior.claims : c.output # o }
    \cup { [output |-> o, prefix |-> p, labels |-> wanted[p]] : p \in DOMAIN wanted }

(* Faulty variant: the first description a route ever had is kept.         *)
FaultyNextText(prior, claims, p) ==
  IF RecordedTexts(prior, p) # {}
    THEN CHOOSE t \in RecordedTexts(prior, p) : TRUE
    ELSE Compact(LabelsOf(claims, p))

(* A claim without labels must not erase the description already recorded. *)
NextText(prior, claims, p) ==
  IF /\ LabelsOf(claims, p) = {}
     /\ RecordedTexts(prior, p) # {}
    THEN CHOOSE t \in RecordedTexts(prior, p) : TRUE
    ELSE Compact(LabelsOf(claims, p))

(* Faulty variant: a known route counts as created.                        *)
FaultyNextCreated(prior, seen, p) == p \notin seen.at \/ p \in Named(prior)

(* A route is Routevane's when the router lacked it, or when the ledger    *)
(* already says so; being seen without being known never makes it so.      *)
NextCreated(prior, seen, p) == p \notin seen.at \/ p \in CreatedIn(prior)

NextRoutes(prior, claims, seen) ==
  { [prefix |-> p,
     text |-> IF NextCreated(prior, seen, p) THEN NextText(prior, claims, p) ELSE NoText,
     created |-> NextCreated(prior, seen, p)] : p \in Claimed(claims) }

NextLedger(prior, o, wanted, seen) ==
  LET claims == NextClaims(prior, o, wanted)
  IN  [claims |-> claims, routes |-> NextRoutes(prior, claims, seen)]

Upserts(prior, o, wanted, seen) ==
  LET claims == NextClaims(prior, o, wanted)
  IN  { p \in Claimed(claims) :
          \/ p \notin seen.at
          \/ p \in CreatedIn(prior) /\ seen.text[p] # NextText(prior, claims, p) }

(* Faulty variant: another output's claim does not keep the route.         *)
FaultyRemovals(prior, o, wanted, seen) ==
  { p \in CreatedIn(prior) \cap seen.at : p \notin DOMAIN wanted }

Removals(prior, o, wanted, seen) ==
  { p \in CreatedIn(prior) \cap seen.at :
      p \notin Claimed(NextClaims(prior, o, wanted)) }

(* Faulty variants: descriptions or removals are not read back.            *)
VerifiedWithoutTexts(next, removals, seen) ==
  Named(next) \subseteq seen.at /\ removals \cap seen.at = {}
VerifiedWithoutRemovals(next, removals, seen) ==
  /\ Named(next) \subseteq seen.at
  /\ \A r \in next.routes : r.created => seen.text[r.prefix] = r.text

(* verifyManagedRouteMutation: what the read-back must show.               *)
Verified(next, removals, seen) ==
  /\ Named(next) \subseteq seen.at
  /\ \A r \in next.routes : r.created => seen.text[r.prefix] = r.text
  /\ removals \cap seen.at = {}
=============================================================================
