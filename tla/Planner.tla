------------------------------ MODULE Planner ------------------------------
(***************************************************************************)
(* From definitions and stored sightings to the rules of a plan: what is   *)
(* admitted of each list, how equal and adjacent rules are merged, which   *)
(* list owns a destination that several offer, and which lists overlap.    *)
(*                                                                         *)
(* A value is a name or a block of addresses.  Names are given with the    *)
(* names they lie under; addresses are numbers of Width bits.  There is    *)
(* one address family: the other differs in its width and bounds only.     *)
(***************************************************************************)
EXTENDS Freshness, Sequences

CONSTANTS Names,            \* names, as numbers
          Zones,            \* each name with the names it lies under, itself included
          Width,            \* bits of an address
          Special,          \* addresses that are no destination: loopback, private, ...
          MinBits,          \* the widest network that may be routed
          MinCommunityBits  \* the widest network a third party may declare

\* The names above a name lie one under the other.
ASSUME NamesAreNested ==
  \A n \in Names : /\ n \in Zones[n]
                   /\ \A z \in Zones[n] : z \in Names /\ Zones[z] \subseteq Zones[n]
                   /\ \A y, z \in Zones[n] : y \in Zones[z] \/ z \in Zones[y]

\* The number of addresses in a network.
Size(bits) == 2^(Width - bits)
ASSUME SizesDouble ==
  /\ Width \in Nat
  /\ Size(Width) = 1 /\ \A bits \in 0 .. Width : Size(bits) \in Nat \ {0}
  /\ \A wide, bits \in 0 .. Width :
       wide < bits => Size(bits) < Size(wide) /\ \E n \in 1 .. Size(wide) : Size(wide) = n * Size(bits)

Addresses == 0 .. Size(0) - 1

Name(kind, n) == [kind |-> kind, at |-> n, bits |-> 0]
Address(a) == [kind |-> "ip", at |-> a, bits |-> Width]
Network(a, bits) == [kind |-> "prefix", at |-> (a \div Size(bits)) * Size(bits), bits |-> bits]

Networks == {Network(a, bits) : a \in Addresses, bits \in 0 .. Width}
Resources == {Name(kind, n) : kind \in {"exact", "suffix"}, n \in Names}
               \cup {Address(a) : a \in Addresses} \cup Networks

IsName(value) == value.kind \in {"exact", "suffix"}

Block(value) == value.at .. value.at + Size(value.bits) - 1

\* What traffic a value steers: an exact name itself, a suffix also everything
\* below it, a block its addresses.
Endpoints(value) ==
  CASE value.kind = "exact" -> {<<"name", value.at>>}
    [] value.kind = "suffix" -> {"name", "below"} \X {n \in Names : value.at \in Zones[n]}
    [] OTHER -> {"address"} \X Block(value)

Routed(rules) == UNION {Endpoints(r) : r \in rules}

-----------------------------------------------------------------------------
(* Admission.                                                              *)

Supports(target, kind) ==
  CASE kind = "exact" -> target.exact
    [] kind = "suffix" -> target.suffix
    [] kind = "ip" -> target.addresses
    [] OTHER -> target.addresses /\ target.prefixes

HoldsSpecial(value) == Block(value) \cap Special # {}
Routable(value) == IsName(value) \/ (value.bits >= MinBits /\ ~ HoldsSpecial(value))

DeclaredTooWide(rule) ==
  rule.kind = "prefix" /\ rule.class = "community" /\ rule.bits < MinCommunityBits
Admissible(rule) == Routable(rule) /\ ~ DeclaredTooWide(rule)

Rule(value, list, component, class, expires) ==
  [kind |-> value.kind, at |-> value.at, bits |-> value.bits, list |-> list,
   component |-> component, class |-> class, expires |-> expires]

NoExpiry == 0

Value(r) == [kind |-> r.kind, at |-> r.at, bits |-> r.bits]

\* The kind of a rule is left out of the text an operator excludes.
Text(r) == IF IsName(r) THEN [kind |-> "name", at |-> r.at, bits |-> 0] ELSE Value(r)

SeedRules(def, target) ==
  {r \in {Rule(s.value, def.list, s.component, s.class, NoExpiry) : s \in def.seeds} :
     r.component \in def.components /\ Admissible(r) /\ Supports(target, r.kind)}

Until(sighting, health, cutoff) ==
  IF IsFresh(sighting, cutoff) THEN sighting.until ELSE health.success + Grace

\* The candidates of a list: sightings that count and are not switched off.
Candidates(def, material, cutoff) ==
  {r \in {Rule(s.value, def.list, s.component, s.class, Until(s, s.health, cutoff)) :
            s \in {t \in material : t.list = def.list /\ Counts(t, t.health, cutoff)}} :
     r.component \in def.components /\ Text(r) \notin def.excluded}

\* A network somebody published as one.  The mark of a shared network would keep
\* it out, but no source of the program sets that mark.
DeclaredNetwork(r) == r.class \in {"official", "community"}

\* Names are read first, so that a component with a name needs neither the
\* addresses it resolves to nor a third party's networks for them.
Accepted(def, material, target, keep, cutoff) ==
  LET usable == {r \in Candidates(def, material, cutoff) : Admissible(r) /\ Supports(target, r.kind)}
      seeds == SeedRules(def, target)
      names == {r \in usable : IsName(r)}
      named == {r.component : r \in names \cup {s \in seeds : IsName(s)}}
      redundant(r) == r.kind = "ip" \/ (r.kind = "prefix" /\ r.class # "official")
  IN  seeds \cup names \cup
        {r \in usable \ names : /\ keep \/ r.component \notin named \/ ~redundant(r)
                                /\ r.kind = "prefix" => DeclaredNetwork(r)}

-----------------------------------------------------------------------------
(* Merging.                                                                *)

Precedence(class) ==
  CASE class = "manual" -> 0 [] class = "official" -> 1 [] class = "community" -> 2 [] OTHER -> 3

Strongest(classes) == CHOOSE c \in classes : \A d \in classes : Precedence(c) <= Precedence(d)

CandidateKey(r) == <<Value(r), r.list, r.component>>

\* One rule for a destination of a component: the strongest class, the latest
\* expiry.
Dedupe(rules) ==
  LET same(k) == {r \in rules : CandidateKey(r) = k}
  IN  {Rule(k[1], k[2], k[3], Strongest({r.class : r \in same(k)}), Latest({r.expires : r \in same(k)})) :
         k \in {CandidateKey(r) : r \in rules}}

\* The fewest blocks that make up exactly these addresses.
CollapseLossless(addresses) ==
  LET inside == {n \in Networks : Block(n) \subseteq addresses}
  IN  {n \in inside : \A m \in inside : Block(n) \subseteq Block(m) => m = n}

\* Each list, component and class is merged for itself.
Collapse(rules) ==
  LET blocks == {r \in rules : ~IsName(r)}
      group(r) == {q \in blocks : <<q.list, q.component, q.class>> = <<r.list, r.component, r.class>>}
      merged(r) ==
        {Rule(IF n.bits = Width THEN Address(n.at) ELSE n, r.list, r.component, r.class,
              Latest({q.expires : q \in {p \in group(r) : Block(p) \subseteq Block(n)}})) :
           n \in CollapseLossless(UNION {Block(q) : q \in group(r)})}
  IN  (rules \ blocks) \cup UNION {merged(r) : r \in blocks}

ListPlan(def, material, target, keep, cutoff) ==
  LET rules == Dedupe(Accepted(def, material, target, keep, cutoff))
  IN  Dedupe(IF target.prefixes THEN Collapse(rules) ELSE rules)

Uncovered(def, rules) ==
  {c \in def.required : \A r \in rules : r.list # def.list \/ r.component # c}

-----------------------------------------------------------------------------
(* Ownership.                                                              *)

\* The values a plan is searched for above a value: the names it lies under, as
\* suffixes, and the wider networks it lies in.
Parents(v) ==
  IF IsName(v)
  THEN {Name("suffix", z) : z \in IF v.kind = "exact" THEN Zones[v.at] ELSE Zones[v.at] \ {v.at}}
  ELSE {Network(v.at, bits) : bits \in 0 .. (IF v.kind = "ip" THEN Width ELSE v.bits - 1)}

Above(v) == {v} \cup Parents(v)

PositionOf(list, order) == CHOOSE i \in 1 .. Len(order) : order[i] = list

Better(a, b, order) == PositionOf(a, order) < PositionOf(b, order)

\* Mutant: a rule goes when any other list covers it.
DropCovered(rules, order) ==
  {r \in rules : \A p \in rules : p.list # r.list => Value(p) \notin Above(Value(r))}

\* Mutant: only equal rules have one owner.
EqualOnly(rules, order) ==
  {r \in rules : \A p \in rules : Better(p.list, r.list, order) => Value(p) # Value(r)}

\* Of equal rules the first list's stays, and a rule goes when a wider one
\* belongs to a list that comes before its own.
ApplyListPriority(rules, order) ==
  {r \in rules : \A p \in rules :
     Better(p.list, r.list, order) => Value(p) \notin Above(Value(r))}

\* Mutant: only equal values are an overlap.
EqualValues(rules) ==
  {{pair[1].list, pair[2].list} :
     pair \in {x \in rules \X rules : x[1].list # x[2].list /\ Value(x[1]) = Value(x[2])}}

\* The pairs of lists that share a destination.
Overlaps(rules) ==
  {{pair[1].list, pair[2].list} :
     pair \in {x \in rules \X rules : x[1].list # x[2].list /\ Value(x[1]) \in Above(Value(x[2]))}}
=============================================================================
