------------------------- MODULE Composition_proofs -------------------------
(***************************************************************************)
(* Theorems about Composition, for any lists, sightings, formats and       *)
(* requests, any width of an address and any number of changes.            *)
(***************************************************************************)
EXTENDS Composition, FiniteSetTheorems, WellFoundedInduction, TLAPS

-----------------------------------------------------------------------------
(* Numbers.                                                                *)

LEMMA LessFactor ==
  ASSUME NEW n \in Nat \ {0}, NEW q \in Int, NEW m \in Int, q * n < m * n
  PROVE  q < m
OBVIOUS

LEMMA MoreProduct ==
  ASSUME NEW n \in Nat, NEW q \in Int, NEW m \in Int, q <= m
  PROVE  q * n <= m * n
OBVIOUS

LEMMA Quotient ==
  ASSUME NEW a \in Nat, NEW s \in Nat \ {0}
  PROVE  /\ a \div s \in Nat /\ (a \div s) * s \in Nat
         /\ (a \div s) * s <= a /\ a < (a \div s) * s + s
OBVIOUS

LEMMA QuotientIs ==
  ASSUME NEW a \in Nat, NEW s \in Nat \ {0}, NEW q \in Nat, q * s <= a, a < q * s + s
  PROVE  a \div s = q
<1>1. PICK d : d = a \div s
  OBVIOUS
<1>2. d \in Nat /\ d * s <= a /\ a < d * s + s
  BY <1>1, Quotient
<1>3. (q + 1) * s = q * s + s /\ (d + 1) * s = d * s + s /\ q * s \in Nat /\ d * s \in Nat
  BY <1>2
<1>4. q * s < (d + 1) * s /\ d * s < (q + 1) * s
  BY <1>2, <1>3
<1>5. q < d + 1 /\ d < q + 1
  BY <1>2, <1>4, LessFactor
<1> QED
  BY <1>1, <1>2, <1>5

LEMMA Associate ==
  ASSUME NEW a \in Nat, NEW b \in Nat, NEW c \in Nat
  PROVE  a * (b * c) = (a * b) * c
OBVIOUS

-----------------------------------------------------------------------------
(* Blocks of addresses.                                                    *)

\* A block starts at a multiple of its size.
IsBlock(v) ==
  /\ v.bits \in 0 .. Width /\ v.at \in Nat
  /\ \E q \in Nat : v.at = q * Size(v.bits)

LEMMA SizeIs ==
  ASSUME NEW bits \in 0 .. Width
  PROVE  Size(bits) \in Nat /\ Size(bits) > 0
BY SizesDouble

LEMMA WiderIs ==
  ASSUME NEW bits \in 0 .. Width, NEW wide \in 0 .. bits
  PROVE  /\ Size(bits) <= Size(wide) /\ \E n \in Nat \ {0} : Size(wide) = n * Size(bits)
         /\ wide # bits => Size(bits) < Size(wide)
<1>0. Width \in Nat /\ wide \in 0 .. Width
  BY SizesDouble
<1>1. CASE wide = bits
  <2>1. Size(wide) = 1 * Size(bits)
    BY <1>1, SizeIs
  <2> QED
    BY <1>1, <2>1, SizeIs
<1>2. CASE wide < bits
  BY <1>0, <1>2, SizesDouble, SizeIs
<1> QED
  BY <1>0, <1>1, <1>2

LEMMA NetworkIsBlock ==
  ASSUME NEW a \in Nat, NEW bits \in 0 .. Width
  PROVE  IsBlock(Network(a, bits))
<1>1. PICK s \in Nat \ {0} : s = Size(bits)
  BY SizeIs
<1>2. Network(a, bits).at = (a \div s) * s /\ Network(a, bits).bits = bits
  BY <1>1 DEF Network
<1> QED
  BY <1>1, <1>2, Quotient DEF IsBlock

LEMMA NetworkHolds ==
  ASSUME NEW v, IsBlock(v), NEW wide \in 0 .. v.bits
  PROVE  Block(v) \subseteq Block(Network(v.at, wide))
<1>1. PICK s \in Nat \ {0}, S \in Nat \ {0} : s = Size(v.bits) /\ S = Size(wide)
  BY SizeIs, SizesDouble DEF IsBlock
<1>2. PICK n \in Nat \ {0} : S = n * s
  BY <1>1, WiderIs DEF IsBlock
<1>3. PICK q \in Nat : v.at = q * s
  BY <1>1 DEF IsBlock
<1>4. PICK Q : Q = v.at \div S
  OBVIOUS
<1>5. Q \in Nat /\ Q * S \in Nat /\ Q * S <= v.at /\ v.at < Q * S + S
  BY <1>4, Quotient DEF IsBlock
<1>6. q < Q * n + n
  <2>1. Q * S = (Q * n) * s
    BY <1>2, <1>5, Associate
  <2>2. (Q * n + n) * s = (Q * n) * s + n * s /\ Q * n \in Nat
    BY <1>5
  <2>3. q * s < (Q * n + n) * s
    BY <1>2, <1>3, <1>5, <2>1, <2>2
  <2> QED
    BY <1>5, <2>2, <2>3, LessFactor
<1>7. v.at + s <= Q * S + S
  <2>1. q + 1 <= Q * n + n /\ Q * n \in Nat
    BY <1>5, <1>6
  <2>2. (q + 1) * s <= (Q * n + n) * s
    BY <2>1, MoreProduct
  <2>3. (q + 1) * s = q * s + s /\ (Q * n + n) * s = Q * S + S
    BY <1>2, <1>5, Associate
  <2> QED
    BY <1>3, <2>2, <2>3
<1>8. Network(v.at, wide).at = Q * S /\ Network(v.at, wide).bits = wide
  BY <1>1, <1>4 DEF Network
<1>9. Block(v) = v.at .. v.at + s - 1 /\ Block(Network(v.at, wide)) = Q * S .. Q * S + S - 1
  BY <1>1, <1>8 DEF Block
<1> QED
  BY <1>5, <1>7, <1>9 DEF IsBlock

LEMMA BlockHasItself ==
  ASSUME NEW v, IsBlock(v)
  PROVE  v.at \in Block(v)
BY SizeIs DEF IsBlock, Block

\* Of two blocks that share an address the narrower lies in the wider.
LEMMA BlocksNest ==
  ASSUME NEW v, NEW w, IsBlock(v), IsBlock(w), w.bits <= v.bits, Block(v) \cap Block(w) # {}
  PROVE  Network(v.at, w.bits).at = w.at
<1>1. PICK s \in Nat \ {0}, S \in Nat \ {0} : s = Size(v.bits) /\ S = Size(w.bits)
  BY SizeIs DEF IsBlock
<1>2. PICK n \in Nat \ {0} : S = n * s
  BY <1>1, WiderIs DEF IsBlock
<1>3. PICK q \in Nat, Q \in Nat : v.at = q * s /\ w.at = Q * S
  BY <1>1 DEF IsBlock
<1>4. PICK x : x \in v.at .. v.at + s - 1 /\ x \in w.at .. w.at + S - 1
  BY <1>1 DEF Block
<1>5. x \in Int /\ v.at <= x /\ x < v.at + s /\ w.at <= x /\ x < w.at + S
  BY <1>4 DEF IsBlock
<1>6. w.at <= v.at
  <2>1. w.at = (Q * n) * s /\ Q * n \in Nat /\ (q + 1) * s = q * s + s
    BY <1>2, <1>3, Associate
  <2>2. (Q * n) * s < (q + 1) * s
    BY <1>3, <1>5, <2>1 DEF IsBlock
  <2>3. Q * n < q + 1
    BY <2>1, <2>2, LessFactor
  <2>4. (Q * n) * s <= q * s
    BY <2>1, <2>3, MoreProduct
  <2> QED
    BY <1>3, <2>1, <2>4
<1>7. v.at < w.at + S
  BY <1>5 DEF IsBlock
<1>8. v.at \div S = Q
  BY <1>3, <1>6, <1>7, QuotientIs DEF IsBlock
<1> QED
  BY <1>1, <1>3, <1>8 DEF Network

LEMMA NarrowerIs ==
  ASSUME NEW v, NEW w, IsBlock(v), IsBlock(w), Block(v) \subseteq Block(w)
  PROVE  w.bits <= v.bits
<1>1. PICK s \in Nat \ {0}, S \in Nat \ {0} : s = Size(v.bits) /\ S = Size(w.bits)
  BY SizeIs DEF IsBlock
<1>2. Block(v) = v.at .. v.at + s - 1 /\ Block(w) = w.at .. w.at + S - 1
  BY <1>1 DEF Block
<1>3. v.at \in Block(v) /\ v.at + s - 1 \in Block(v)
  BY <1>2 DEF IsBlock
<1>4. w.at <= v.at /\ v.at + s - 1 <= w.at + S - 1
  BY <1>2, <1>3 DEF IsBlock
<1>5. s <= S
  BY <1>4 DEF IsBlock
<1>6. v.bits < w.bits => S < s
  BY <1>1, WiderIs DEF IsBlock
<1> QED
  BY <1>5, <1>6 DEF IsBlock

LEMMA SameBlock ==
  ASSUME NEW v, NEW w, IsBlock(v), IsBlock(w), Block(v) \subseteq Block(w), v.bits = w.bits
  PROVE  v.at = w.at
<1>1. PICK s \in Nat \ {0} : s = Size(v.bits)
  BY SizeIs DEF IsBlock
<1>2. Block(v) = v.at .. v.at + s - 1 /\ Block(w) = w.at .. w.at + s - 1
  BY <1>1 DEF Block
<1>3. v.at \in Block(v) /\ v.at + s - 1 \in Block(v)
  BY <1>2 DEF IsBlock
<1> QED
  BY <1>2, <1>3 DEF IsBlock

-----------------------------------------------------------------------------
(* Values and what they steer.                                             *)

IsNamed(v) == IsName(v) /\ v.at \in Names /\ v.bits = 0
IsPlace(v) == /\ ~IsName(v) /\ IsBlock(v) /\ v.at \in Addresses
              /\ v.kind = "ip" => v.bits = Width
              /\ v.kind \in {"ip", "prefix"}

LEMMA AddressesAre ==
  ASSUME NEW a \in Addresses
  PROVE  a \in Nat /\ a < Size(0)
<1>1. 0 \in 0 .. Width /\ Size(0) \in Nat
  BY SizesDouble
<1> QED
  BY <1>1 DEF Addresses

LEMMA NetworkIs ==
  ASSUME NEW a \in Addresses, NEW bits \in 0 .. Width
  PROVE  /\ IsPlace(Network(a, bits)) /\ Network(a, bits).kind = "prefix" /\ Network(a, bits).bits = bits
         /\ Network(a, bits) \in Networks /\ Network(a, bits) \in Resources
<1>1. a \in Nat /\ a < Size(0) /\ Size(0) \in Nat
  BY AddressesAre, SizesDouble
<1>2. IsBlock(Network(a, bits))
  BY <1>1, NetworkIsBlock
<1>3. PICK s \in Nat \ {0} : s = Size(bits)
  BY SizeIs
<1>4. Network(a, bits).at = (a \div s) * s /\ Network(a, bits).kind = "prefix" /\ Network(a, bits).bits = bits
  BY <1>3 DEF Network
<1>5. Network(a, bits).at \in Addresses
  BY <1>1, <1>4, Quotient DEF Addresses
<1>6. Network(a, bits) \in Networks
  BY DEF Networks
<1> QED
  BY <1>2, <1>4, <1>5, <1>6 DEF IsPlace, IsName, Resources

LEMMA AddressIs ==
  ASSUME NEW a \in Addresses
  PROVE  IsPlace(Address(a)) /\ Address(a) \in Resources /\ Block(Address(a)) = {a}
<1>1. a \in Nat
  BY AddressesAre
<1>2. Address(a) = [kind |-> "ip", at |-> a, bits |-> Width] /\ Size(Width) = 1 /\ Width \in Nat
  BY SizesDouble DEF Address
<1>3. a = a * Size(Width)
  BY <1>1, <1>2
<1>4. IsBlock(Address(a))
  BY <1>1, <1>2, <1>3 DEF IsBlock
<1>5. Block(Address(a)) = a .. a + 1 - 1
  BY <1>2 DEF Block
<1> QED
  BY <1>1, <1>2, <1>4, <1>5 DEF IsPlace, IsName, Resources

LEMMA ResourceIs ==
  ASSUME NEW v \in Resources
  PROVE  /\ v = [kind |-> v.kind, at |-> v.at, bits |-> v.bits]
         /\ IsNamed(v) \/ IsPlace(v)
         /\ v.kind = "prefix" => v \in Networks
<1>1. CASE v \in {Name(kind, n) : kind \in {"exact", "suffix"}, n \in Names}
  BY <1>1 DEF Name, IsNamed, IsName
<1>2. CASE v \in {Address(a) : a \in Addresses}
  <2>1. PICK a \in Addresses : v = Address(a)
    BY <1>2
  <2> QED
    BY <2>1, AddressIs DEF Address
<1>3. CASE v \in Networks
  <2>1. PICK a \in Addresses, bits \in 0 .. Width : v = Network(a, bits)
    BY <1>3 DEF Networks
  <2> QED
    BY <2>1, NetworkIs DEF Network
<1> QED
  BY <1>1, <1>2, <1>3 DEF Resources

\* Rules, and values, that say the same steer the same.
LEMMA SteeredByValue ==
  ASSUME NEW r
  PROVE  /\ Endpoints(Value(r)) = Endpoints(r) /\ Block(Value(r)) = Block(r) /\ IsName(Value(r)) = IsName(r)
         /\ Value(r).kind = r.kind /\ Value(r).at = r.at /\ Value(r).bits = r.bits
         /\ IsPlace(Value(r)) = IsPlace(r) /\ IsNamed(Value(r)) = IsNamed(r)
<1>1. PICK kind, at, bits : kind = r.kind /\ at = r.at /\ bits = r.bits
  OBVIOUS
<1>2. Value(r) = [kind |-> kind, at |-> at, bits |-> bits]
  BY <1>1 DEF Value
<1>3. Value(r).kind = r.kind /\ Value(r).at = r.at /\ Value(r).bits = r.bits
  BY <1>1, <1>2
<1>4. Block(Value(r)) = Block(r) /\ IsName(Value(r)) = IsName(r)
  BY <1>3 DEF Block, IsName
<1> QED
  BY <1>3, <1>4, Zenon DEF Endpoints, IsPlace, IsNamed, IsBlock

LEMMA PlaceSteers ==
  ASSUME NEW v, IsPlace(v)
  PROVE  Endpoints(v) = {"address"} \X Block(v)
BY DEF IsPlace, IsName, Endpoints

LEMMA ExactSteers ==
  ASSUME NEW v, v.kind = "exact"
  PROVE  Endpoints(v) = {<<"name", v.at>>}
BY DEF Endpoints

LEMMA SuffixSteers ==
  ASSUME NEW v, v.kind = "suffix"
  PROVE  Endpoints(v) = {"name", "below"} \X {n \in Names : v.at \in Zones[n]}
BY DEF Endpoints

\* What lies above a value steers what the value steers.
LEMMA AboveSteers ==
  ASSUME NEW v \in Resources, NEW w \in Resources, w \in Above(v)
  PROVE  Endpoints(v) \subseteq Endpoints(w)
<1>1. CASE w = v
  BY <1>1
<1>2. CASE IsNamed(v) /\ w # v
  <2>1. IsName(v) /\ v.at \in Names
    BY <1>2 DEF IsNamed
  <2>2. PICK z \in Zones[v.at] : w = Name("suffix", z)
    BY <1>2, <2>1 DEF Above, Parents
  <2>3. w.kind = "suffix" /\ w.at = z
    BY <2>2 DEF Name
  <2>4. Endpoints(w) = {"name", "below"} \X {n \in Names : z \in Zones[n]}
    BY <2>3, SuffixSteers
  <2>5. CASE v.kind = "exact"
    BY <2>1, <2>2, <2>4, <2>5, ExactSteers
  <2>6. CASE v.kind = "suffix"
    <3>1. \A n \in Names : v.at \in Zones[n] => z \in Zones[n]
      BY <2>1, <2>2, NamesAreNested
    <3> QED
      BY <2>4, <2>6, <3>1, SuffixSteers
  <2> QED
    BY <2>1, <2>5, <2>6 DEF IsName
<1>3. CASE IsPlace(v) /\ w # v
  <2>1. PICK bits \in 0 .. v.bits : w = Network(v.at, bits)
    <3>1. PICK bits \in 0 .. (IF v.kind = "ip" THEN Width ELSE v.bits - 1) : w = Network(v.at, bits)
      BY <1>3 DEF Above, Parents, IsPlace
    <3>2. v.bits \in 0 .. Width /\ Width \in Nat
      BY <1>3, SizesDouble DEF IsPlace, IsBlock
    <3>3. bits \in 0 .. v.bits
      BY <1>3, <3>1, <3>2 DEF IsPlace
    <3> QED
      BY <3>1, <3>3
  <2>2. Block(v) \subseteq Block(w)
    BY <1>3, <2>1, NetworkHolds DEF IsPlace
  <2>3. IsPlace(w)
    <3>1. v.bits \in 0 .. Width /\ Width \in Nat
      BY <1>3, SizesDouble DEF IsPlace, IsBlock
    <3>2. bits \in 0 .. Width
      BY <2>1, <3>1
    <3> QED
      BY <1>3, <2>1, <3>2, NetworkIs DEF IsPlace
  <2> QED
    BY <1>3, <2>2, <2>3, PlaceSteers
<1> QED
  BY <1>1, <1>2, <1>3, ResourceIs

\* A single address is written as one, not as a network.
Slim(v) == v.kind = "prefix" => v.bits < Width

\* And what steers all that a value steers lies above it.
LEMMA SteersAbove ==
  ASSUME NEW v \in Resources, NEW w \in Resources, Endpoints(v) \subseteq Endpoints(w), Slim(v)
  PROVE  w \in Above(v)
<1>1. CASE IsPlace(v) /\ IsPlace(w)
  <2>1. Block(v) \subseteq Block(w)
    <3>1. {"address"} \X Block(v) \subseteq {"address"} \X Block(w)
      BY <1>1, PlaceSteers
    <3>2. ASSUME NEW x \in Block(v) PROVE x \in Block(w)
      <4>1. <<"address", x>> \in {"address"} \X Block(w)
        BY <3>1
      <4> QED
        BY <4>1
    <3> QED
      BY <3>2
  <2>2. IsBlock(v) /\ IsBlock(w) /\ w.bits \in 0 .. Width /\ v.bits \in 0 .. Width /\ Width \in Nat
    BY <1>1, SizesDouble DEF IsPlace, IsBlock
  <2>3. w.bits <= v.bits
    BY <2>1, <2>2, NarrowerIs
  <2>4. Network(v.at, w.bits).at = w.at
    BY <2>1, <2>2, <2>3, BlockHasItself, BlocksNest
  <2>5. Network(v.at, w.bits) = [kind |-> "prefix", at |-> w.at, bits |-> w.bits]
    BY <2>4 DEF Network
  <2>6. v = [kind |-> v.kind, at |-> v.at, bits |-> v.bits] /\ w = [kind |-> w.kind, at |-> w.at, bits |-> w.bits]
    BY ResourceIs
  <2>7. CASE w.kind = "ip"
    <3>1. w.bits = Width /\ v.bits = Width
      BY <1>1, <2>2, <2>3, <2>7 DEF IsPlace
    <3>2. v.kind = "ip"
      BY <1>1, <2>2, <3>1 DEF IsPlace, Slim
    <3>3. v.at = w.at
      BY <2>1, <2>2, <3>1, SameBlock
    <3> QED
      BY <2>6, <2>7, <3>1, <3>2, <3>3 DEF Above
  <2>8. CASE w.kind = "prefix"
    <3>1. w = Network(v.at, w.bits)
      BY <2>5, <2>6, <2>8
    <3>2. CASE v.kind = "ip" \/ w.bits < v.bits
      <4>1. w.bits \in 0 .. (IF v.kind = "ip" THEN Width ELSE v.bits - 1)
        BY <2>2, <3>2
      <4> QED
        BY <1>1, <3>1, <4>1 DEF Above, Parents, IsPlace
    <3>3. CASE v.kind = "prefix" /\ w.bits = v.bits
      <4>1. v.at = w.at
        BY <2>1, <2>2, <3>3, SameBlock
      <4> QED
        BY <2>6, <2>8, <3>3, <4>1 DEF Above
    <3> QED
      BY <1>1, <2>2, <2>3, <3>2, <3>3 DEF IsPlace
  <2> QED
    BY <1>1, <2>7, <2>8 DEF IsPlace
<1>2. CASE IsNamed(v) /\ IsNamed(w)
  <2>1. v = [kind |-> v.kind, at |-> v.at, bits |-> 0] /\ w = [kind |-> w.kind, at |-> w.at, bits |-> 0]
    BY <1>2, ResourceIs DEF IsNamed
  <2>2. v.kind \in {"exact", "suffix"} /\ w.kind \in {"exact", "suffix"} /\ v.at \in Names /\ w.at \in Names
    BY <1>2 DEF IsNamed, IsName
  <2>3. <<"name", v.at>> \in Endpoints(v)
    BY <2>2, ExactSteers, SuffixSteers, NamesAreNested
  <2>4. CASE w.kind = "exact"
    <3>1. Endpoints(w) = {<<"name", w.at>>}
      BY <2>4, ExactSteers
    <3>2. v.at = w.at
      BY <2>3, <3>1
    <3>3. v.kind = "suffix" => <<"below", v.at>> \in Endpoints(v)
      BY <2>2, SuffixSteers, NamesAreNested
    <3>4. v.kind # "suffix"
      BY <3>1, <3>3
    <3> QED
      BY <2>1, <2>2, <2>4, <3>2, <3>4 DEF Above
  <2>5. CASE w.kind = "suffix"
    <3>1. w.at \in Zones[v.at]
      BY <2>3, <2>5, SuffixSteers
    <3>2. w = Name("suffix", w.at)
      BY <2>1, <2>5 DEF Name
    <3>3. CASE v.kind = "exact" \/ w.at # v.at
      <4>1. w.at \in (IF v.kind = "exact" THEN Zones[v.at] ELSE Zones[v.at] \ {v.at})
        BY <3>1, <3>3
      <4> QED
        BY <1>2, <3>2, <4>1 DEF Above, Parents, IsNamed
    <3>4. CASE v.kind = "suffix" /\ w.at = v.at
      BY <2>1, <2>5, <3>4 DEF Above
    <3> QED
      BY <2>2, <3>3, <3>4
  <2> QED
    BY <2>2, <2>4, <2>5
<1>3. CASE IsPlace(v) /\ IsNamed(w)
  <2>1. <<"address", v.at>> \in Endpoints(v)
    BY <1>3, PlaceSteers, BlockHasItself DEF IsPlace
  <2>2. w.kind \in {"exact", "suffix"}
    BY <1>3 DEF IsNamed, IsName
  <2>3. \A x \in Endpoints(w) : x[1] # "address"
    BY <2>2, ExactSteers, SuffixSteers
  <2> QED
    BY <2>1, <2>3
<1>4. CASE IsNamed(v) /\ IsPlace(w)
  <2>1. v.kind \in {"exact", "suffix"} /\ v.at \in Names
    BY <1>4 DEF IsNamed, IsName
  <2>2. <<"name", v.at>> \in Endpoints(v)
    BY <2>1, ExactSteers, SuffixSteers, NamesAreNested
  <2>3. \A x \in Endpoints(w) : x[1] = "address"
    BY <1>4, PlaceSteers
  <2> QED
    BY <2>2, <2>3
<1> QED
  BY <1>1, <1>2, <1>3, <1>4, ResourceIs

-----------------------------------------------------------------------------
(* Merging keeps what rules steer.                                         *)

LEMMA LeastNumber ==
  ASSUME NEW S, S \subseteq Nat, S # {}
  PROVE  \E m \in S : \A n \in S : m <= n
<1>1. PICK m \in S : \A n \in S : ~ (<<n, m>> \in OpToRel(<, Nat))
  BY WFMin, NatLessThanWellFounded, Zenon
<1>2. ASSUME NEW n \in S PROVE m <= n
  <2>1. m \in Nat /\ n \in Nat
    OBVIOUS
  <2>2. ~ (n < m)
    BY <1>1, <2>1 DEF OpToRel
  <2> QED
    BY <2>1, <2>2
<1> QED
  BY <1>2

LEMMA RuleIs ==
  ASSUME NEW v, NEW list, NEW component, NEW class, NEW expires, NEW r, r = Rule(v, list, component, class, expires)
  PROVE  /\ r.kind = v.kind /\ r.at = v.at /\ r.bits = v.bits
         /\ r.list = list /\ r.component = component /\ r.class = class /\ r.expires = expires
         /\ Value(r) = [kind |-> v.kind, at |-> v.at, bits |-> v.bits]
BY DEF Rule, Value

\* The rules of a plan are about values that are written one way.
Proper(rules) == \A r \in rules : Value(r) \in Resources

LEMMA ProperIs ==
  ASSUME NEW rules, Proper(rules), NEW r \in rules
  PROVE  /\ Value(r) \in Resources /\ Value(r) = [kind |-> r.kind, at |-> r.at, bits |-> r.bits]
         /\ IsNamed(r) \/ IsPlace(r)
BY ResourceIs, SteeredByValue DEF Proper, Value

LEMMA KeySays ==
  ASSUME NEW p, NEW r, CandidateKey(p) = CandidateKey(r)
  PROVE  Value(p) = Value(r) /\ p.list = r.list /\ p.component = r.component
<1>1. PICK a, b, c, d, e, f : a = Value(p) /\ b = p.list /\ c = p.component /\ d = Value(r) /\ e = r.list /\ f = r.component
  OBVIOUS
<1>2. <<a, b, c>> = <<d, e, f>>
  BY <1>1 DEF CandidateKey
<1>3. a = d /\ b = e /\ c = f
  BY <1>2
<1> QED
  BY <1>1, <1>3

LEMMA DedupeIs ==
  ASSUME NEW rules
  PROVE  /\ \A d \in Dedupe(rules) : \E r \in rules : CandidateKey(d) = CandidateKey(r)
         /\ \A r \in rules : \E d \in Dedupe(rules) : CandidateKey(d) = CandidateKey(r)
         /\ \A d, e \in Dedupe(rules) : CandidateKey(d) = CandidateKey(e) => d = e
<1> DEFINE same(k) == {r \in rules : CandidateKey(r) = k}
           of(k) == Rule(k[1], k[2], k[3], Strongest({r.class : r \in same(k)}), Latest({r.expires : r \in same(k)}))
           keys == {CandidateKey(r) : r \in rules}
<1>1. Dedupe(rules) = {of(k) : k \in keys}
  BY Zenon DEF Dedupe
<1>2. ASSUME NEW r \in rules PROVE CandidateKey(of(CandidateKey(r))) = CandidateKey(r)
  <2>1. PICK k : k = CandidateKey(r)
    OBVIOUS
  <2>2. k = <<Value(r), r.list, r.component>>
    BY <2>1 DEF CandidateKey
  <2>3. PICK class, expires : class = Strongest({q.class : q \in same(k)}) /\ expires = Latest({q.expires : q \in same(k)})
    OBVIOUS
  <2>4. PICK d : d = Rule(k[1], k[2], k[3], class, expires)
    OBVIOUS
  <2>5. d = of(k)
    BY <2>3, <2>4
  <2>6. PICK v : v = Value(r)
    OBVIOUS
  <2>7. k[1] = v /\ k[2] = r.list /\ k[3] = r.component
    BY <2>2, <2>6
  <2>8. Value(d) = [kind |-> v.kind, at |-> v.at, bits |-> v.bits] /\ d.list = r.list /\ d.component = r.component
    BY <2>4, <2>7, RuleIs
  <2>9. Value(d) = Value(r)
    BY <2>6, <2>8 DEF Value
  <2>10. CandidateKey(d) = CandidateKey(r)
    BY <2>8, <2>9 DEF CandidateKey
  <2> HIDE DEF of
  <2> QED
    BY <2>1, <2>5, <2>10
<1> HIDE DEF of
<1>3. \A d \in Dedupe(rules) : \E r \in rules : d = of(CandidateKey(r))
  BY <1>1
<1>4. \A r \in rules : of(CandidateKey(r)) \in Dedupe(rules)
  BY <1>1
<1> HIDE DEF keys
<1>5. \A d \in Dedupe(rules) : \E r \in rules : CandidateKey(d) = CandidateKey(r)
  BY <1>2, <1>3
<1>6. \A r \in rules : \E d \in Dedupe(rules) : CandidateKey(d) = CandidateKey(r)
  BY <1>2, <1>4
<1>7. \A d, e \in Dedupe(rules) : CandidateKey(d) = CandidateKey(e) => d = e
  BY <1>2, <1>3
<1> QED
  BY <1>5, <1>6, <1>7

LEMMA RoutedIs ==
  ASSUME NEW rules
  PROVE  \A x : x \in Routed(rules) <=> \E r \in rules : x \in Endpoints(r)
BY DEF Routed

LEMMA DedupeSteers ==
  ASSUME NEW rules
  PROVE  Routed(Dedupe(rules)) = Routed(rules) /\ (Proper(rules) => Proper(Dedupe(rules)))
<1>1. \A d \in Dedupe(rules) : \E r \in rules : Value(d) = Value(r)
  BY DedupeIs, KeySays
<1>2. \A r \in rules : \E d \in Dedupe(rules) : Value(d) = Value(r)
  BY DedupeIs, KeySays
<1>3. \A p, r : Value(p) = Value(r) => Endpoints(p) = Endpoints(r)
  BY SteeredByValue
<1>4. \A x : x \in Routed(Dedupe(rules)) <=> x \in Routed(rules)
  BY <1>1, <1>2, <1>3, RoutedIs
<1> QED
  BY <1>1, <1>4 DEF Proper

\* Every network lies in one of the fewest.
LEMMA FewestCover ==
  ASSUME NEW addresses, NEW n \in Networks, Block(n) \subseteq addresses
  PROVE  \E m \in CollapseLossless(addresses) : Block(n) \subseteq Block(m)
<1> DEFINE inside == {m \in Networks : Block(m) \subseteq addresses}
           over == {m \in inside : Block(n) \subseteq Block(m)}
           widths == {m.bits : m \in over}
<1>1. \A m \in Networks : IsBlock(m) /\ m.bits \in Nat /\ m = [kind |-> "prefix", at |-> m.at, bits |-> m.bits]
  <2> TAKE m \in Networks
  <2>1. PICK a \in Addresses, bits \in 0 .. Width : m = Network(a, bits)
    BY DEF Networks
  <2> QED
    BY <2>1, NetworkIs DEF IsPlace, IsBlock, Network
<1>2. widths \subseteq Nat /\ widths # {}
  BY <1>1
<1>3. PICK b \in widths : \A c \in widths : b <= c
  BY <1>2, LeastNumber
<1>4. PICK m \in over : m.bits = b
  BY <1>3
<1>5. ASSUME NEW w \in inside, Block(m) \subseteq Block(w) PROVE w = m
  <2>1. w \in over
    BY <1>4, <1>5
  <2>2. m.bits <= w.bits
    BY <1>3, <1>4, <2>1
  <2>3. w.bits <= m.bits
    BY <1>1, <1>5, NarrowerIs
  <2>4. w.bits = m.bits
    BY <1>1, <2>2, <2>3
  <2>5. w.at = m.at
    BY <1>1, <1>5, <2>4, SameBlock
  <2> QED
    BY <1>1, <2>4, <2>5
<1> QED
  BY <1>4, <1>5 DEF CollapseLossless

LEMMA NetworkOf ==
  ASSUME NEW n \in Networks
  PROVE  /\ IsPlace(n) /\ IsBlock(n) /\ n \in Resources /\ n.at \in Addresses /\ n.bits \in 0 .. Width
         /\ n = [kind |-> "prefix", at |-> n.at, bits |-> n.bits]
<1>1. PICK a \in Addresses, bits \in 0 .. Width : n = Network(a, bits)
  BY DEF Networks
<1> QED
  BY <1>1, NetworkIs DEF Network, IsPlace, IsBlock

\* A block of a single address is written as the address.
Written(n) == IF n.bits = Width THEN Address(n.at) ELSE n

LEMMA WrittenIs ==
  ASSUME NEW n \in Networks
  PROVE  Written(n) \in Resources /\ IsPlace(Written(n)) /\ Slim(Written(n)) /\ Block(Written(n)) = Block(n)
<1>1. CASE n.bits = Width
  <2>1. Written(n) = Address(n.at)
    BY <1>1 DEF Written
  <2>2. Address(n.at).kind = "ip"
    BY DEF Address
  <2>3. Block(n) = n.at .. n.at + 1 - 1 /\ n.at \in Nat
    BY <1>1, NetworkOf, AddressesAre, SizesDouble DEF Block
  <2>4. Block(n) = {n.at}
    BY <2>3
  <2> QED
    BY <2>1, <2>2, <2>4, NetworkOf, AddressIs DEF Slim
<1>2. CASE n.bits # Width
  <2>1. n.bits < Width
    BY <1>2, NetworkOf, SizesDouble
  <2> QED
    BY <1>2, <2>1, NetworkOf DEF Written, Slim
<1> QED
  BY <1>1, <1>2

LEMMA NetworkFor ==
  ASSUME NEW v \in Resources, IsPlace(v)
  PROVE  \E n \in Networks : Block(n) = Block(v)
<1>1. CASE v.kind = "prefix"
  BY <1>1, ResourceIs
<1>2. CASE v.kind = "ip"
  <2>1. v.at \in Addresses /\ v.at \in Nat /\ v.bits = Width /\ Width \in 0 .. Width /\ Size(Width) = 1
    BY <1>2, AddressesAre, SizesDouble DEF IsPlace
  <2>2. PICK n : n = Network(v.at, Width)
    OBVIOUS
  <2>3. n.at = (v.at \div 1) * 1 /\ n.bits = Width
    BY <2>1, <2>2 DEF Network
  <2>4. v.at \div 1 = v.at
    BY <2>1, QuotientIs
  <2>5. n.at = v.at
    BY <2>1, <2>3, <2>4
  <2>6. Block(n) = Block(v)
    BY <2>1, <2>3, <2>5 DEF Block
  <2> QED
    BY <2>1, <2>2, <2>6, NetworkIs
<1> QED
  BY <1>1, <1>2 DEF IsPlace

\* The rules that are merged with a rule, and the addresses they hold.
Group(rules, r) ==
  {q \in {p \in rules : ~IsName(p)} : <<q.list, q.component, q.class>> = <<r.list, r.component, r.class>>}
Ground(rules, r) == UNION {Block(q) : q \in Group(rules, r)}

LEMMA CollapseIs ==
  ASSUME NEW rules, Proper(rules)
  PROVE  /\ \A c \in Collapse(rules) :
              \/ c \in rules /\ IsName(c)
              \/ \E r \in rules, n \in Networks : /\ ~IsName(r) /\ n \in CollapseLossless(Ground(rules, r))
                                                 /\ Value(c) = Written(n) /\ c.list = r.list
                                                 /\ c.component = r.component
         /\ \A r \in rules : IsName(r) => r \in Collapse(rules)
         /\ \A r \in rules : \A n \in CollapseLossless(Ground(rules, r)) :
              ~IsName(r) => \E c \in Collapse(rules) : Value(c) = Written(n) /\ c.list = r.list
<1> DEFINE blocks == {r \in rules : ~IsName(r)}
           latest(r, n) == Latest({q.expires : q \in {p \in Group(rules, r) : Block(p) \subseteq Block(n)}})
           rule(r, n) == Rule(Written(n), r.list, r.component, r.class, latest(r, n))
           merged(r) == {rule(r, n) : n \in CollapseLossless(Ground(rules, r))}
<1>1. Collapse(rules) = (rules \ blocks) \cup UNION {merged(r) : r \in blocks}
  BY Zenon DEF Collapse, Group, Ground, Written
<1>2. ASSUME NEW r, NEW n \in Networks
      PROVE  Value(rule(r, n)) = Written(n) /\ rule(r, n).list = r.list /\ rule(r, n).component = r.component
  <2>1. PICK v : v = Written(n)
    OBVIOUS
  <2>2. v = [kind |-> v.kind, at |-> v.at, bits |-> v.bits]
    BY <2>1, WrittenIs, ResourceIs
  <2>3. PICK e : e = latest(r, n)
    OBVIOUS
  <2>4. PICK c : c = Rule(v, r.list, r.component, r.class, e)
    OBVIOUS
  <2>5. c = rule(r, n)
    BY <2>1, <2>3, <2>4
  <2>6. PICK list, component, class : list = r.list /\ component = r.component /\ class = r.class
    OBVIOUS
  <2>7. c = Rule(v, list, component, class, e)
    BY <2>4, <2>6
  <2>8. Value(c) = [kind |-> v.kind, at |-> v.at, bits |-> v.bits] /\ c.list = list /\ c.component = component
    BY <2>7, RuleIs
  <2>9. Value(c) = v
    BY <2>2, <2>8
  <2> HIDE DEF rule
  <2> QED
    BY <2>1, <2>5, <2>6, <2>8, <2>9
<1>3. \A g : CollapseLossless(g) \subseteq Networks
  BY DEF CollapseLossless
<1> HIDE DEF rule
<1>4. ASSUME NEW c \in UNION {merged(r) : r \in blocks}
      PROVE  \E r \in rules, n \in Networks : /\ ~IsName(r) /\ n \in CollapseLossless(Ground(rules, r))
                                              /\ Value(c) = Written(n) /\ c.list = r.list /\ c.component = r.component
  <2>1. PICK r \in blocks : c \in merged(r)
    BY Zenon
  <2>2. PICK n \in CollapseLossless(Ground(rules, r)) : c = rule(r, n)
    BY <2>1
  <2> QED
    BY <1>2, <1>3, <2>1, <2>2
<1>5. ASSUME NEW r \in blocks, NEW n \in CollapseLossless(Ground(rules, r))
      PROVE  rule(r, n) \in UNION {merged(q) : q \in blocks}
  <2>1. rule(r, n) \in merged(r)
    OBVIOUS
  <2> HIDE DEF merged
  <2> QED
    BY <2>1
<1> HIDE DEF merged
<1>6. \A r \in rules : \A n \in CollapseLossless(Ground(rules, r)) :
        ~IsName(r) => \E c \in Collapse(rules) : Value(c) = Written(n) /\ c.list = r.list
  BY <1>1, <1>2, <1>3, <1>5
<1> QED
  BY <1>1, <1>4, <1>6

LEMMA CollapseSteers ==
  ASSUME NEW rules, Proper(rules)
  PROVE  Routed(Collapse(rules)) = Routed(rules) /\ Proper(Collapse(rules))
<1>1. ASSUME NEW r \in rules, ~IsName(r) PROVE IsPlace(r) /\ Endpoints(r) = {"address"} \X Block(r)
  BY <1>1, ProperIs, PlaceSteers DEF IsNamed
<1>2. ASSUME NEW c \in Collapse(rules) PROVE Value(c) \in Resources /\ Endpoints(c) \subseteq Routed(rules)
  <2>1. CASE c \in rules /\ IsName(c)
    BY <2>1, RoutedIs DEF Proper
  <2>2. CASE \E r \in rules, n \in Networks : /\ ~IsName(r) /\ n \in CollapseLossless(Ground(rules, r))
                                              /\ Value(c) = Written(n)
    <3>1. PICK r \in rules, n \in Networks : /\ ~IsName(r) /\ n \in CollapseLossless(Ground(rules, r))
                                             /\ Value(c) = Written(n)
      BY <2>2
    <3>2. Endpoints(c) = {"address"} \X Block(n)
      BY <3>1, WrittenIs, PlaceSteers, SteeredByValue
    <3>3. Block(n) \subseteq Ground(rules, r)
      BY <3>1 DEF CollapseLossless
    <3>4. ASSUME NEW x \in Endpoints(c) PROVE x \in Routed(rules)
      <4>1. PICK a \in Block(n) : x = <<"address", a>>
        BY <3>2
      <4>2. PICK q \in rules : ~IsName(q) /\ a \in Block(q)
        BY <3>3 DEF Ground, Group
      <4>3. x \in Endpoints(q)
        BY <1>1, <4>1, <4>2
      <4> QED
        BY <4>3, RoutedIs
    <3> QED
      BY <3>1, <3>4, WrittenIs
  <2> QED
    BY <2>1, <2>2, CollapseIs
<1>3. ASSUME NEW r \in rules PROVE Endpoints(r) \subseteq Routed(Collapse(rules))
  <2>1. CASE IsName(r)
    BY <2>1, CollapseIs, RoutedIs
  <2>2. CASE ~IsName(r)
    <3>1. PICK n \in Networks : Block(n) = Block(r)
      BY <1>1, <2>2, ProperIs, SteeredByValue, NetworkFor
    <3>2. Block(r) \subseteq Ground(rules, r)
      BY <2>2 DEF Ground, Group
    <3>3. PICK m \in CollapseLossless(Ground(rules, r)) : Block(n) \subseteq Block(m)
      BY <3>1, <3>2, FewestCover
    <3>4. m \in Networks
      BY <3>3 DEF CollapseLossless
    <3>5. PICK c \in Collapse(rules) : Value(c) = Written(m)
      BY <2>2, <3>3, CollapseIs
    <3>6. Endpoints(c) = {"address"} \X Block(m)
      BY <3>4, <3>5, WrittenIs, PlaceSteers, SteeredByValue
    <3>7. Endpoints(r) \subseteq Endpoints(c)
      BY <1>1, <2>2, <3>1, <3>3, <3>6
    <3> QED
      BY <3>7, RoutedIs
  <2> QED
    BY <2>1, <2>2
<1> QED
  <2>1. \A x : x \in Routed(Collapse(rules)) <=> x \in Routed(rules)
    BY <1>2, <1>3, RoutedIs
  <2> QED
    BY <1>2, <2>1 DEF Proper

-----------------------------------------------------------------------------
(* Giving a destination to one of several lists keeps what rules steer.    *)

LEMMA PositionIs ==
  ASSUME NEW order, Len(order) \in Nat, NEW list \in Entries(order)
  PROVE  PositionOf(list, order) \in 1 .. Len(order) /\ order[PositionOf(list, order)] = list
<1>1. \E i \in 1 .. Len(order) : order[i] = list
  BY DEF Entries
<1> QED
  BY <1>1, Zenon DEF PositionOf

LEMMA PriorityKeeps ==
  ASSUME NEW rules, NEW order, Proper(rules), Len(order) \in Nat, \A r \in rules : r.list \in Entries(order)
  PROVE  ApplyListPriority(rules, order) \subseteq rules /\ Routed(ApplyListPriority(rules, order)) = Routed(rules)
<1>1. ApplyListPriority(rules, order) \subseteq rules
  BY DEF ApplyListPriority
<1>2. \A r \in rules : PositionOf(r.list, order) \in Nat
  BY PositionIs
<1>3. ASSUME NEW x \in Routed(rules) PROVE x \in Routed(ApplyListPriority(rules, order))
  <2> DEFINE steering == {r \in rules : x \in Endpoints(r)}
             places == {PositionOf(r.list, order) : r \in steering}
  <2>1. places \subseteq Nat /\ places # {}
    BY <1>2, RoutedIs
  <2>2. PICK m \in places : \A n \in places : m <= n
    BY <2>1, LeastNumber
  <2>3. PICK r \in steering : PositionOf(r.list, order) = m
    BY <2>2
  <2>4. ASSUME NEW p \in rules, Better(p.list, r.list, order), Value(p) \in Above(Value(r)) PROVE FALSE
    <3>1. Endpoints(r) \subseteq Endpoints(p)
      BY <2>4, AboveSteers, SteeredByValue DEF Proper
    <3>2. p \in steering
      BY <3>1
    <3>3. m <= PositionOf(p.list, order)
      BY <2>2, <3>2
    <3> QED
      BY <1>2, <2>3, <2>4, <3>3 DEF Better
  <2>5. r \in ApplyListPriority(rules, order)
    BY <2>4 DEF ApplyListPriority
  <2> QED
    BY <2>5, RoutedIs
<1>4. \A x : x \in Routed(ApplyListPriority(rules, order)) <=> x \in Routed(rules)
  BY <1>1, <1>3, RoutedIs
<1> QED
  BY <1>1, <1>4

-----------------------------------------------------------------------------
(* What is admitted of a list.                                             *)

\* A definition speaks of values that are written one way.
DefinitionIs(def) == \A s \in def.seeds : s.value \in Resources

LEMMA RuleValue ==
  ASSUME NEW v \in Resources, NEW list, NEW component, NEW class, NEW expires,
         NEW r, r = Rule(v, list, component, class, expires)
  PROVE  Value(r) = v /\ r.list = list
BY RuleIs, ResourceIs

LEMMA AcceptedIs ==
  ASSUME NEW def, NEW given, NEW to, NEW kept, NEW cutoff, DefinitionIs(def), \A s \in given : s.value \in Resources
  PROVE  \A r \in Accepted(def, given, to, kept, cutoff) : Value(r) \in Resources /\ r.list = def.list
<1>1. ASSUME NEW r \in SeedRules(def, to) PROVE Value(r) \in Resources /\ r.list = def.list
  <2>1. PICK s \in def.seeds : r = Rule(s.value, def.list, s.component, s.class, NoExpiry)
    BY DEF SeedRules
  <2> QED
    BY <2>1, RuleValue DEF DefinitionIs
<1>2. ASSUME NEW r \in Candidates(def, given, cutoff) PROVE Value(r) \in Resources /\ r.list = def.list
  <2>1. PICK s \in given : r = Rule(s.value, def.list, s.component, s.class, Until(s, s.health, cutoff))
    BY DEF Candidates
  <2>2. PICK e : e = Until(s, s.health, cutoff)
    OBVIOUS
  <2> QED
    BY <2>1, <2>2, RuleValue
<1>3. Accepted(def, given, to, kept, cutoff) \subseteq SeedRules(def, to) \cup Candidates(def, given, cutoff)
  BY DEF Accepted
<1> QED
  BY <1>1, <1>2, <1>3

LEMMA ListPlanSteers ==
  ASSUME NEW def, NEW given, NEW to, NEW kept, NEW cutoff, DefinitionIs(def), \A s \in given : s.value \in Resources
  PROVE  /\ Routed(ListPlan(def, given, to, kept, cutoff)) = Routed(Accepted(def, given, to, kept, cutoff))
         /\ \A r \in ListPlan(def, given, to, kept, cutoff) : Value(r) \in Resources /\ r.list = def.list
<1>1. PICK accepted : accepted = Accepted(def, given, to, kept, cutoff)
  OBVIOUS
<1>2. PICK rules : rules = Dedupe(accepted)
  OBVIOUS
<1>3. PICK merged : merged = IF to.prefixes THEN Collapse(rules) ELSE rules
  OBVIOUS
<1>4. ListPlan(def, given, to, kept, cutoff) = Dedupe(merged)
  BY <1>1, <1>2, <1>3 DEF ListPlan
<1>5. Proper(accepted) /\ \A r \in accepted : r.list = def.list
  BY <1>1, AcceptedIs DEF Proper
<1>6. Proper(rules) /\ Routed(rules) = Routed(accepted)
  BY <1>2, <1>5, DedupeSteers
<1>7. \A r \in rules : r.list = def.list
  BY <1>2, <1>5, DedupeIs, KeySays
<1>8. Proper(merged) /\ Routed(merged) = Routed(rules)
  BY <1>3, <1>6, CollapseSteers
<1>9. \A r \in merged : r.list = def.list
  BY <1>3, <1>6, <1>7, CollapseIs
<1>10. Proper(Dedupe(merged)) /\ Routed(Dedupe(merged)) = Routed(merged)
  BY <1>8, DedupeSteers
<1>11. \A r \in Dedupe(merged) : r.list = def.list
  BY <1>9, DedupeIs, KeySays
<1> QED
  BY <1>1, <1>4, <1>6, <1>8, <1>10, <1>11 DEF Proper

-----------------------------------------------------------------------------
(* Sets in an order.                                                       *)

\* No two of a set have the same place.
Ranked(set, place) == \A x, y \in set : place[x] \in Nat /\ (place[x] = place[y] => x = y)

Before(set, place, x) == {y \in set : place[y] < place[x]}

LEMMA BeforeIs ==
  ASSUME NEW set, IsFiniteSet(set), NEW place, Ranked(set, place), NEW x \in set
  PROVE  /\ IsFiniteSet(Before(set, place, x))
         /\ Cardinality(Before(set, place, x)) \in 0 .. Cardinality(set) - 1
         /\ Cardinality(set) \in Nat
<1>1. Before(set, place, x) \subseteq set \ {x}
  BY DEF Before, Ranked
<1>2. IsFiniteSet(set \ {x}) /\ Cardinality(set \ {x}) = Cardinality(set) - 1
  BY FS_RemoveElement
<1>3. IsFiniteSet(Before(set, place, x)) /\ Cardinality(Before(set, place, x)) <= Cardinality(set \ {x})
  BY <1>1, <1>2, FS_Subset
<1>4. Cardinality(Before(set, place, x)) \in Nat /\ Cardinality(set) \in Nat
  BY <1>3, FS_CardinalityType
<1> QED
  BY <1>2, <1>3, <1>4

LEMMA BeforeGrows ==
  ASSUME NEW set, IsFiniteSet(set), NEW place, Ranked(set, place), NEW x \in set, NEW y \in set
  PROVE  /\ place[x] < place[y] <=> Cardinality(Before(set, place, x)) < Cardinality(Before(set, place, y))
         /\ Cardinality(Before(set, place, x)) = Cardinality(Before(set, place, y)) => x = y
<1>1. ASSUME NEW a \in set, NEW b \in set, place[a] < place[b]
      PROVE  Cardinality(Before(set, place, a)) < Cardinality(Before(set, place, b))
  <2>1. Before(set, place, a) \cup {a} \subseteq Before(set, place, b) /\ a \notin Before(set, place, a)
    BY <1>1 DEF Before, Ranked
  <2>2. IsFiniteSet(Before(set, place, a)) /\ IsFiniteSet(Before(set, place, b))
    BY BeforeIs
  <2>3. Cardinality(Before(set, place, a) \cup {a}) = Cardinality(Before(set, place, a)) + 1
    BY <2>1, <2>2, FS_AddElement
  <2>4. Cardinality(Before(set, place, a) \cup {a}) <= Cardinality(Before(set, place, b))
    BY <2>1, <2>2, FS_Subset
  <2> QED
    BY <2>3, <2>4, BeforeIs
<1>2. PICK n, m : n = Cardinality(Before(set, place, x)) /\ m = Cardinality(Before(set, place, y))
  OBVIOUS
<1>3. n \in Nat /\ m \in Nat
  BY <1>2, BeforeIs
<1>4. place[x] \in Nat /\ place[y] \in Nat /\ (place[x] = place[y] => x = y)
  BY DEF Ranked
<1>5. (place[x] < place[y] => n < m) /\ (place[y] < place[x] => m < n) /\ (x = y => n = m)
  BY <1>1, <1>2
<1> QED
  BY <1>2, <1>3, <1>4, <1>5

\* Every rank is somebody's.
LEMMA RanksFilled ==
  ASSUME NEW set, IsFiniteSet(set), NEW place, Ranked(set, place), NEW k \in 1 .. Cardinality(set)
  PROVE  \E x \in set : Cardinality(Before(set, place, x)) = k - 1
<1>1. PICK n : n = Cardinality(set)
  OBVIOUS
<1>2. n \in Nat /\ k \in 1 .. n
  BY <1>1, FS_CardinalityType
<1>3. PICK f : f = [x \in set |-> Cardinality(Before(set, place, x))]
  OBVIOUS
<1>4. f \in [set -> 0 .. n - 1]
  BY <1>1, <1>3, BeforeIs
<1>5. \A x, y \in set : f[x] = f[y] => x = y
  BY <1>3, BeforeGrows
<1>6. f \in Injection(set, 0 .. n - 1)
  BY <1>4, <1>5 DEF Injection, IsInjective
<1>7. IsFiniteSet(0 .. n - 1) /\ Cardinality(0 .. n - 1) = n
  BY <1>2, FS_Interval
<1>8. f \in Surjection(set, 0 .. n - 1)
  BY <1>1, <1>6, <1>7, FS_Injection
<1>9. \A t \in 0 .. n - 1 : \E x \in set : f[x] = t
  BY <1>8 DEF Surjection
<1>10. k - 1 \in 0 .. n - 1
  BY <1>2
<1> QED
  BY <1>3, <1>9, <1>10

LEMMA ArrangedIs ==
  ASSUME NEW set, IsFiniteSet(set), NEW place, Ranked(set, place), NEW a, a = Arranged(set, place)
  PROVE  /\ Len(a) = Cardinality(set) /\ Len(a) \in Nat /\ DOMAIN a = 1 .. Len(a)
         /\ \A i \in 1 .. Len(a) : a[i] \in set /\ Cardinality(Before(set, place, a[i])) = i - 1
         /\ Entries(a) = set /\ a \in Seq(set)
         /\ \A i, j \in 1 .. Len(a) : (i < j <=> place[a[i]] < place[a[j]]) /\ (a[i] = a[j] => i = j)
<1>1. PICK n : n = Cardinality(set)
  OBVIOUS
<1>2. n \in Nat
  BY <1>1, FS_CardinalityType
<1> DEFINE placed == {<<place[x], x>> : x \in set}
           below(p) == {q \in placed : q[1] < p[1]}
           at(k) == CHOOSE p \in placed : Cardinality(below(p)) = k - 1
<1>3. a = [k \in 1 .. n |-> at(k)[2]]
  BY <1>1, Zenon DEF Arranged
<1>4. ASSUME NEW x \in set PROVE Cardinality(below(<<place[x], x>>)) = Cardinality(Before(set, place, x))
  <2>1. PICK f, from, to : /\ from = Before(set, place, x) /\ to = below(<<place[x], x>>)
                           /\ f = [y \in from |-> <<place[y], y>>]
    OBVIOUS
  <2>2. f \in [from -> to] /\ \A q \in to : \E y \in from : f[y] = q
    BY <2>1 DEF Before
  <2>3. \A y, z \in from : f[y] = f[z] => y = z
    BY <2>1
  <2>4. f \in Bijection(from, to)
    BY <2>2, <2>3 DEF Bijection, Injection, Surjection, IsInjective
  <2>5. IsFiniteSet(from)
    BY <2>1, BeforeIs
  <2>6. Cardinality(from) = Cardinality(to)
    BY <2>4, <2>5, FS_Bijection DEF ExistsBijection
  <2> QED
    BY <2>1, <2>6
<1>5. \A k \in 1 .. n : a[k] \in set /\ Cardinality(Before(set, place, a[k])) = k - 1
  <2> TAKE k \in 1 .. n
  <2>1. PICK x \in set : Cardinality(Before(set, place, x)) = k - 1
    BY <1>1, RanksFilled
  <2>2. \E p \in placed : Cardinality(below(p)) = k - 1
    BY <1>4, <2>1
  <2>3. at(k) \in placed /\ Cardinality(below(at(k))) = k - 1
    BY <2>2, Zenon
  <2>4. PICK y \in set : at(k) = <<place[y], y>>
    BY <2>3
  <2>5. Cardinality(below(<<place[y], y>>)) = k - 1
    BY <2>3, <2>4, Zenon
  <2>6. a[k] = at(k)[2]
    BY <1>3, Zenon
  <2> HIDE DEF at
  <2>7. a[k] = y
    BY <2>4, <2>6
  <2> HIDE DEF below
  <2>8. Cardinality(Before(set, place, y)) = k - 1
    BY <1>4, <2>5
  <2> QED
    BY <2>7, <2>8
<1> HIDE DEF at
<1>6. a \in Seq(set) /\ Len(a) = n /\ DOMAIN a = 1 .. n
  <2>1. a \in [1 .. n -> set]
    BY <1>3, <1>5
  <2> QED
    BY <1>2, <2>1
<1>7. Entries(a) = set
  <2>1. ASSUME NEW x \in set PROVE x \in Entries(a)
    <3>1. PICK r : r = Cardinality(Before(set, place, x))
      OBVIOUS
    <3>2. r \in 0 .. n - 1
      BY <1>1, <3>1, BeforeIs
    <3>3. r + 1 \in 1 .. n /\ (r + 1) - 1 = r
      BY <1>2, <3>2
    <3>4. a[r + 1] = x
      BY <1>5, <3>1, <3>3, BeforeGrows
    <3> QED
      BY <1>6, <3>3, <3>4 DEF Entries
  <2> QED
    BY <1>5, <1>6, <2>1 DEF Entries
<1>8. \A i, j \in 1 .. n : (i < j <=> place[a[i]] < place[a[j]]) /\ (a[i] = a[j] => i = j)
  <2> TAKE i, j \in 1 .. n
  <2>1. PICK b, c : b = Cardinality(Before(set, place, a[i])) /\ c = Cardinality(Before(set, place, a[j]))
    OBVIOUS
  <2>2. b = i - 1 /\ c = j - 1
    BY <1>5, <2>1
  <2>3. b < c <=> i < j
    BY <1>2, <2>2
  <2>4. (place[a[i]] < place[a[j]] <=> b < c) /\ (a[i] = a[j] => b = c)
    BY <1>5, <2>1, BeforeGrows
  <2>5. b = c => i = j
    BY <1>2, <2>2
  <2> QED
    BY <2>3, <2>4, <2>5
<1> QED
  BY <1>1, <1>2, <1>5, <1>6, <1>7, <1>8

LEMMA IdsAre ==
  ASSUME NEW set, IsFiniteSet(set), set \subseteq Nat
  PROVE  /\ Entries(Ids(set)) = set /\ Ids(set) \in Seq(set)
         /\ Len(Ids(set)) \in Nat /\ DOMAIN Ids(set) = 1 .. Len(Ids(set))
         /\ \A i, j \in 1 .. Len(Ids(set)) : i < j <=> Ids(set)[i] < Ids(set)[j]
<1>1. PICK place : place = [id \in set |-> id]
  OBVIOUS
<1>2. PICK a : a = Arranged(set, place)
  OBVIOUS
<1>3. Ids(set) = a
  BY <1>1, <1>2 DEF Ids
<1>4. Ranked(set, place)
  BY <1>1 DEF Ranked
<1>5. /\ Len(a) \in Nat /\ DOMAIN a = 1 .. Len(a) /\ Entries(a) = set /\ a \in Seq(set)
      /\ \A i \in 1 .. Len(a) : a[i] \in set
      /\ \A i, j \in 1 .. Len(a) : i < j <=> place[a[i]] < place[a[j]]
  BY <1>2, <1>4, ArrangedIs
<1> QED
  BY <1>1, <1>3, <1>5

LEMMA PlaceIs ==
  ASSUME NEW seq, Len(seq) \in Nat, NEW x \in Entries(seq)
  PROVE  Place(seq, x) \in 1 .. Len(seq) /\ seq[Place(seq, x)] = x /\ \A j \in 1 .. Place(seq, x) - 1 : seq[j] # x
<1> DEFINE at == {i \in 1 .. Len(seq) : seq[i] = x}
<1>1. at \subseteq Nat /\ at # {}
  BY DEF Entries
<1>2. PICK m \in at : \A n \in at : m <= n
  BY <1>1, LeastNumber
<1>3. \A j \in 1 .. m - 1 : seq[j] # x
  <2> TAKE j \in 1 .. m - 1
  <2>1. m \in Nat /\ j \in 1 .. Len(seq) /\ j < m
    BY <1>2
  <2>2. j \notin at
    BY <1>2, <2>1
  <2> QED
    BY <2>1, <2>2
<1>4. \E i \in 1 .. Len(seq) : seq[i] = x /\ \A j \in 1 .. i - 1 : seq[j] # x
  BY <1>2, <1>3
<1> QED
  BY <1>4, Zenon DEF Place

\* Where a list comes when an order is merged into what is available.
MergedPlace(stored, available) ==
  [id \in Entries(available) |->
     IF id \in Entries(stored) THEN Place(stored, id) ELSE Len(stored) + Place(available, id)]

LEMMA MergeIs ==
  ASSUME NEW stored, NEW available, Len(stored) \in Nat, Len(available) \in Nat, IsFiniteSet(Entries(available)),
         NEW a, a = MergePriority(stored, available)
  PROVE  /\ Ranked(Entries(available), MergedPlace(stored, available))
         /\ Len(a) \in Nat /\ DOMAIN a = 1 .. Len(a) /\ Entries(a) = Entries(available) /\ a \in Seq(Entries(available))
         /\ Len(a) = Cardinality(Entries(available))
         /\ \A i \in 1 .. Len(a) : a[i] \in Entries(available)
         /\ \A i, j \in 1 .. Len(a) :
              /\ i < j <=> MergedPlace(stored, available)[a[i]] < MergedPlace(stored, available)[a[j]]
              /\ a[i] = a[j] => i = j
<1>1. PICK place : place = MergedPlace(stored, available)
  OBVIOUS
<1>2. ASSUME NEW x \in Entries(available)
      PROVE  /\ x \in Entries(stored) => place[x] \in 1 .. Len(stored) /\ stored[place[x]] = x
             /\ x \notin Entries(stored) => /\ place[x] - Len(stored) \in 1 .. Len(available)
                                            /\ place[x] > Len(stored) /\ place[x] \in Nat
                                            /\ available[place[x] - Len(stored)] = x
  <2>1. CASE x \in Entries(stored)
    BY <1>1, <2>1, PlaceIs DEF MergedPlace
  <2>2. CASE x \notin Entries(stored)
    <3>1. PICK p : p = Place(available, x)
      OBVIOUS
    <3>2. p \in 1 .. Len(available) /\ available[p] = x
      BY <3>1, PlaceIs
    <3>3. place[x] = Len(stored) + p
      BY <1>1, <2>2, <3>1 DEF MergedPlace
    <3>4. place[x] - Len(stored) = p /\ place[x] > Len(stored) /\ place[x] \in Nat
      BY <3>2, <3>3
    <3> QED
      BY <2>2, <3>2, <3>4
  <2> QED
    BY <2>1, <2>2
<1>3. \A x \in Entries(available) : place[x] \in Nat
  BY <1>2
<1>4. ASSUME NEW x \in Entries(available), NEW y \in Entries(available), place[x] = place[y] PROVE x = y
  <2>1. CASE x \in Entries(stored) /\ y \in Entries(stored)
    BY <1>2, <1>4, <2>1
  <2>2. CASE x \notin Entries(stored) /\ y \notin Entries(stored)
    BY <1>2, <1>4, <2>2
  <2>3. CASE x \in Entries(stored) /\ y \notin Entries(stored)
    BY <1>2, <1>4, <2>3
  <2>4. CASE x \notin Entries(stored) /\ y \in Entries(stored)
    BY <1>2, <1>4, <2>4
  <2> QED
    BY <2>1, <2>2, <2>3, <2>4
<1>5. Ranked(Entries(available), place)
  BY <1>3, <1>4 DEF Ranked
<1>6. a = Arranged(Entries(available), place)
  BY <1>1 DEF MergePriority, MergedPlace
<1>7. /\ Len(a) \in Nat /\ DOMAIN a = 1 .. Len(a) /\ Entries(a) = Entries(available) /\ a \in Seq(Entries(available))
      /\ Len(a) = Cardinality(Entries(available))
      /\ \A i \in 1 .. Len(a) : a[i] \in Entries(available)
      /\ \A i, j \in 1 .. Len(a) : (i < j <=> place[a[i]] < place[a[j]]) /\ (a[i] = a[j] => i = j)
  BY <1>5, <1>6, ArrangedIs
<1> QED
  BY <1>1, <1>5, <1>7

-----------------------------------------------------------------------------
(* What is stored of a composition reads back as it was.                   *)

\* A composition in which nothing is ranked twice.
Kept(c) == c \in Compositions /\ IsInjective(c.priority)

LEMMA CompositionIs ==
  ASSUME NEW c \in Compositions
  PROVE  /\ c = [lists |-> c.lists, categories |-> c.categories, exclusions |-> c.exclusions,
                 priority |-> c.priority, domains |-> c.domains]
         /\ c.lists \subseteq Lists /\ c.categories \subseteq {Category} /\ c.exclusions \subseteq Lists
         /\ c.priority \in Seq(Lists) /\ Len(c.priority) \in Nat /\ DOMAIN c.priority = 1 .. Len(c.priority)
         /\ DOMAIN c.domains \subseteq Lists /\ c.domains = [l \in DOMAIN c.domains |-> c.domains[l]]
         /\ \A l \in DOMAIN c.domains : c.domains[l] \subseteq Names
<1>1. c \in [lists : SUBSET Lists, categories : SUBSET {Category}, exclusions : SUBSET Lists, priority : Seq(Lists),
             domains : UNION {[given -> SUBSET Names] : given \in SUBSET Lists}]
  BY DEF Compositions
<1> DEFINE all == UNION {[given -> SUBSET Names] : given \in SUBSET Lists}
<1>2. c.domains \in all /\ c.lists \subseteq Lists /\ c.categories \subseteq {Category} /\ c.exclusions \subseteq Lists
      /\ c.priority \in Seq(Lists)
      /\ c = [lists |-> c.lists, categories |-> c.categories, exclusions |-> c.exclusions,
              priority |-> c.priority, domains |-> c.domains]
  <2> HIDE DEF all
  <2>1. c \in [lists : SUBSET Lists, categories : SUBSET {Category}, exclusions : SUBSET Lists,
              priority : Seq(Lists), domains : all]
    BY <1>1 DEF all
  <2> QED
    BY <2>1
<1>3. PICK given \in SUBSET Lists : c.domains \in [given -> SUBSET Names]
  BY <1>2
<1>4. DOMAIN c.domains \subseteq Lists /\ c.domains = [l \in DOMAIN c.domains |-> c.domains[l]]
      /\ \A l \in DOMAIN c.domains : c.domains[l] \subseteq Names
  BY <1>3
<1> HIDE DEF all
<1>5. Len(c.priority) \in Nat /\ DOMAIN c.priority = 1 .. Len(c.priority)
  BY <1>2
<1> QED
  BY <1>2, <1>4, <1>5

\* The rows of an order.
Positions(order) == {<<i, order[i]>> : i \in DOMAIN order}

LEMMA PositionsRead ==
  ASSUME NEW order \in Seq(Lists)
  PROVE  ByPosition(Positions(order)) = order
<1>1. PICK n : n = Len(order)
  OBVIOUS
<1>2. n \in Nat /\ DOMAIN order = 1 .. n
  BY <1>1
<1>3. PICK pairs : pairs = Positions(order)
  OBVIOUS
<1>4. \A i \in 1 .. n : <<i, order[i]>> \in pairs
  BY <1>2, <1>3 DEF Positions
<1>5. \A x \in pairs : x[1] \in 1 .. n /\ x = <<x[1], order[x[1]]>>
  BY <1>2, <1>3 DEF Positions
<1>6. PICK place : place = [row \in pairs |-> row[1]]
  OBVIOUS
<1>7. Ranked(pairs, place)
  BY <1>2, <1>5, <1>6 DEF Ranked
<1>8. ASSUME NEW m \in 0 .. n, NEW part, part = {x \in pairs : x[1] <= m}
      PROVE  IsFiniteSet(part) /\ Cardinality(part) = m
  <2>1. PICK f : f = [i \in 1 .. m |-> <<i, order[i]>>]
    OBVIOUS
  <2>2. \A i \in 1 .. m : f[i] \in part
    BY <1>2, <1>4, <1>8, <2>1
  <2>3. f \in [1 .. m -> part]
    BY <2>1, <2>2
  <2>4. \A i, j \in 1 .. m : f[i] = f[j] => i = j
    BY <2>1
  <2>5. \A x \in part : x[1] \in 1 .. m /\ f[x[1]] = x
    BY <1>2, <1>5, <1>8, <2>1
  <2>6. f \in Injection(1 .. m, part)
    BY <2>3, <2>4 DEF Injection, IsInjective
  <2>7. f \in Surjection(1 .. m, part)
    BY <2>3, <2>5 DEF Surjection
  <2>8. f \in Bijection(1 .. m, part)
    BY <2>6, <2>7 DEF Bijection
  <2>9. ExistsBijection(1 .. m, part)
    BY <2>8 DEF ExistsBijection
  <2>10. m \in Nat
    BY <1>2
  <2> QED
    BY <2>9, <2>10, FS_CountingElements, FS_NatBijection
<1>9. IsFiniteSet(pairs) /\ Cardinality(pairs) = n
  <2>1. pairs = {x \in pairs : x[1] <= n}
    BY <1>2, <1>5
  <2>2. n \in 0 .. n
    BY <1>2
  <2> QED
    BY <1>8, <2>1, <2>2
<1>10. PICK a : a = Arranged(pairs, place)
  OBVIOUS
<1>11. /\ Len(a) = n /\ DOMAIN a = 1 .. n
       /\ \A i \in 1 .. n : a[i] \in pairs /\ Cardinality(Before(pairs, place, a[i])) = i - 1
  BY <1>7, <1>9, <1>10, ArrangedIs
<1>12. ASSUME NEW i \in 1 .. n PROVE a[i][2] = order[i]
  <2>1. PICK x \in pairs : x = a[i]
    BY <1>11
  <2>2. x[1] \in 1 .. n /\ x = <<x[1], order[x[1]]>>
    BY <1>5
  <2>3. PICK m : m = x[1] - 1
    OBVIOUS
  <2>4. m \in 0 .. n
    BY <1>2, <2>2, <2>3
  <2>5. Before(pairs, place, x) = {y \in pairs : y[1] <= m}
    BY <1>2, <1>5, <1>6, <2>2, <2>3 DEF Before
  <2>6. Cardinality(Before(pairs, place, x)) = m
    BY <1>8, <2>4, <2>5
  <2>7. m = i - 1
    BY <1>11, <2>1, <2>6
  <2>8. x[1] = i
    BY <1>2, <2>2, <2>3, <2>7
  <2> QED
    BY <2>1, <2>2, <2>8
<1>13. ByPosition(pairs) = [i \in 1 .. Len(a) |-> a[i][2]]
  BY <1>6, <1>10 DEF ByPosition
<1>14. order = [i \in 1 .. n |-> order[i]]
  BY <1>2
<1> QED
  BY <1>3, <1>11, <1>12, <1>13, <1>14

\* The rows a composition is stored as.
RowsOf(c) ==
  [lists |-> c.lists, categories |-> c.categories, exclusions |-> c.exclusions,
   priorities |-> Positions(c.priority), domains |-> {<<l, c.domains[l]>> : l \in DOMAIN c.domains}]

LEMMA RowsAre ==
  ASSUME NEW c, NEW table
  PROVE  /\ WriteListDomains(WriteComposition(NoRows, c), c) = RowsOf(c)
         /\ Replaced(table, c) = RowsOf(c)
<1>1. PICK lists, categories, exclusions, positions, domains :
        /\ lists = c.lists /\ categories = c.categories /\ exclusions = c.exclusions
        /\ positions = {<<i, c.priority[i]>> : i \in DOMAIN c.priority}
        /\ domains = {<<l, c.domains[l]>> : l \in DOMAIN c.domains}
  OBVIOUS
<1>2. NoRows = [lists |-> {}, categories |-> {}, exclusions |-> {}, priorities |-> {}, domains |-> {}]
  BY DEF NoRows
<1>3. WriteComposition(NoRows, c) =
        [NoRows EXCEPT !.lists = @ \cup lists, !.categories = @ \cup categories, !.exclusions = @ \cup exclusions,
                       !.priorities = @ \cup positions]
  BY <1>1 DEF WriteComposition
<1>4. WriteComposition(NoRows, c) =
        [lists |-> lists, categories |-> categories, exclusions |-> exclusions, priorities |-> positions, domains |-> {}]
  <2>1. /\ {} \cup lists = lists /\ {} \cup categories = categories
        /\ {} \cup exclusions = exclusions /\ {} \cup positions = positions
    OBVIOUS
  <2>2. PICK a, b, d, e : a = {} \cup lists /\ b = {} \cup categories /\ d = {} \cup exclusions /\ e = {} \cup positions
    OBVIOUS
  <2>3. WriteComposition(NoRows, c) = [NoRows EXCEPT !.lists = a, !.categories = b, !.exclusions = d, !.priorities = e]
    <3>1. NoRows.lists = {} /\ NoRows.categories = {} /\ NoRows.exclusions = {} /\ NoRows.priorities = {}
      BY <1>2
    <3> QED
      BY <1>3, <2>2, <3>1
  <2>4. a = lists /\ b = categories /\ d = exclusions /\ e = positions
    BY <2>1, <2>2
  <2> QED
    BY <1>2, <2>3, <2>4
<1>5. PICK written : written = WriteComposition(NoRows, c)
  OBVIOUS
<1>6. WriteListDomains(written, c) = [written EXCEPT !.domains = @ \cup domains]
  BY <1>1 DEF WriteListDomains
<1>7. WriteListDomains(written, c) =
        [lists |-> lists, categories |-> categories, exclusions |-> exclusions, priorities |-> positions, domains |-> domains]
  BY <1>4, <1>5, <1>6
<1>8. RowsOf(c) =
        [lists |-> lists, categories |-> categories, exclusions |-> exclusions, priorities |-> positions, domains |-> domains]
  BY <1>1 DEF RowsOf, Positions
<1> QED
  BY <1>5, <1>7, <1>8 DEF Replaced, ClearComposition

LEMMA ReadBack ==
  ASSUME NEW c \in Compositions
  PROVE  ReadComposition(RowsOf(c)) = c
<1>1. PICK table : table = RowsOf(c)
  OBVIOUS
<1>2. /\ table.lists = c.lists /\ table.categories = c.categories /\ table.exclusions = c.exclusions
      /\ table.priorities = Positions(c.priority) /\ table.domains = {<<l, c.domains[l]>> : l \in DOMAIN c.domains}
  BY <1>1 DEF RowsOf
<1>4. ByPosition(table.priorities) = c.priority
  BY <1>2, CompositionIs, PositionsRead
<1>5. ReadListDomains(table) = c.domains
  <2> DEFINE from(l) == (CHOOSE row \in table.domains : row[1] = l)[2]
             listed == {row[1] : row \in table.domains}
  <2>1. ReadListDomains(table) = [l \in listed |-> from(l)]
    BY DEF ReadListDomains
  <2>2. listed = DOMAIN c.domains
    <3>1. ASSUME NEW row \in table.domains PROVE row[1] \in DOMAIN c.domains
      BY <1>2
    <3>2. ASSUME NEW l \in DOMAIN c.domains PROVE l \in listed
      <4>1. <<l, c.domains[l]>> \in table.domains /\ <<l, c.domains[l]>>[1] = l
        BY <1>2
      <4> QED
        BY <4>1
    <3> QED
      BY <3>1, <3>2
  <2>3. ASSUME NEW l \in DOMAIN c.domains PROVE from(l) = c.domains[l]
    <3>0. <<l, c.domains[l]>> \in table.domains /\ <<l, c.domains[l]>>[1] = l
      BY <1>2
    <3>1. \E x \in table.domains : x[1] = l
      BY <3>0
    <3>2. PICK row : row = CHOOSE x \in table.domains : x[1] = l
      OBVIOUS
    <3>3. row \in table.domains /\ row[1] = l
      BY <3>1, <3>2, Zenon
    <3>4. row[2] = c.domains[l]
      BY <1>2, <3>3
    <3> QED
      BY <3>2, <3>4
  <2> HIDE DEF from, listed
  <2> QED
    BY <2>1, <2>2, <2>3, CompositionIs
<1> QED
  BY <1>1, <1>2, <1>4, <1>5, CompositionIs DEF ReadComposition

-----------------------------------------------------------------------------
(* The invariant.                                                          *)

\* What is stored is a composition, and nothing speaks of lists, values or
\* sightings there are none of.
IsStored ==
  /\ library \subseteq Lists /\ members \subseteq Lists /\ Len(defaults) \in Nat
  /\ \E c : Kept(c) /\ rows = RowsOf(c)
  /\ \A l \in Lists : verdicts[l].included \subseteq Values
  /\ DOMAIN verdicts = Lists
  /\ \A l \in Lists : verdicts[l] = [excluded |-> verdicts[l].excluded, included |-> verdicts[l].included]
  /\ material \subseteq Pool /\ target \in Targets

\* A build is what is resolved now: every change discards it.
IsCurrent == build = NotBuilt \/ build = Render(PrepareProfile(profile, TRUE))

CompositionInv == IsStored /\ IsCurrent

\* The lists a composition stands for, whatever their order.
Meant(c) == ((c.lists \cup (IF Category \in c.categories THEN members ELSE {})) \ c.exclusions) \cap library

LEMMA MeantIs ==
  ASSUME library \subseteq Lists, NEW c
  PROVE  Meant(c) \subseteq Lists /\ Meant(c) \subseteq Nat /\ IsFiniteSet(Meant(c))
<1>1. Meant(c) \subseteq Lists
  BY DEF Meant
<1> QED
  BY <1>1, WrittenOneWay, FS_Subset

LEMMA ResolvedIs ==
  ASSUME library \subseteq Lists, NEW c, Len(c.priority) \in Nat, NEW order, order = ResolveComposition(c)
  PROVE  /\ Entries(order) = Meant(c) /\ order \in Seq(Lists) /\ Len(order) \in Nat /\ DOMAIN order = 1 .. Len(order)
         /\ \A i, j \in 1 .. Len(order) : order[i] = order[j] => i = j
         /\ \A i, j \in 1 .. Len(order) :
              i < j <=> MergedPlace(c.priority, Ids(Meant(c)))[order[i]] < MergedPlace(c.priority, Ids(Meant(c)))[order[j]]
<1>1. PICK ids : ids = Ids(Meant(c))
  OBVIOUS
<1>2. IsFiniteSet(Meant(c)) /\ Meant(c) \subseteq Lists /\ Meant(c) \subseteq Nat
  BY MeantIs
<1>3. Len(ids) \in Nat /\ Entries(ids) = Meant(c)
  BY <1>1, <1>2, IdsAre
<1>4. order = MergePriority(c.priority, ids)
  BY <1>1 DEF ResolveComposition, Meant
<1>5. /\ Entries(order) = Meant(c) /\ order \in Seq(Meant(c)) /\ Len(order) \in Nat /\ DOMAIN order = 1 .. Len(order)
      /\ \A i, j \in 1 .. Len(order) :
              /\ i < j <=> MergedPlace(c.priority, ids)[order[i]] < MergedPlace(c.priority, ids)[order[j]]
              /\ order[i] = order[j] => i = j
  BY <1>2, <1>3, <1>4, MergeIs
<1>6. order \in Seq(Lists)
  BY <1>2, <1>5
<1> QED
  BY <1>1, <1>5, <1>6

LEMMA StoredIs ==
  ASSUME library \subseteq Lists, NEW c \in Compositions, NEW given, Len(given) \in Nat
  PROVE  Kept(Stored(c, given))
<1>1. PICK plain : plain = NoPriority(c)
  OBVIOUS
<1>2. plain.priority = <<>> /\ Len(plain.priority) \in Nat
  BY <1>1, CompositionIs DEF NoPriority
<1>3. PICK resolved : resolved = ResolveComposition(plain)
  OBVIOUS
<1>4. Len(resolved) \in Nat /\ Entries(resolved) \subseteq Lists /\ IsFiniteSet(Entries(resolved))
  BY <1>2, <1>3, ResolvedIs, MeantIs
<1>5. PICK order : order = MergePriority(given, resolved)
  OBVIOUS
<1>6. order \in Seq(Entries(resolved)) /\ DOMAIN order = 1 .. Len(order)
      /\ \A i, j \in 1 .. Len(order) : order[i] = order[j] => i = j
  BY <1>4, <1>5, MergeIs
<1>7. order \in Seq(Lists) /\ IsInjective(order)
  BY <1>4, <1>6 DEF IsInjective
<1>8. Stored(c, given) = [c EXCEPT !.priority = order]
  BY <1>1, <1>3, <1>5 DEF Stored
<1> DEFINE all == UNION {[ls -> SUBSET Names] : ls \in SUBSET Lists}
<1>9. Compositions = [lists : SUBSET Lists, categories : SUBSET {Category}, exclusions : SUBSET Lists,
                      priority : Seq(Lists), domains : all]
  BY Zenon DEF Compositions
<1> HIDE DEF all
<1>10. [c EXCEPT !.priority = order] \in Compositions /\ [c EXCEPT !.priority = order].priority = order
  BY <1>7, <1>9
<1> QED
  BY <1>7, <1>8, <1>10 DEF Kept

LEMMA DefaultIs ==
  ASSUME library \subseteq Lists, members \subseteq Lists, Len(defaults) \in Nat
  PROVE  Len(DefaultPriority) \in Nat
<1>1. IsFiniteSet(library) /\ library \subseteq Nat /\ IsFiniteSet(members \cap library) /\ members \cap library \subseteq Nat
  BY WrittenOneWay, FS_Subset
<1>2. PICK own, every : own = Ids(members \cap library) /\ every = Ids(library)
  OBVIOUS
<1>3. Len(own) \in Nat /\ Len(every) \in Nat /\ Entries(every) = library
  BY <1>1, <1>2, IdsAre
<1>4. PICK inner : inner = MergePriority(own, every)
  OBVIOUS
<1>5. Len(inner) \in Nat /\ Entries(inner) = library
  BY <1>1, <1>3, <1>4, MergeIs
<1>6. Len(MergePriority(defaults, inner)) \in Nat
  BY <1>1, <1>5, MergeIs
<1> QED
  BY <1>2, <1>4, <1>6 DEF DefaultPriority

LEMMA RequestIs ==
  ASSUME NEW r \in Requests
  PROVE  r \in Compositions /\ Len(r.priority) \in Nat
BY WrittenOneWay, CompositionIs

LEMMA CompositionInit == Init => CompositionInv
<1> SUFFICES ASSUME Init PROVE CompositionInv
  OBVIOUS
<1>1. library \subseteq Lists /\ members \subseteq Lists
  BY DEF Init
<1>2. Len(defaults) \in Nat
  BY DEF Init
<1>3. PICK c \in Requests : rows = Replaced(NoRows, Stored(c, Ids(Lists)))
  BY DEF Init
<1>4. Kept(Stored(c, Ids(Lists)))
  <2>1. Len(Ids(Lists)) \in Nat
    BY WrittenOneWay, IdsAre
  <2> QED
    BY <1>1, <1>2, <1>3, <2>1, RequestIs, StoredIs
<1>5. \E k : Kept(k) /\ rows = RowsOf(k)
  BY <1>3, <1>4, RowsAre
<1>6. /\ \A l \in Lists : verdicts[l].included \subseteq Values
      /\ DOMAIN verdicts = Lists
      /\ \A l \in Lists : verdicts[l] = [excluded |-> verdicts[l].excluded, included |-> verdicts[l].included]
      /\ material \subseteq Pool /\ target \in Targets
  BY DEF Init, NoVerdicts
<1>7. IsStored
  BY <1>1, <1>2, <1>5, <1>6 DEF IsStored
<1>8. IsCurrent
  BY DEF Init, IsCurrent
<1> QED
  BY <1>7, <1>8 DEF CompositionInv

\* Every change discards what was built.
LEMMA EditDiscards == Edit => IsCurrent'
BY DEF Edit, IsCurrent, NotBuilt

\* Nothing but the inputs tells what a build is.
LEMMA SameInputs ==
  ASSUME UNCHANGED inputs
  PROVE  Render(PrepareProfile(profile, TRUE))' = Render(PrepareProfile(profile, TRUE))
<1>1. profile' = profile
  BY DEF inputs, profile
<1>2. \A c : ResolveComposition(c)' = ResolveComposition(c)
  BY DEF inputs, ResolveComposition
<1>3. \A c, l : Effective(c, l)' = Effective(c, l)
  BY DEF inputs, Effective, TunedDefinition
<1>4. \A c, ls : PlanSet(c, ls)' = PlanSet(c, ls)
  BY <1>3 DEF inputs, PlanSet
<1>5. \A c, ls : Incomplete(c, ls)' = Incomplete(c, ls)
  BY <1>3, <1>4 DEF inputs, Incomplete
<1>6. \A r : Refused(r)' <=> Refused(r)
  BY DEF inputs, Refused
<1>13. \A r : ProjectedRuleCount(r)' = ProjectedRuleCount(r)
  BY DEF inputs, ProjectedRuleCount, Projection
<1>14. \A r : Writable(r)' <=> Writable(r)
  BY <1>13 DEF inputs, Writable, Groups, Projection
<1>7. PICK order, all, gaps : /\ order = ResolveComposition(profile) /\ all = PlanSet(profile, Entries(order))
                              /\ gaps = Incomplete(profile, Entries(order))
  OBVIOUS
<1>8. PICK owned : owned = ApplyListPriority(all, order)
  OBVIOUS
<1>9. /\ ResolveComposition(profile)' = order /\ PlanSet(profile, Entries(order))' = all
      /\ Incomplete(profile, Entries(order))' = gaps
  BY <1>1, <1>2, <1>4, <1>5, <1>7
<1>10. PrepareProfile(profile, TRUE) =
         IF order = <<>> THEN Outcome("unlisted", {})
         ELSE IF Entries(order) \ read # {} THEN Outcome("unread", {})
         ELSE IF gaps # {} THEN Outcome("coverage", {})
         ELSE IF Refused(all) \/ Refused(owned) THEN Outcome("refused", {})
         ELSE IF TRUE /\ Exceeds(ProjectedRuleCount(owned)) THEN Outcome("limit", {})
         ELSE Outcome("plan", owned)
  BY <1>7, <1>8 DEF PrepareProfile
<1>11. PrepareProfile(profile, TRUE)' =
         IF order = <<>> THEN Outcome("unlisted", {})
         ELSE IF Entries(order) \ read # {} THEN Outcome("unread", {})
         ELSE IF gaps # {} THEN Outcome("coverage", {})
         ELSE IF Refused(all)' \/ Refused(owned)' THEN Outcome("refused", {})
         ELSE IF TRUE /\ Exceeds(ProjectedRuleCount(owned)) THEN Outcome("limit", {})
         ELSE Outcome("plan", owned)
  BY <1>7, <1>8, <1>9, <1>13 DEF inputs, PrepareProfile, Exceeds
<1>12. PrepareProfile(profile, TRUE)' = PrepareProfile(profile, TRUE)
  <2>1. PICK refused \in BOOLEAN : refused <=> Refused(all) \/ Refused(owned)
    OBVIOUS
  <2>2. refused <=> Refused(all)' \/ Refused(owned)'
    BY <1>6, <2>1
  <2>3. CASE order = <<>>
    BY <1>10, <1>11, <2>3
  <2>4. CASE order # <<>> /\ Entries(order) \ read # {}
    BY <1>10, <1>11, <2>4
  <2>5. CASE order # <<>> /\ Entries(order) \ read = {} /\ gaps # {}
    BY <1>10, <1>11, <2>5
  <2>6. CASE order # <<>> /\ Entries(order) \ read = {} /\ gaps = {} /\ refused
    BY <1>10, <1>11, <2>1, <2>2, <2>6
  <2>7. CASE order # <<>> /\ Entries(order) \ read = {} /\ gaps = {} /\ ~refused
    BY <1>10, <1>11, <2>1, <2>2, <2>7
  <2> QED
    BY <2>1, <2>3, <2>4, <2>5, <2>6, <2>7
<1> QED
  BY <1>12, <1>14 DEF Render

LEMMA RowsWritten ==
  ASSUME CompositionInv, NEW r \in Requests, NEW given, Len(given) \in Nat,
         rows' = RowsOf(Stored(r, given)), Edit,
         UNCHANGED <<target, keep, library, members, defaults, verdicts, material, read>>
  PROVE  CompositionInv'
<1>1. Kept(Stored(r, given))
  BY RequestIs, StoredIs DEF CompositionInv, IsStored
<1>2. \E c : Kept(c) /\ rows' = RowsOf(c)
  BY <1>1
<1>3. IsStored'
  BY <1>2 DEF CompositionInv, IsStored
<1> QED
  BY <1>3, EditDiscards DEF CompositionInv

LEMMA CompositionNext == CompositionInv /\ [Next]_vars => CompositionInv'
<1> SUFFICES ASSUME CompositionInv, [Next]_vars PROVE CompositionInv'
  OBVIOUS
<1>0. /\ library \subseteq Lists /\ members \subseteq Lists /\ Len(defaults) \in Nat
      /\ \A l \in Lists : verdicts[l].included \subseteq Values
      /\ DOMAIN verdicts = Lists
      /\ \A l \in Lists : verdicts[l] = [excluded |-> verdicts[l].excluded, included |-> verdicts[l].included]
      /\ material \subseteq Pool
  BY DEF CompositionInv, IsStored
<1>1. ASSUME NEW r \in Requests, CreateProfile(r) PROVE CompositionInv'
  <2>1. PICK given : given = IF r.priority = <<>> THEN DefaultPriority ELSE r.priority
    OBVIOUS
  <2>2. Len(given) \in Nat
    BY <1>0, <2>1, DefaultIs, RequestIs
  <2>3. rows' = WriteListDomains(WriteComposition(NoRows, Stored(r, given)), Stored(r, given))
    BY <1>1, <2>1 DEF CreateProfile
  <2>4. rows' = RowsOf(Stored(r, given))
    BY <2>3, RowsAre
  <2> QED
    BY <1>1, <2>2, <2>4, RowsWritten DEF CreateProfile
<1>2. ASSUME NEW r \in Requests, SetProfileComposition(r) PROVE CompositionInv'
  <2>1. rows' = Replaced(rows, Stored(r, r.priority))
    BY <1>2 DEF SetProfileComposition
  <2>2. rows' = RowsOf(Stored(r, r.priority))
    BY <2>1, RowsAre
  <2> QED
    BY <1>2, <2>2, RequestIs, RowsWritten DEF SetProfileComposition
<1>3. ASSUME NEW order, SetDefaultPriority(order) PROVE CompositionInv'
  <2>1. IsFiniteSet(library) /\ Cardinality(library) \in Nat
    BY <1>0, WrittenOneWay, FS_Subset, FS_CardinalityType
  <2>2. Len(defaults') \in Nat
    BY <1>3, <2>1 DEF SetDefaultPriority
  <2>3. IsStored'
    BY <1>3, <2>2 DEF SetDefaultPriority, CompositionInv, IsStored
  <2> QED
    BY <1>3, <2>3, EditDiscards DEF CompositionInv, SetDefaultPriority
<1>4. ASSUME NEW l \in Lists, EditCategory(l) PROVE CompositionInv'
  <2>1. members' \subseteq Lists
    BY <1>0, <1>4 DEF EditCategory
  <2>2. IsStored'
    BY <1>4, <2>1 DEF EditCategory, CompositionInv, IsStored
  <2> QED
    BY <1>4, <2>2, EditDiscards DEF CompositionInv, EditCategory
<1>5. ASSUME NEW l \in Lists, CatalogChanges(l) PROVE CompositionInv'
  <2>1. library' \subseteq Lists
    BY <1>0, <1>5 DEF CatalogChanges
  <2>2. IsStored'
    BY <1>5, <2>1 DEF CatalogChanges, CompositionInv, IsStored
  <2> QED
    BY <1>5, <2>2, EditDiscards DEF CompositionInv, CatalogChanges
<1>6. ASSUME NEW l \in Lists, NEW v \in Values, SetVerdict(l, v) PROVE CompositionInv'
  <2>1. PICK off \in BOOLEAN, on \in BOOLEAN :
          verdicts' = [verdicts EXCEPT ![l].excluded = (@ \ {Text(v)}) \cup (IF off THEN {Text(v)} ELSE {}),
                                       ![l].included = (@ \ {v}) \cup (IF on THEN {v} ELSE {})]
    BY <1>6 DEF SetVerdict
  <2>2. PICK out, into : /\ out = (verdicts[l].excluded \ {Text(v)}) \cup (IF off THEN {Text(v)} ELSE {})
                         /\ into = (verdicts[l].included \ {v}) \cup (IF on THEN {v} ELSE {})
    OBVIOUS
  <2>3. into \subseteq Values
    BY <1>0, <2>2
  <2>4. PICK x, i : verdicts[l] = [excluded |-> x, included |-> i]
    BY <1>0
  <2>5. PICK mid : mid = [verdicts EXCEPT ![l].excluded = out]
    OBVIOUS
  <2>6. /\ DOMAIN verdicts' = Lists
        /\ verdicts'[l] = [excluded |-> out, included |-> into]
        /\ \A k \in Lists : k # l => verdicts'[k] = verdicts[k]
    <3>1. PICK a, b, c, d : /\ a = {Text(v)} /\ b = (IF off THEN {Text(v)} ELSE {})
                            /\ c = {v} /\ d = (IF on THEN {v} ELSE {})
      OBVIOUS
    <3>2. verdicts' = [verdicts EXCEPT ![l].excluded = (@ \ a) \cup b, ![l].included = (@ \ c) \cup d]
      BY <2>1, <3>1
    <3>3. out = (x \ a) \cup b /\ into = (i \ c) \cup d
      BY <2>2, <2>4, <3>1
    <3>4. DOMAIN mid = Lists /\ mid[l] = [excluded |-> out, included |-> i]
      BY <1>0, <2>4, <2>5
    <3>5. verdicts[l].excluded = x /\ mid[l].included = i
      BY <2>4, <3>4
    <3>6. verdicts' = [mid EXCEPT ![l].included = into]
      BY <2>5, <3>2, <3>3, <3>5
    <3> QED
      BY <1>0, <2>5, <3>4, <3>6
  <2>7. \A k \in Lists : /\ verdicts'[k].included \subseteq Values
                         /\ verdicts'[k] = [excluded |-> verdicts'[k].excluded, included |-> verdicts'[k].included]
    BY <1>0, <2>3, <2>6
  <2>8. IsStored'
    BY <1>6, <2>6, <2>7 DEF SetVerdict, CompositionInv, IsStored
  <2> QED
    BY <1>6, <2>8, EditDiscards DEF CompositionInv, SetVerdict
<1>7. CASE SetKeepAddresses
  <2>1. IsStored'
    BY <1>7 DEF SetKeepAddresses, CompositionInv, IsStored
  <2> QED
    BY <1>7, <2>1, EditDiscards DEF CompositionInv, SetKeepAddresses
<1>8. ASSUME NEW l \in Lists, Refresh(l) PROVE CompositionInv'
  <2>1. PICK news \in {{}} \cup {{s} : s \in {t \in Pool : t.list = l}} : material' = material \cup news
    BY <1>8 DEF Refresh
  <2>2. material' \subseteq Pool
    BY <1>0, <2>1
  <2>3. IsStored'
    BY <1>8, <2>2 DEF Refresh, CompositionInv, IsStored
  <2> QED
    BY <1>8, <2>3, EditDiscards DEF CompositionInv, Refresh
<1>9. CASE Build
  <2>1. IsStored'
    BY <1>9 DEF Build, inputs, CompositionInv, IsStored
  <2>2. PICK b : b = Render(PrepareProfile(profile, TRUE))
    OBVIOUS
  <2>0. UNCHANGED inputs
    BY <1>9 DEF Build
  <2>3. Render(PrepareProfile(profile, TRUE))' = Render(PrepareProfile(profile, TRUE))
    BY <2>0, SameInputs
  <2>4. IsCurrent'
    BY <1>9, <2>3 DEF Build, IsCurrent
  <2> QED
    BY <2>1, <2>4 DEF CompositionInv
<1>10. CASE UNCHANGED vars
  <2>1. IsStored'
    BY <1>10 DEF vars, inputs, CompositionInv, IsStored
  <2>2. Render(PrepareProfile(profile, TRUE))' = Render(PrepareProfile(profile, TRUE))
    BY <1>10, SameInputs DEF vars
  <2>3. IsCurrent'
    BY <1>10, <2>2 DEF vars, IsCurrent, CompositionInv
  <2> QED
    BY <2>1, <2>3 DEF CompositionInv
<1> QED
  BY <1>1, <1>2, <1>3, <1>4, <1>5, <1>6, <1>7, <1>8, <1>9, <1>10 DEF Next

(* The invariant of profiles: what is stored of one reads back as it was   *)
(* asked for, and a build is of what its profile resolves to now.          *)
THEOREM CompositionInvariance == Spec => []CompositionInv
<1> QED
  BY CompositionInit, CompositionNext, PTL DEF Spec

-----------------------------------------------------------------------------
(* What a plan is made of.                                                 *)

LEMMA ProfileIs ==
  ASSUME CompositionInv
  PROVE  Kept(profile)
<1>1. PICK c : Kept(c) /\ rows = RowsOf(c)
  BY DEF CompositionInv, IsStored
<1>2. profile = c
  BY <1>1, ReadBack DEF profile, Kept
<1> QED
  BY <1>1, <1>2

LEMMA TunedIs ==
  ASSUME IsStored, NEW l \in Lists
  PROVE  TunedDefinition(l).list = l /\ DefinitionIs(TunedDefinition(l))
<1> DEFINE on == {s \in Base[l].seeds : SeedText(s) \notin verdicts[l].excluded}
           added == {Seed(Added, v, Base[l].first, "manual") :
                       v \in {w \in verdicts[l].included : \A s \in on : SeedText(s) # Text(w)}}
<1>1. TunedDefinition(l).list = l /\ TunedDefinition(l).seeds = on \cup added
  BY DEF TunedDefinition
<1>2. \A s \in on : s.value \in Resources
  BY WrittenOneWay
<1>3. \A s \in added : s.value \in Resources
  <2> TAKE s \in added
  <2>1. PICK v \in verdicts[l].included : s = Seed(Added, v, Base[l].first, "manual")
    OBVIOUS
  <2>2. s.value = v /\ v \in Values
    BY <2>1 DEF Seed, IsStored
  <2> QED
    BY <2>2, WrittenOneWay
<1> QED
  BY <1>1, <1>2, <1>3 DEF DefinitionIs

LEMMA EffectiveIs ==
  ASSUME IsStored, NEW c \in Compositions, NEW l \in Lists
  PROVE  Effective(c, l).list = l /\ DefinitionIs(Effective(c, l))
<1>1. CASE l \notin DOMAIN c.domains
  BY <1>1, TunedIs DEF Effective
<1>2. CASE l \in DOMAIN c.domains
  <2>1. PICK def : def = TunedDefinition(l)
    OBVIOUS
  <2>2. def = [list |-> def.list, components |-> def.components, required |-> def.required,
               first |-> def.first, seeds |-> def.seeds, excluded |-> def.excluded]
    BY <2>1 DEF TunedDefinition
  <2>3. PICK names : names = c.domains[l]
    OBVIOUS
  <2>4. names \subseteq Names
    BY <1>2, <2>3, CompositionIs
  <2> DEFINE replaced == {s \in def.seeds : IsName(s.value)}
  <2> DEFINE catalogued == {s \in replaced : s.place # Added}
  <2> DEFINE first == CHOOSE s \in catalogued : \A t \in catalogued : s.place <= t.place
  <2> HIDE DEF first
  <2>5. PICK component : component = IF catalogued = {} THEN def.first ELSE first.component
    OBVIOUS
  <2>6. PICK own : own = {Seed(Added, Name("suffix", n), component, "manual") : n \in names}
    OBVIOUS
  <2>7. WithProfileListDomains(def, names) = [def EXCEPT !.seeds = (@ \ replaced) \cup own]
    BY <2>5, <2>6, Zenon DEF WithProfileListDomains, first
  <2>8. PICK seeds : seeds = (def.seeds \ replaced) \cup own
    OBVIOUS
  <2> HIDE DEF replaced, catalogued
  <2>9. WithProfileListDomains(def, names).list = def.list /\ WithProfileListDomains(def, names).seeds = seeds
    BY <2>2, <2>7, <2>8
  <2>10. \A s \in own : s.value \in Resources
    <3> TAKE s \in own
    <3>1. PICK n \in names : s = Seed(Added, Name("suffix", n), component, "manual")
      BY <2>6
    <3>2. s.value = Name("suffix", n) /\ n \in Names
      BY <2>4, <3>1 DEF Seed
    <3> QED
      BY <3>2 DEF Resources
  <2>11. \A s \in seeds : s.value \in Resources
    BY <2>1, <2>8, <2>10, TunedIs DEF DefinitionIs
  <2>12. Effective(c, l) = WithProfileListDomains(def, names)
    BY <1>2, <2>1, <2>3 DEF Effective
  <2> QED
    BY <2>1, <2>9, <2>11, <2>12, TunedIs DEF DefinitionIs
<1> QED
  BY <1>1, <1>2

\* What is admitted of the lists.
Material(c, lists) ==
  UNION {Routed(Accepted(Effective(c, l), material, target, keep, Cutoff)) : l \in lists}

LEMMA PlanSetIs ==
  ASSUME IsStored, NEW c \in Compositions, NEW lists, lists \subseteq Lists
  PROVE  /\ Proper(PlanSet(c, lists)) /\ Routed(PlanSet(c, lists)) = Material(c, lists)
         /\ \A r \in PlanSet(c, lists) : r.list \in lists
         /\ \A r \in PlanSet(c, lists) : r \in ListPlan(Effective(c, r.list), material, target, keep, Cutoff)
<1> DEFINE plan(l) == ListPlan(Effective(c, l), material, target, keep, Cutoff)
           admitted(l) == Accepted(Effective(c, l), material, target, keep, Cutoff)
<1>1. \A s \in material : s.value \in Resources
  BY WrittenOneWay DEF IsStored
<1>2. ASSUME NEW l \in lists
      PROVE  /\ Routed(plan(l)) = Routed(admitted(l))
             /\ \A r \in plan(l) : Value(r) \in Resources /\ r.list = l
  <2>1. PICK def : def = Effective(c, l)
    OBVIOUS
  <2>2. def.list = l /\ DefinitionIs(def)
    BY <2>1, EffectiveIs
  <2> QED
    BY <1>1, <2>1, <2>2, ListPlanSteers
<1>3. PlanSet(c, lists) = UNION {plan(l) : l \in lists}
  BY DEF PlanSet
<1>4. Material(c, lists) = UNION {Routed(admitted(l)) : l \in lists}
  BY DEF Material
<1> HIDE DEF plan, admitted
<1>5. \A r \in PlanSet(c, lists) : \E l \in lists : r \in plan(l)
  BY <1>3
<1>6. \A l \in lists : plan(l) \subseteq PlanSet(c, lists)
  BY <1>3
<1>7. \A x \in Material(c, lists) : \E l \in lists : x \in Routed(admitted(l))
  BY <1>4
<1>8. \A l \in lists : Routed(admitted(l)) \subseteq Material(c, lists)
  BY <1>4
<1>9. \A x : x \in Routed(PlanSet(c, lists)) <=> x \in Material(c, lists)
  BY <1>2, <1>5, <1>6, <1>7, <1>8, RoutedIs
<1>10. \A r \in PlanSet(c, lists) : r.list \in lists /\ r \in plan(r.list) /\ Value(r) \in Resources
  BY <1>2, <1>5
<1> QED
  BY <1>9, <1>10 DEF Proper, plan

LEMMA OutcomeIs ==
  ASSUME NEW kind, NEW ruled
  PROVE  Outcome(kind, ruled).kind = kind /\ Outcome(kind, ruled).rules = ruled
BY DEF Outcome

\* What a build of the lists in an order would give.
Owned(c) == ApplyListPriority(PlanSet(c, Entries(ResolveComposition(c))), ResolveComposition(c))

LEMMA PreparedIs ==
  ASSUME NEW c, NEW bounded, NEW p, p = PrepareProfile(c, bounded)
  PROVE  /\ p.kind \in {"unlisted", "unread", "coverage", "refused", "limit", "plan"}
         /\ p.kind = "plan" => p.rules = Owned(c) /\ (bounded => ~Exceeds(ProjectedRuleCount(Owned(c))))
         /\ p.kind # "plan" => p.rules = {}
<1>1. PICK order, all, owned : /\ order = ResolveComposition(c) /\ all = PlanSet(c, Entries(order))
                               /\ owned = ApplyListPriority(all, order)
  OBVIOUS
<1>2. PICK unread \in BOOLEAN, gaps \in BOOLEAN, refused \in BOOLEAN, over \in BOOLEAN :
        /\ unread <=> Entries(order) \ read # {}
        /\ gaps <=> Incomplete(c, Entries(order)) # {}
        /\ refused <=> Refused(all) \/ Refused(owned)
        /\ over <=> bounded /\ Exceeds(ProjectedRuleCount(owned))
  OBVIOUS
<1>3. p = IF order = <<>> THEN Outcome("unlisted", {})
          ELSE IF unread THEN Outcome("unread", {})
          ELSE IF gaps THEN Outcome("coverage", {})
          ELSE IF refused THEN Outcome("refused", {})
          ELSE IF over THEN Outcome("limit", {})
          ELSE Outcome("plan", owned)
  BY <1>1, <1>2 DEF PrepareProfile
<1>4. owned = Owned(c)
  BY <1>1 DEF Owned
<1>5. CASE \E kind \in {"unlisted", "unread", "coverage", "refused", "limit"} : p = Outcome(kind, {})
  <2>1. PICK kind \in {"unlisted", "unread", "coverage", "refused", "limit"} : p = Outcome(kind, {})
    BY <1>5
  <2>2. p.kind = kind /\ p.rules = {}
    BY <2>1, OutcomeIs
  <2> QED
    BY <2>1, <2>2
<1>6. CASE p = Outcome("plan", owned) /\ ~over
  <2>1. p.kind = "plan" /\ p.rules = owned
    BY <1>6, OutcomeIs
  <2>2. ~(bounded /\ Exceeds(ProjectedRuleCount(owned)))
    BY <1>2, <1>6
  <2> QED
    BY <1>4, <2>1, <2>2
<1>7. p \in {Outcome("unlisted", {}), Outcome("unread", {}), Outcome("coverage", {}), Outcome("refused", {}),
              Outcome("limit", {})}
        \/ (p = Outcome("plan", owned) /\ ~over)
  BY <1>3
<1> QED
  BY <1>5, <1>6, <1>7

LEMMA BuiltIs ==
  ASSUME CompositionInv
  PROVE  /\ build.kind = "plan" => build.rules = Owned(profile) /\ build.rules # {}
         /\ build.kind # "plan" => build.rules = {}
<1>1. CASE build = NotBuilt
  BY <1>1, OutcomeIs DEF NotBuilt
<1>2. CASE build = Render(PrepareProfile(profile, TRUE))
  <2>1. PICK p : p = PrepareProfile(profile, TRUE)
    OBVIOUS
  <2>2. build = p \/ build = Outcome("empty", {}) \/ build = Outcome("unwritable", {})
    BY <1>2, <2>1 DEF Render
  <2>3. p.kind = "plan" /\ p.rules = {} => build.kind = "empty"
    <3>1. p.kind = "plan" /\ p.rules = {} => build = Outcome("empty", {})
      BY <1>2, <2>1 DEF Render
    <3> QED
      BY <3>1, OutcomeIs
  <2>4. CASE build = p
    BY <2>1, <2>3, <2>4, PreparedIs
  <2>5. CASE build = Outcome("empty", {}) \/ build = Outcome("unwritable", {})
    BY <2>5, OutcomeIs
  <2> QED
    BY <2>2, <2>4, <2>5
<1> QED
  BY <1>1, <1>2 DEF CompositionInv, IsCurrent

LEMMA OwnedIs ==
  ASSUME IsStored, NEW c \in Compositions
  PROVE  /\ Owned(c) \subseteq PlanSet(c, Entries(ResolveComposition(c)))
         /\ Routed(Owned(c)) = Material(c, Entries(ResolveComposition(c)))
<1>1. PICK order : order = ResolveComposition(c)
  OBVIOUS
<1>2. Entries(order) \subseteq Lists /\ Len(order) \in Nat
  BY <1>1, CompositionIs, ResolvedIs, MeantIs DEF IsStored
<1>3. Owned(c) = ApplyListPriority(PlanSet(c, Entries(order)), order)
  BY <1>1 DEF Owned
<1> QED
  BY <1>1, <1>2, <1>3, PlanSetIs, PriorityKeeps

(* planner/reduce.go:33 and planner/priority.go:36: whatever the lists,    *)
(* what was seen of them, the order and the corrections, merging and       *)
(* giving a destination to one list keep exactly what was admitted.        *)
THEOREM PlansRouteTheMaterial == Spec => []PlanRoutesTheMaterial
<1>1. CompositionInv => PlanRoutesTheMaterial
  BY BuiltIs, ProfileIs, OwnedIs DEF PlanRoutesTheMaterial, CompositionInv, Kept, Material
<1> QED
  BY <1>1, CompositionInvariance, PTL

-----------------------------------------------------------------------------
(* Who owns a destination.                                                 *)

LEMMA NamesAreSlim ==
  ASSUME NEW r, IsName(r) \/ r.kind # "prefix"
  PROVE  Slim(Value(r))
BY SteeredByValue DEF IsName, Slim

LEMMA AcceptedPrefixes ==
  ASSUME NEW def, NEW given, NEW to, NEW kept, NEW cutoff, NEW r \in Accepted(def, given, to, kept, cutoff), r.kind = "prefix"
  PROVE  to.prefixes
<1>1. Supports(to, r.kind)
  BY DEF Accepted, SeedRules
<1> QED
  BY <1>1 DEF Supports

LEMMA ListPlanSlim ==
  ASSUME NEW def, NEW given, NEW to, NEW kept, NEW cutoff, DefinitionIs(def), \A s \in given : s.value \in Resources,
         NEW r \in ListPlan(def, given, to, kept, cutoff)
  PROVE  Slim(Value(r))
<1>1. PICK accepted : accepted = Accepted(def, given, to, kept, cutoff)
  OBVIOUS
<1>2. PICK rules : rules = Dedupe(accepted)
  OBVIOUS
<1>3. PICK merged : merged = IF to.prefixes THEN Collapse(rules) ELSE rules
  OBVIOUS
<1>4. ListPlan(def, given, to, kept, cutoff) = Dedupe(merged)
  BY <1>1, <1>2, <1>3 DEF ListPlan
<1>5. Proper(accepted)
  BY <1>1, AcceptedIs DEF Proper
<1>6. Proper(rules)
  BY <1>2, <1>5, DedupeSteers
<1>7. PICK q \in merged : Value(r) = Value(q)
  BY <1>4, DedupeIs, KeySays
<1>8. CASE to.prefixes
  <2>1. q \in Collapse(rules)
    BY <1>3, <1>7, <1>8
  <2>2. CASE IsName(q)
    BY <1>7, <2>2, NamesAreSlim
  <2>3. CASE \E n \in Networks : Value(q) = Written(n)
    BY <1>7, <2>3, WrittenIs
  <2> QED
    BY <1>6, <2>1, <2>2, <2>3, CollapseIs
<1>9. CASE ~to.prefixes
  <2>1. q \in rules
    BY <1>3, <1>7, <1>9
  <2>2. PICK a \in accepted : Value(q) = Value(a)
    BY <1>2, <2>1, DedupeIs, KeySays
  <2>3. a.kind # "prefix"
    BY <1>1, <1>9, AcceptedPrefixes
  <2> QED
    BY <1>7, <2>2, <2>3, NamesAreSlim
<1> QED
  BY <1>8, <1>9

LEMMA PlanSetSlim ==
  ASSUME IsStored, NEW c \in Compositions, NEW lists, lists \subseteq Lists, NEW r \in PlanSet(c, lists)
  PROVE  Slim(Value(r))
<1>1. \A s \in material : s.value \in Resources
  BY WrittenOneWay DEF IsStored
<1>2. r.list \in Lists /\ r \in ListPlan(Effective(c, r.list), material, target, keep, Cutoff)
  BY PlanSetIs
<1> QED
  BY <1>1, <1>2, EffectiveIs, ListPlanSlim

\* The order that is shown is the order that decides.
LEMMA PrecedesIs ==
  ASSUME IsStored, Kept(profile), NEW order, order = ResolveComposition(profile),
         NEW a \in Entries(order), NEW b \in Entries(order), Precedes(a, b)
  PROVE  Better(a, b, order)
<1>1. PICK stored, ids : stored = profile.priority /\ ids = Ids(Meant(profile))
  OBVIOUS
<1>2. PICK place : place = MergedPlace(stored, ids)
  OBVIOUS
<1>3. Len(stored) \in Nat /\ DOMAIN stored = 1 .. Len(stored) /\ IsInjective(stored)
  BY <1>1, CompositionIs DEF Kept
<1>4. /\ Entries(order) = Meant(profile) /\ Len(order) \in Nat
      /\ \A i, j \in 1 .. Len(order) : i < j <=> place[order[i]] < place[order[j]]
  BY <1>1, <1>2, <1>3, ResolvedIs DEF IsStored
<1>5. IsFiniteSet(Meant(profile)) /\ Meant(profile) \subseteq Nat
  BY MeantIs DEF IsStored
<1>6. /\ Entries(ids) = Meant(profile) /\ Len(ids) \in Nat
      /\ \A i, j \in 1 .. Len(ids) : i < j <=> ids[i] < ids[j]
  BY <1>1, <1>5, IdsAre
<1>7. \A x \in Entries(stored) : /\ Place(stored, x) \in 1 .. Len(stored) /\ stored[Place(stored, x)] = x
                                 /\ (CHOOSE i \in 1 .. Len(stored) : stored[i] = x) = Place(stored, x)
  <2> TAKE x \in Entries(stored)
  <2>1. PICK p : p = Place(stored, x)
    OBVIOUS
  <2>2. p \in 1 .. Len(stored) /\ stored[p] = x
    BY <1>3, <2>1, PlaceIs
  <2>3. PICK i : i = CHOOSE k \in 1 .. Len(stored) : stored[k] = x
    OBVIOUS
  <2>4. i \in 1 .. Len(stored) /\ stored[i] = x
    BY <2>2, <2>3, Zenon
  <2>5. i = p
    BY <1>3, <2>2, <2>4 DEF IsInjective
  <2> QED
    BY <2>1, <2>2, <2>3, <2>5
<1>8. \A x \in Entries(ids) : Place(ids, x) \in 1 .. Len(ids) /\ ids[Place(ids, x)] = x
  BY <1>6, PlaceIs
<1>9. \A x \in Entries(ids) :
        place[x] = IF x \in Entries(stored) THEN Place(stored, x) ELSE Len(stored) + Place(ids, x)
  BY <1>2 DEF MergedPlace
<1>10. a \in Entries(ids) /\ b \in Entries(ids)
  BY <1>4, <1>6
<1>11. place[a] < place[b]
  <2>1. CASE a \in Entries(stored) /\ b \in Entries(stored)
    <3>1. (CHOOSE i \in 1 .. Len(stored) : stored[i] = a) < (CHOOSE i \in 1 .. Len(stored) : stored[i] = b)
      BY <1>1, <2>1, Zenon DEF Precedes
    <3> QED
      BY <1>7, <1>9, <1>10, <2>1, <3>1
  <2>2. CASE a \notin Entries(stored) /\ b \notin Entries(stored)
    <3>1. a < b
      BY <1>1, <2>2, Zenon DEF Precedes
    <3>2. Place(ids, a) < Place(ids, b)
      BY <1>6, <1>8, <1>10, <3>1
    <3> QED
      BY <1>3, <1>6, <1>8, <1>9, <1>10, <2>2, <3>2
  <2>3. CASE a \in Entries(stored) /\ b \notin Entries(stored)
    BY <1>3, <1>6, <1>7, <1>8, <1>9, <1>10, <2>3
  <2>4. CASE a \notin Entries(stored) /\ b \in Entries(stored)
    BY <1>1, <2>4 DEF Precedes
  <2> QED
    BY <2>1, <2>2, <2>3, <2>4
<1>12. PICK i, j : i = PositionOf(a, order) /\ j = PositionOf(b, order)
  OBVIOUS
<1>13. i \in 1 .. Len(order) /\ order[i] = a /\ j \in 1 .. Len(order) /\ order[j] = b
  BY <1>4, <1>12, PositionIs
<1>14. i < j
  BY <1>4, <1>11, <1>13
<1> QED
  BY <1>12, <1>14 DEF Better

(* planner/priority.go:66: the destination that lists share is the one's   *)
(* the operator placed first, and no later list spends a rule on it.       *)
THEOREM OwnershipSettled == Spec => []OwnershipIsSettled
<1>1. ASSUME CompositionInv PROVE OwnershipIsSettled
  <2> SUFFICES ASSUME NEW p \in build.rules, NEW r \in build.rules, p.list # r.list, Precedes(p.list, r.list),
                      Endpoints(r) \subseteq Endpoints(p)
               PROVE  FALSE
    BY DEF OwnershipIsSettled
  <2>1. build.rules = Owned(profile) /\ Kept(profile) /\ IsStored
    BY <1>1, BuiltIs, ProfileIs DEF CompositionInv
  <2>2. PICK order : order = ResolveComposition(profile)
    OBVIOUS
  <2>3. PICK all : all = PlanSet(profile, Entries(order))
    OBVIOUS
  <2>4. Entries(order) \subseteq Lists
    BY <2>1, <2>2, CompositionIs, ResolvedIs, MeantIs DEF IsStored, Kept
  <2>5. p \in all /\ r \in all /\ ~(Better(p.list, r.list, order) /\ Value(p) \in Above(Value(r)))
    BY <2>1, <2>2, <2>3 DEF Owned, ApplyListPriority
  <2>6. /\ Value(p) \in Resources /\ Value(r) \in Resources /\ Slim(Value(r))
        /\ p.list \in Entries(order) /\ r.list \in Entries(order)
    BY <2>1, <2>3, <2>4, <2>5, PlanSetIs, PlanSetSlim DEF Proper, Kept
  <2>7. Better(p.list, r.list, order)
    BY <2>1, <2>2, <2>6, PrecedesIs
  <2>8. Endpoints(Value(r)) \subseteq Endpoints(Value(p))
    BY SteeredByValue
  <2>9. Value(p) \in Above(Value(r))
    BY <2>6, <2>8, SteersAbove
  <2> QED
    BY <2>5, <2>7, <2>9
<1> QED
  BY <1>1, CompositionInvariance, PTL

-----------------------------------------------------------------------------
(* What lists share.                                                       *)

LEMMA BlockSays ==
  ASSUME NEW v, NEW w, v.at = w.at, v.bits = w.bits
  PROVE  Block(v) = Block(w)
BY DEF Block

\* Of two blocks that share an address one lies in the other.
LEMMA PlacesNest ==
  ASSUME NEW v, NEW w, IsPlace(v), IsPlace(w), Block(v) \cap Block(w) # {}, w.bits <= v.bits
  PROVE  Block(v) \subseteq Block(w)
<1>1. IsBlock(v) /\ IsBlock(w) /\ w.bits \in 0 .. v.bits
  BY DEF IsPlace, IsBlock
<1>2. PICK n : n = Network(v.at, w.bits)
  OBVIOUS
<1>3. n.at = w.at /\ n.bits = w.bits
  BY <1>1, <1>2, BlocksNest DEF Network
<1>4. Block(v) \subseteq Block(n)
  BY <1>1, <1>2, NetworkHolds
<1> QED
  BY <1>3, <1>4, BlockSays

\* What two values steer is nested or has nothing in common.
LEMMA Nested ==
  ASSUME NEW v \in Resources, NEW w \in Resources, Endpoints(v) \cap Endpoints(w) # {}
  PROVE  Endpoints(v) \subseteq Endpoints(w) \/ Endpoints(w) \subseteq Endpoints(v)
<1>1. CASE IsPlace(v) /\ IsPlace(w)
  <2>1. Endpoints(v) = {"address"} \X Block(v) /\ Endpoints(w) = {"address"} \X Block(w)
    BY <1>1, PlaceSteers
  <2>2. Block(v) \cap Block(w) # {}
    BY <2>1
  <2>3. v.bits \in Nat /\ w.bits \in Nat
    BY <1>1 DEF IsPlace, IsBlock
  <2>4. CASE w.bits <= v.bits
    BY <1>1, <2>1, <2>2, <2>4, PlacesNest
  <2>5. CASE v.bits <= w.bits
    <3>1. Block(w) \cap Block(v) # {}
      BY <2>2
    <3> QED
      BY <1>1, <2>1, <2>5, <3>1, PlacesNest
  <2> QED
    BY <2>3, <2>4, <2>5
<1>2. CASE IsNamed(v) /\ IsNamed(w)
  <2>1. v.kind \in {"exact", "suffix"} /\ w.kind \in {"exact", "suffix"} /\ v.at \in Names /\ w.at \in Names
    BY <1>2 DEF IsNamed, IsName
  <2>2. CASE v.kind = "exact" \/ w.kind = "exact"
    BY <2>2, ExactSteers
  <2>3. CASE v.kind = "suffix" /\ w.kind = "suffix"
    <3>1. /\ Endpoints(v) = {"name", "below"} \X {n \in Names : v.at \in Zones[n]}
          /\ Endpoints(w) = {"name", "below"} \X {n \in Names : w.at \in Zones[n]}
      BY <2>3, SuffixSteers
    <3>2. PICK n \in Names : v.at \in Zones[n] /\ w.at \in Zones[n]
      BY <3>1
    <3>3. v.at \in Zones[w.at] \/ w.at \in Zones[v.at]
      BY <3>2, NamesAreNested
    <3>4. ASSUME NEW x \in Names, NEW y \in Names, x \in Zones[y]
          PROVE  {m \in Names : y \in Zones[m]} \subseteq {m \in Names : x \in Zones[m]}
      BY <3>4, NamesAreNested
    <3>5. \/ {m \in Names : v.at \in Zones[m]} \subseteq {m \in Names : w.at \in Zones[m]}
          \/ {m \in Names : w.at \in Zones[m]} \subseteq {m \in Names : v.at \in Zones[m]}
      BY <2>1, <3>3, <3>4
    <3> QED
      BY <3>1, <3>5
  <2> QED
    BY <2>1, <2>2, <2>3
<1>3. ASSUME NEW x \in Resources, NEW y \in Resources, IsPlace(x), IsNamed(y)
      PROVE  Endpoints(x) \cap Endpoints(y) = {}
  <2>1. Endpoints(x) = {"address"} \X Block(x)
    BY <1>3, PlaceSteers
  <2>2. y.kind \in {"exact", "suffix"}
    BY <1>3 DEF IsNamed, IsName
  <2>3. \A e \in Endpoints(y) : e[1] # "address"
    BY <2>2, ExactSteers, SuffixSteers
  <2> QED
    BY <2>1, <2>3
<1> QED
  BY <1>1, <1>2, <1>3, ResourceIs

\* What is looked up is what is shared.
SharedBy(rules, lists) ==
  {pair \in SUBSET lists : \E a, b \in lists :
     /\ pair = {a, b} /\ a # b
     /\ Routed({r \in rules : r.list = a}) \cap Routed({r \in rules : r.list = b}) # {}}

LEMMA OverlapsIs ==
  ASSUME NEW rules, Proper(rules), \A r \in rules : Slim(Value(r)), NEW lists, \A r \in rules : r.list \in lists
  PROVE  Overlaps(rules) = SharedBy(rules, lists)
<1> DEFINE of(l) == {r \in rules : r.list = l}
           shared == {pair \in SUBSET lists : \E a, b \in lists : /\ pair = {a, b} /\ a # b
                                                                  /\ Routed(of(a)) \cap Routed(of(b)) # {}}
<1>1. ASSUME NEW o \in Overlaps(rules) PROVE o \in shared
  <2>1. PICK x \in rules \X rules : /\ x[1].list # x[2].list /\ Value(x[1]) \in Above(Value(x[2]))
                                    /\ o = {x[1].list, x[2].list}
    BY DEF Overlaps
  <2>2. PICK p \in rules, r \in rules : p = x[1] /\ r = x[2]
    BY <2>1
  <2>3. Endpoints(Value(r)) \subseteq Endpoints(Value(p)) /\ Value(r) \in Resources
    BY <2>1, <2>2, AboveSteers DEF Proper
  <2>4. PICK e : e \in Endpoints(Value(r))
    <3>1. CASE IsPlace(Value(r))
      <4>1. Value(r).at \in Block(Value(r))
        BY <3>1, BlockHasItself DEF IsPlace
      <4>2. Endpoints(Value(r)) = {"address"} \X Block(Value(r))
        BY <3>1, PlaceSteers
      <4>3. <<"address", Value(r).at>> \in Endpoints(Value(r))
        BY <4>1, <4>2
      <4> QED
        BY <4>3
    <3>2. CASE IsNamed(Value(r))
      <4>1. Value(r).kind \in {"exact", "suffix"} /\ Value(r).at \in Names
        BY <3>2 DEF IsNamed, IsName
      <4>2. <<"name", Value(r).at>> \in Endpoints(Value(r))
        BY <4>1, ExactSteers, SuffixSteers, NamesAreNested
      <4> QED
        BY <4>2
    <3> QED
      BY <2>3, <3>1, <3>2, ResourceIs
  <2>5. e \in Endpoints(r) /\ e \in Endpoints(p)
    BY <2>3, <2>4, SteeredByValue
  <2>6. p \in of(p.list) /\ r \in of(r.list)
    OBVIOUS
  <2>7. e \in Routed(of(p.list)) /\ e \in Routed(of(r.list))
    BY <2>5, <2>6, RoutedIs
  <2>8. p.list \in lists /\ r.list \in lists /\ p.list # r.list /\ o = {p.list, r.list}
    BY <2>1, <2>2
  <2> QED
    BY <2>7, <2>8
<1>2. ASSUME NEW o \in shared PROVE o \in Overlaps(rules)
  <2>1. PICK a \in lists, b \in lists : o = {a, b} /\ a # b /\ Routed(of(a)) \cap Routed(of(b)) # {}
    OBVIOUS
  <2>2. PICK e : e \in Routed(of(a)) /\ e \in Routed(of(b))
    BY <2>1
  <2>3. PICK p \in of(a) : e \in Endpoints(p)
    BY <2>2, RoutedIs
  <2>4. PICK r \in of(b) : e \in Endpoints(r)
    BY <2>2, RoutedIs
  <2>5. /\ Value(p) \in Resources /\ Value(r) \in Resources /\ Slim(Value(p)) /\ Slim(Value(r))
        /\ p.list = a /\ r.list = b /\ p \in rules /\ r \in rules
    BY <2>3, <2>4 DEF Proper
  <2>6. Endpoints(Value(p)) \subseteq Endpoints(Value(r)) \/ Endpoints(Value(r)) \subseteq Endpoints(Value(p))
    BY <2>3, <2>4, <2>5, SteeredByValue, Nested
  <2>7. Value(r) \in Above(Value(p)) \/ Value(p) \in Above(Value(r))
    BY <2>5, <2>6, SteersAbove
  <2>8. ASSUME NEW x \in rules, NEW y \in rules, x.list # y.list, Value(x) \in Above(Value(y))
        PROVE  {x.list, y.list} \in Overlaps(rules)
    <3>1. PICK z \in rules \X rules : z = <<x, y>>
      OBVIOUS
    <3>2. z[1] = x /\ z[2] = y
      BY <3>1
    <3>3. z \in {u \in rules \X rules : u[1].list # u[2].list /\ Value(u[1]) \in Above(Value(u[2]))}
      BY <2>8, <3>2
    <3> QED
      BY <3>2, <3>3 DEF Overlaps
  <2>9. {a, b} = {b, a}
    OBVIOUS
  <2> QED
    BY <2>1, <2>5, <2>7, <2>8, <2>9
<1>3. shared = SharedBy(rules, lists)
  BY Zenon DEF SharedBy
<1> QED
  BY <1>1, <1>2, <1>3

-----------------------------------------------------------------------------
(* What is shown beforehand.                                               *)

LEMMA NothingShown ==
  ASSUME NEW lists, NEW missing, NEW available, NEW rules, NEW overlaps, ProjectedRuleCount(rules) = 0
  PROVE  LET shown == Shown(lists, missing, available, rules, overlaps)
         IN  shown.told /\ ~shown.fits /\ shown.incomplete = lists
BY DEF Shown

\* What a list costs.
Cost(rules, l) == Cardinality({r \in rules : r.list = l})

LEMMA SomethingShown ==
  ASSUME NEW lists, NEW missing, NEW available, NEW rules, NEW overlaps, ProjectedRuleCount(rules) # 0,
         NEW shown, shown = Shown(lists, missing, available, rules, overlaps)
  PROVE  /\ shown.told /\ (shown.fits <=> missing = {} /\ ~Exceeds(ProjectedRuleCount(rules)))
         /\ shown.incomplete = missing /\ shown.overlaps = overlaps
         /\ \A l \in Entries(available) : shown.share[l] = Cost(rules, l)
<1>1. PICK fits, share : /\ fits = (missing = {} /\ ~Exceeds(ProjectedRuleCount(rules)))
                         /\ share = [l \in Entries(available) |-> Cost(rules, l)]
  OBVIOUS
<1>2. shown = [told |-> TRUE, fits |-> fits, incomplete |-> missing, share |-> share, overlaps |-> overlaps]
  BY <1>1, Zenon DEF Shown, Cost
<1>3. /\ shown.told /\ shown.fits = fits /\ shown.incomplete = missing
      /\ shown.share = share /\ shown.overlaps = overlaps
  BY <1>2
<1>4. shown.fits <=> missing = {} /\ ~Exceeds(ProjectedRuleCount(rules))
  BY <1>1, <1>3, Zenon
<1> QED
  BY <1>1, <1>3, <1>4

\* What is prepared with the limit of the format, and without it.
Limited(c) == PrepareProfile(c, TRUE)
Whole(c) == PrepareProfile(c, FALSE)

Told(c, order, missing, whole, available, measured) ==
  /\ Entries(available) = Entries(order) \ missing
  /\ missing = {} => measured = whole
  /\ Forecast(c) = IF measured.kind # "plan" THEN NoForecast
                   ELSE Shown(Entries(order), missing, available, measured.rules,
                              Overlaps(PlanSet(c, Entries(available))))

LEMMA ForecastIs ==
  ASSUME IsStored, NEW c \in Compositions, NEW order, order = ResolveComposition(c),
         NEW whole, whole = Whole(c),
         NEW missing, missing = IF whole.kind \in {"unread", "coverage"} THEN Incomplete(c, Entries(order)) ELSE {}
  PROVE  \E available, measured : Told(c, order, missing, whole, available, measured)
<1>1. PICK place : place = [l \in Entries(order) |-> Place(order, l)]
  OBVIOUS
<1>2. PICK available : available = Arranged(Entries(order) \ missing, place)
  OBVIOUS
<1>3. PICK measured : measured = PrepareAvailable(c, missing, available, whole)
  OBVIOUS
<1>4. Forecast(c) = IF measured.kind # "plan" THEN NoForecast
                   ELSE Shown(Entries(order), missing, available, measured.rules,
                              Overlaps(PlanSet(c, Entries(available))))
  BY <1>1, <1>2, <1>3, Zenon DEF Forecast, Whole
<1>5. missing = {} => measured = whole
  BY <1>3 DEF PrepareAvailable
<1>6. Entries(order) = Meant(c) /\ Len(order) \in Nat
  BY CompositionIs, ResolvedIs DEF IsStored
<1>7. IsFiniteSet(Entries(order) \ missing)
  <2>1. IsFiniteSet(Entries(order))
    BY <1>6, MeantIs DEF IsStored
  <2> QED
    BY <2>1, FS_Subset
<1>8. Ranked(Entries(order) \ missing, place)
  <2>1. \A l \in Entries(order) : place[l] \in 1 .. Len(order) /\ order[place[l]] = l
    BY <1>1, <1>6, PlaceIs
  <2> QED
    BY <1>6, <2>1 DEF Ranked
<1>9. Entries(available) = Entries(order) \ missing
  BY <1>2, <1>7, <1>8, ArrangedIs
<1> WITNESS available, measured
<1> QED
  BY <1>4, <1>5, <1>9, Zenon DEF Told

\* Without the limit a plan is as with it, unless the limit refuses it.
LEMMA UnboundedIs ==
  ASSUME NEW c, NEW bound, bound = Limited(c), NEW whole, whole = Whole(c)
  PROVE  /\ bound.kind # "limit" => whole = bound
         /\ bound.kind = "limit" => whole.kind = "plan" /\ whole.rules = Owned(c) /\ Exceeds(ProjectedRuleCount(Owned(c)))
         /\ bound.kind = "unlisted" <=> ResolveComposition(c) = <<>>
         /\ bound.kind = "unread" => Entries(ResolveComposition(c)) \ read # {}
         /\ bound.kind = "coverage" => Incomplete(c, Entries(ResolveComposition(c))) # {}
<1>1. PICK order, all, gaps : /\ order = ResolveComposition(c) /\ all = PlanSet(c, Entries(order))
                              /\ gaps = Incomplete(c, Entries(order))
  OBVIOUS
<1>0. PICK owned : owned = Owned(c)
  OBVIOUS
<1>2. PICK over \in BOOLEAN : over <=> Exceeds(ProjectedRuleCount(owned))
  OBVIOUS
<1>3. owned = ApplyListPriority(all, order)
  BY <1>1, <1>0, <1>2 DEF Owned
<1>4. PICK refused \in BOOLEAN : refused <=> Refused(all) \/ Refused(owned)
  OBVIOUS
<1>5. bound = IF order = <<>> THEN Outcome("unlisted", {})
              ELSE IF Entries(order) \ read # {} THEN Outcome("unread", {})
              ELSE IF gaps # {} THEN Outcome("coverage", {})
              ELSE IF refused THEN Outcome("refused", {})
              ELSE IF over THEN Outcome("limit", {})
              ELSE Outcome("plan", owned)
  BY <1>0, <1>1, <1>2, <1>3, <1>4 DEF PrepareProfile, Limited
<1>6. whole = IF order = <<>> THEN Outcome("unlisted", {})
              ELSE IF Entries(order) \ read # {} THEN Outcome("unread", {})
              ELSE IF gaps # {} THEN Outcome("coverage", {})
              ELSE IF refused THEN Outcome("refused", {})
              ELSE Outcome("plan", owned)
  BY <1>0, <1>1, <1>2, <1>3, <1>4 DEF PrepareProfile, Whole
<1>7. PICK unread, covered : unread = Entries(order) \ read /\ covered = gaps
  OBVIOUS
<1>8. CASE order = <<>>
  <2>1. bound = Outcome("unlisted", {}) /\ whole = bound
    BY <1>5, <1>6, <1>8
  <2>2. bound.kind = "unlisted" /\ whole = bound
    BY <2>1, OutcomeIs
  <2> QED
    BY <1>1, <1>8, <2>2
<1>9. CASE order # <<>> /\ unread # {}
  <2>1. bound = Outcome("unread", {}) /\ whole = bound
    BY <1>5, <1>6, <1>7, <1>9
  <2>2. bound.kind = "unread" /\ whole = bound
    BY <2>1, OutcomeIs
  <2> QED
    BY <1>1, <1>7, <1>9, <2>2
<1>10. CASE order # <<>> /\ unread = {} /\ gaps # {}
  <2>1. bound = Outcome("coverage", {}) /\ whole = bound
    BY <1>5, <1>6, <1>7, <1>10
  <2>2. bound.kind = "coverage" /\ whole = bound
    BY <2>1, OutcomeIs
  <2> QED
    BY <1>1, <1>10, <2>2
<1>11. CASE order # <<>> /\ unread = {} /\ gaps = {} /\ refused
  <2>1. bound = Outcome("refused", {}) /\ whole = bound
    BY <1>5, <1>6, <1>7, <1>11
  <2>2. bound.kind = "refused" /\ whole = bound
    BY <2>1, OutcomeIs
  <2> QED
    BY <1>1, <1>11, <2>2
<1>12. CASE order # <<>> /\ unread = {} /\ gaps = {} /\ ~refused /\ over
  <2>1. bound = Outcome("limit", {}) /\ whole = Outcome("plan", owned)
    BY <1>5, <1>6, <1>7, <1>12
  <2>2. bound.kind = "limit" /\ whole.kind = "plan" /\ whole.rules = owned
    BY <2>1, OutcomeIs
  <2> QED
    BY <1>0, <1>1, <1>2, <1>12, <2>2
<1>13. CASE order # <<>> /\ unread = {} /\ gaps = {} /\ ~refused /\ ~over
  <2>1. bound = Outcome("plan", owned) /\ whole = bound
    BY <1>5, <1>6, <1>7, <1>13
  <2>2. bound.kind = "plan" /\ whole = bound
    BY <2>1, OutcomeIs
  <2> QED
    BY <1>1, <1>13, <2>2
<1> QED
  BY <1>4, <1>8, <1>9, <1>10, <1>11, <1>12, <1>13

\* What was rendered, and what was prepared for it.
LEMMA RenderedIs ==
  ASSUME CompositionInv, build.kind # "none", NEW bound, bound = Limited(profile)
  PROVE  \/ build = bound /\ ~(bound.kind = "plan" /\ bound.rules = {})
         \/ build.kind = "empty" /\ bound.kind = "plan" /\ bound.rules = {}
         \/ build.kind = "unwritable" /\ bound.kind = "plan" /\ bound.rules # {}
<1>1. build # NotBuilt
  BY OutcomeIs DEF NotBuilt
<1>2. build = Render(bound)
  BY <1>1, Zenon DEF CompositionInv, IsCurrent, Limited
<1>3. CASE bound.kind # "plan"
  BY <1>2, <1>3 DEF Render
<1>4. CASE bound.kind = "plan" /\ bound.rules = {}
  BY <1>2, <1>4, OutcomeIs DEF Render
<1>5. CASE bound.kind = "plan" /\ bound.rules # {}
  BY <1>2, <1>5, OutcomeIs DEF Render
<1> QED
  BY <1>3, <1>4, <1>5

-----------------------------------------------------------------------------
(* A plan has a number of rules.                                           *)

LEMMA FiniteImage ==
  ASSUME NEW f, IsFiniteSet(DOMAIN f), NEW set, \A t \in set : \E x \in DOMAIN f : t = f[x]
  PROVE  IsFiniteSet(set)
<1>1. PICK given : given = DOMAIN f
  OBVIOUS
<1>2. PICK image : image = {f[x] : x \in given}
  OBVIOUS
<1>3. PICK g : g = [x \in given |-> f[x]]
  OBVIOUS
<1>4. g \in Surjection(given, image)
  BY <1>2, <1>3 DEF Surjection
<1>5. IsFiniteSet(image)
  BY <1>1, <1>4, FS_Surjection
<1>6. set \subseteq image
  BY <1>1, <1>2
<1> QED
  BY <1>5, <1>6, FS_Subset

LEMMA FiniteFamily ==
  ASSUME NEW f, IsFiniteSet(DOMAIN f), \A x \in DOMAIN f : IsFiniteSet(f[x]),
         NEW set, \A t \in set : \E x \in DOMAIN f : t \in f[x]
  PROVE  IsFiniteSet(set)
<1>1. PICK image : image = {f[x] : x \in DOMAIN f}
  OBVIOUS
<1>2. IsFiniteSet(image)
  BY <1>1, FiniteImage
<1>3. IsFiniteSet(UNION image)
  BY <1>1, <1>2, FS_UNION
<1>4. set \subseteq UNION image
  BY <1>1
<1> QED
  BY <1>3, <1>4, FS_Subset

LEMMA NetworksFinite == IsFiniteSet(Networks)
<1>1. PICK spots, sizes : spots = Addresses /\ sizes = 0 .. Width
  OBVIOUS
<1>2. IsFiniteSet(sizes)
  BY <1>1, SizesDouble, FS_Interval
<1>3. IsFiniteSet(spots)
  BY <1>1, SizesDouble, FS_Interval DEF Addresses
<1>4. PICK pairs : pairs = spots \X sizes
  OBVIOUS
<1>5. IsFiniteSet(pairs)
  BY <1>2, <1>3, <1>4, FS_Product
<1>6. PICK f : f = [x \in pairs |-> Network(x[1], x[2])]
  OBVIOUS
<1>7. \A n \in Networks : \E x \in DOMAIN f : n = f[x]
  <2> TAKE n \in Networks
  <2>1. PICK a \in spots, bits \in sizes : n = Network(a, bits)
    BY <1>1 DEF Networks
  <2>2. <<a, bits>> \in pairs /\ <<a, bits>>[1] = a /\ <<a, bits>>[2] = bits
    BY <1>4, <2>1
  <2>3. PICK x \in pairs : x[1] = a /\ x[2] = bits
    BY <2>2
  <2>4. f[x] = n /\ x \in DOMAIN f
    BY <1>6, <2>1, <2>3, Zenon
  <2> QED
    BY <2>4
<1> QED
  BY <1>5, <1>6, <1>7, FiniteImage

LEMMA SeedRulesFinite ==
  ASSUME NEW def, IsFiniteSet(def.seeds), NEW to
  PROVE  IsFiniteSet(SeedRules(def, to))
<1>1. PICK f : f = [s \in def.seeds |-> Rule(s.value, def.list, s.component, s.class, NoExpiry)]
  OBVIOUS
<1>2. \A r \in SeedRules(def, to) : \E s \in DOMAIN f : r = f[s]
  BY <1>1 DEF SeedRules
<1> QED
  BY <1>1, <1>2, FiniteImage

LEMMA CandidatesFinite ==
  ASSUME NEW def, NEW given, IsFiniteSet(given), NEW cutoff
  PROVE  IsFiniteSet(Candidates(def, given, cutoff))
<1>1. PICK f : f = [s \in given |-> Rule(s.value, def.list, s.component, s.class, Until(s, s.health, cutoff))]
  OBVIOUS
<1>2. \A r \in Candidates(def, given, cutoff) : \E s \in DOMAIN f : r = f[s]
  BY <1>1 DEF Candidates
<1> QED
  BY <1>1, <1>2, FiniteImage

LEMMA AcceptedFinite ==
  ASSUME NEW def, IsFiniteSet(def.seeds), NEW given, IsFiniteSet(given), NEW to, NEW kept, NEW cutoff
  PROVE  IsFiniteSet(Accepted(def, given, to, kept, cutoff))
<1>1. PICK seeds, found : seeds = SeedRules(def, to) /\ found = Candidates(def, given, cutoff)
  OBVIOUS
<1>2. IsFiniteSet(seeds) /\ IsFiniteSet(found)
  BY <1>1, SeedRulesFinite, CandidatesFinite
<1>3. IsFiniteSet(seeds \cup found)
  BY <1>2, FS_Union
<1>4. Accepted(def, given, to, kept, cutoff) \subseteq seeds \cup found
  BY <1>1 DEF Accepted
<1> QED
  BY <1>3, <1>4, FS_Subset

LEMMA DedupeFinite ==
  ASSUME NEW rules, IsFiniteSet(rules)
  PROVE  IsFiniteSet(Dedupe(rules))
<1>1. PICK deduped : deduped = Dedupe(rules)
  OBVIOUS
<1>2. PICK f : f = [r \in rules |-> CHOOSE d \in deduped : CandidateKey(d) = CandidateKey(r)]
  OBVIOUS
<1>3. \A d \in deduped : \E r \in DOMAIN f : d = f[r]
  <2> TAKE d \in deduped
  <2>1. PICK r \in rules : CandidateKey(d) = CandidateKey(r)
    BY <1>1, DedupeIs
  <2>2. f[r] \in deduped /\ CandidateKey(f[r]) = CandidateKey(r)
    BY <1>2, <2>1
  <2>3. d = f[r]
    BY <1>1, <2>1, <2>2, DedupeIs
  <2> QED
    BY <1>2, <2>3
<1>4. IsFiniteSet(DOMAIN f)
  BY <1>2
<1>5. IsFiniteSet(deduped)
  BY <1>3, <1>4, FiniteImage
<1> QED
  BY <1>1, <1>5

LEMMA CollapseFinite ==
  ASSUME NEW rules, IsFiniteSet(rules)
  PROVE  IsFiniteSet(Collapse(rules))
<1> DEFINE blocks == {r \in rules : ~IsName(r)}
           latest(r, n) == Latest({q.expires : q \in {p \in Group(rules, r) : Block(p) \subseteq Block(n)}})
           rule(r, n) == Rule(Written(n), r.list, r.component, r.class, latest(r, n))
           merged(r) == {rule(r, n) : n \in CollapseLossless(Ground(rules, r))}
<1>1. Collapse(rules) = (rules \ blocks) \cup UNION {merged(r) : r \in blocks}
  BY Zenon DEF Collapse, Group, Ground, Written
<1>2. \A g : CollapseLossless(g) \subseteq Networks
  BY DEF CollapseLossless
<1> HIDE DEF latest
<1>3. ASSUME NEW r \in blocks PROVE IsFiniteSet(merged(r))
  <2>1. PICK inside : inside = CollapseLossless(Ground(rules, r))
    OBVIOUS
  <2>2. IsFiniteSet(inside)
    BY <1>2, <2>1, NetworksFinite, FS_Subset
  <2> HIDE DEF rule
  <2>3. PICK f : f = [n \in inside |-> rule(r, n)]
    OBVIOUS
  <2>4. PICK made : made = merged(r)
    OBVIOUS
  <2>5. \A c \in made : \E n \in DOMAIN f : c = f[n]
    BY <2>1, <2>3, <2>4
  <2> QED
    BY <2>2, <2>3, <2>4, <2>5, FiniteImage
<1> HIDE DEF rule, merged
<1>4. PICK f : f = [r \in blocks |-> merged(r)]
  OBVIOUS
<1>5. IsFiniteSet(UNION {merged(r) : r \in blocks})
  <2>1. IsFiniteSet(blocks)
    BY FS_Subset
  <2> HIDE DEF blocks
  <2>2. PICK made : made = UNION {merged(r) : r \in blocks}
    OBVIOUS
  <2>3. \A c \in made : \E r \in DOMAIN f : c \in f[r]
    BY <1>4, <2>2
  <2>4. \A r \in DOMAIN f : IsFiniteSet(f[r])
    BY <1>3, <1>4
  <2>5. IsFiniteSet(DOMAIN f)
    BY <1>4, <2>1
  <2> QED
    BY <2>2, <2>3, <2>4, <2>5, FiniteFamily
<1>6. IsFiniteSet(rules \ blocks)
  BY FS_Subset
<1>7. PICK names, others : names = rules \ blocks /\ others = UNION {merged(r) : r \in blocks}
  OBVIOUS
<1>8. IsFiniteSet(names \cup others)
  BY <1>5, <1>6, <1>7, FS_Union
<1>9. Collapse(rules) = names \cup others
  BY <1>1, <1>7
<1> QED
  BY <1>8, <1>9

LEMMA ListPlanFinite ==
  ASSUME NEW def, IsFiniteSet(def.seeds), NEW given, IsFiniteSet(given), NEW to, NEW kept, NEW cutoff
  PROVE  IsFiniteSet(ListPlan(def, given, to, kept, cutoff))
<1>1. PICK rules : rules = Dedupe(Accepted(def, given, to, kept, cutoff))
  OBVIOUS
<1>2. PICK merged : merged = IF to.prefixes THEN Collapse(rules) ELSE rules
  OBVIOUS
<1>3. ListPlan(def, given, to, kept, cutoff) = Dedupe(merged)
  BY <1>1, <1>2 DEF ListPlan
<1>4. IsFiniteSet(rules)
  BY <1>1, AcceptedFinite, DedupeFinite
<1>5. IsFiniteSet(merged)
  BY <1>2, <1>4, CollapseFinite
<1> QED
  BY <1>3, <1>5, DedupeFinite

LEMMA TunedFinite ==
  ASSUME IsStored, NEW l \in Lists
  PROVE  IsFiniteSet(TunedDefinition(l).seeds)
<1> DEFINE on == {s \in Base[l].seeds : SeedText(s) \notin verdicts[l].excluded}
           added == {Seed(Added, v, Base[l].first, "manual") :
                       v \in {w \in verdicts[l].included : \A s \in on : SeedText(s) # Text(w)}}
<1>1. TunedDefinition(l).seeds = on \cup added
  BY DEF TunedDefinition
<1>2. IsFiniteSet(on)
  BY FinitelyMany, FS_Subset
<1> HIDE DEF on
<1>3. PICK f : f = [v \in verdicts[l].included |-> Seed(Added, v, Base[l].first, "manual")]
  OBVIOUS
<1>4. IsFiniteSet(DOMAIN f)
  BY <1>3, FinitelyMany, FS_Subset DEF IsStored
<1>5. \A s \in added : \E v \in DOMAIN f : s = f[v]
  BY <1>3
<1>6. IsFiniteSet(added)
  BY <1>4, <1>5, FiniteImage
<1> QED
  BY <1>1, <1>2, <1>6, FS_Union

LEMMA EffectiveFinite ==
  ASSUME IsStored, NEW c \in Compositions, NEW l \in Lists
  PROVE  IsFiniteSet(Effective(c, l).seeds)
<1>1. CASE l \notin DOMAIN c.domains
  BY <1>1, TunedFinite DEF Effective
<1>2. CASE l \in DOMAIN c.domains
  <2>1. PICK def : def = TunedDefinition(l)
    OBVIOUS
  <2>2. def = [list |-> def.list, components |-> def.components, required |-> def.required,
               first |-> def.first, seeds |-> def.seeds, excluded |-> def.excluded]
    BY <2>1 DEF TunedDefinition
  <2>3. PICK names : names = c.domains[l]
    OBVIOUS
  <2>4. names \subseteq Names
    BY <1>2, <2>3, CompositionIs
  <2> DEFINE replaced == {s \in def.seeds : IsName(s.value)}
  <2> DEFINE catalogued == {s \in replaced : s.place # Added}
  <2> DEFINE first == CHOOSE s \in catalogued : \A t \in catalogued : s.place <= t.place
  <2> HIDE DEF first
  <2>5. PICK component : component = IF catalogued = {} THEN def.first ELSE first.component
    OBVIOUS
  <2>6. PICK own : own = {Seed(Added, Name("suffix", n), component, "manual") : n \in names}
    OBVIOUS
  <2>7. WithProfileListDomains(def, names) = [def EXCEPT !.seeds = (@ \ replaced) \cup own]
    BY <2>5, <2>6, Zenon DEF WithProfileListDomains, first
  <2>8. PICK seeds : seeds = (def.seeds \ replaced) \cup own
    OBVIOUS
  <2> HIDE DEF replaced, catalogued
  <2>9. WithProfileListDomains(def, names).seeds = seeds
    BY <2>2, <2>7, <2>8
  <2>10. IsFiniteSet(own)
    <3>1. PICK f : f = [n \in names |-> Seed(Added, Name("suffix", n), component, "manual")]
      OBVIOUS
    <3>2. IsFiniteSet(names)
      BY <2>4, FinitelyMany, FS_Subset
    <3>3. \A s \in own : \E n \in DOMAIN f : s = f[n]
      BY <2>6, <3>1
    <3> QED
      BY <3>1, <3>2, <3>3, FiniteImage
  <2>11. IsFiniteSet(def.seeds \ replaced)
    <3>1. IsFiniteSet(def.seeds)
      BY <2>1, TunedFinite
    <3> QED
      BY <3>1, FS_Subset
  <2>12. Effective(c, l) = WithProfileListDomains(def, names)
    BY <1>2, <2>1, <2>3 DEF Effective
  <2> QED
    BY <2>8, <2>9, <2>10, <2>11, <2>12, FS_Union
<1> QED
  BY <1>1, <1>2

LEMMA PlanSetFinite ==
  ASSUME IsStored, NEW c \in Compositions, NEW lists, lists \subseteq Lists
  PROVE  IsFiniteSet(PlanSet(c, lists))
<1> DEFINE plan(l) == ListPlan(Effective(c, l), material, target, keep, Cutoff)
<1>1. IsFiniteSet(material)
  BY FinitelyMany, FS_Subset DEF IsStored
<1>2. ASSUME NEW l \in lists PROVE IsFiniteSet(plan(l))
  <2>1. PICK def : def = Effective(c, l)
    OBVIOUS
  <2>2. IsFiniteSet(def.seeds)
    BY <2>1, EffectiveFinite
  <2> QED
    BY <1>1, <2>1, <2>2, ListPlanFinite
<1>3. PlanSet(c, lists) = UNION {plan(l) : l \in lists}
  BY DEF PlanSet
<1> HIDE DEF plan
<1>4. PICK f : f = [l \in lists |-> plan(l)]
  OBVIOUS
<1>5. \A r \in PlanSet(c, lists) : \E l \in DOMAIN f : r \in f[l]
  BY <1>3, <1>4
<1>6. IsFiniteSet(DOMAIN f)
  BY <1>4, WrittenOneWay, FS_Subset
<1> QED
  BY <1>2, <1>4, <1>5, <1>6, FiniteFamily

LEMMA LimitedIs ==
  ASSUME NEW c, NEW p, p = Limited(c)
  PROVE  /\ p.kind \in {"unlisted", "unread", "coverage", "refused", "limit", "plan"}
         /\ p.kind = "plan" => p.rules = Owned(c) /\ ~Exceeds(ProjectedRuleCount(Owned(c)))
         /\ p.kind # "plan" => p.rules = {}
<1>1. PICK bounded : bounded = TRUE
  OBVIOUS
<1>2. p = PrepareProfile(c, bounded)
  BY <1>1, Zenon DEF Limited
<1> QED
  BY <1>1, <1>2, PreparedIs, Zenon

\* Whether anything is in the composition does not depend on its order.
LEMMA ListedIs ==
  ASSUME IsStored, NEW c \in Compositions, ValidComposition(c)
  PROVE  ResolveComposition(c) # <<>> /\ Entries(ResolveComposition(c)) # {}
<1>1. PICK order : order = ResolveComposition(c)
  OBVIOUS
<1>2. PICK plain : plain = NoPriority(c)
  OBVIOUS
<1>3. /\ plain.lists = c.lists /\ plain.categories = c.categories /\ plain.exclusions = c.exclusions
      /\ plain.priority = <<>>
  BY <1>2, CompositionIs DEF NoPriority
<1>4. Meant(plain) = Meant(c)
  BY <1>3 DEF Meant
<1>5. PICK first : first = ResolveComposition(plain)
  OBVIOUS
<1>6. library \subseteq Lists
  BY DEF IsStored
<1>7. Entries(first) = Meant(plain) /\ first \in Seq(Lists) /\ Len(first) \in Nat
  BY <1>3, <1>5, <1>6, ResolvedIs
<1>8. first # <<>>
  BY <1>2, <1>5 DEF ValidComposition
<1>9. Entries(first) # {}
  <2>1. Len(first) # 0
    BY <1>7, <1>8
  <2>2. first[1] \in Entries(first)
    BY <1>7, <2>1 DEF Entries
  <2> QED
    BY <2>2
<1>10. Entries(order) = Meant(c) /\ order \in Seq(Lists)
  BY <1>1, <1>6, CompositionIs, ResolvedIs
<1>11. Entries(order) # {}
  BY <1>4, <1>7, <1>9, <1>10
<1>12. order # <<>>
  BY <1>11 DEF Entries
<1> QED
  BY <1>1, <1>11, <1>12

\* A file of some rules has some entries.
LEMMA ProjectedIs ==
  ASSUME IsStored, NEW rules, IsFiniteSet(rules)
  PROVE  ProjectedRuleCount(rules) \in Nat /\ (ProjectedRuleCount(rules) = 0 <=> rules = {})
<1> DEFINE home(r) == <<IF target.groups = 0 THEN 0 ELSE r.list, Value(r)>>
           copies(r) == 1 .. (IF IsName(r) THEN target.copies ELSE 1)
           entries(r) == {home(r)} \X copies(r)
<1>1. PICK all : all = Projection(rules)
  OBVIOUS
<1>2. all = UNION {entries(r) : r \in rules}
  BY <1>1, Zenon DEF Projection
<1>3. target.copies \in Nat \ {0}
  BY FinitelyMany DEF IsStored
<1>4. ASSUME NEW r \in rules PROVE IsFiniteSet(entries(r)) /\ entries(r) # {}
  <2>1. PICK n : n = IF IsName(r) THEN target.copies ELSE 1
    OBVIOUS
  <2>2. n \in Nat \ {0} /\ copies(r) = 1 .. n
    BY <1>3, <2>1
  <2> HIDE DEF home, copies
  <2>3. IsFiniteSet(copies(r)) /\ 1 \in copies(r)
    BY <2>2, FS_Interval
  <2>4. IsFiniteSet({home(r)})
    BY FS_Singleton
  <2>5. IsFiniteSet(entries(r))
    BY <2>3, <2>4, FS_Product
  <2>6. <<home(r), 1>> \in entries(r)
    BY <2>3
  <2> QED
    BY <2>5, <2>6
<1> HIDE DEF entries
<1>5. PICK f : f = [r \in rules |-> entries(r)]
  OBVIOUS
<1>6. \A e \in all : \E r \in DOMAIN f : e \in f[r]
  BY <1>2, <1>5
<1>7. IsFiniteSet(all)
  BY <1>4, <1>5, <1>6, FiniteFamily
<1>8. all = {} <=> rules = {}
  BY <1>2, <1>4
<1>9. Cardinality(all) \in Nat /\ (Cardinality(all) = 0 <=> all = {})
  BY <1>7, FS_CardinalityType, FS_EmptySet
<1> QED
  BY <1>1, <1>8, <1>9 DEF ProjectedRuleCount

LEMMA OwnedFinite ==
  ASSUME IsStored, NEW c \in Compositions
  PROVE  ProjectedRuleCount(Owned(c)) \in Nat /\ (ProjectedRuleCount(Owned(c)) = 0 <=> Owned(c) = {})
<1>1. PICK order, all : order = ResolveComposition(c) /\ all = PlanSet(c, Entries(order))
  OBVIOUS
<1>2. Entries(order) \subseteq Lists
  BY <1>1, CompositionIs, ResolvedIs, MeantIs DEF IsStored
<1>3. IsFiniteSet(all)
  BY <1>1, <1>2, PlanSetFinite
<1>4. Owned(c) \subseteq all
  BY <1>1 DEF Owned, ApplyListPriority
<1>5. IsFiniteSet(Owned(c))
  BY <1>3, <1>4, FS_Subset
<1> QED
  BY <1>5, ProjectedIs

\* What is prepared of the lists without gaps is a plan or is refused, and what
\* is shown of missing lists is never a fit nor complete.
LEMMA MissingTold ==
  ASSUME NEW c, NEW order, NEW missing, missing # {}, Entries(order) # {}, NEW whole, NEW available, NEW measured,
         Told(c, order, missing, whole, available, measured), NEW forecast, forecast = Forecast(c)
  PROVE  ~forecast.fits /\ ~(forecast.told /\ forecast.incomplete = {})
<1>1. PICK lists, overlaps, rules, shown :
         /\ lists = Entries(order) /\ overlaps = Overlaps(PlanSet(c, Entries(available))) /\ rules = measured.rules
         /\ shown = Shown(lists, missing, available, rules, overlaps)
  OBVIOUS
<1>2. CASE measured.kind # "plan"
  <2>1. forecast = NoForecast
    BY <1>2 DEF Told
  <2> QED
    BY <2>1 DEF NoForecast
<1>3. CASE measured.kind = "plan"
  <2>1. forecast = shown
    BY <1>1, <1>3 DEF Told
  <2>2. CASE ProjectedRuleCount(rules) = 0
    <3>1. ~shown.fits /\ shown.incomplete = lists
      BY <1>1, <2>2, NothingShown
    <3> QED
      BY <1>1, <2>1, <3>1
  <2>3. CASE ProjectedRuleCount(rules) # 0
    <3>1. ~shown.fits /\ shown.incomplete = missing
      BY <1>1, <2>3, SomethingShown
    <3> QED
      BY <2>1, <3>1
  <2> QED
    BY <2>2, <2>3
<1> QED
  BY <1>2, <1>3

(* planner/overlaps.go:161: though only the names and widths above a rule  *)
(* are looked up, no overlap of two lists is missed and none is invented.  *)
THEOREM OverlapsShared == Spec => []OverlapsAreShared
<1>1. ASSUME CompositionInv, build.kind = "plan" PROVE OverlapsAreShared
  <2>1. PICK c : c = profile
    OBVIOUS
  <2>2. c \in Compositions /\ IsStored
    BY <1>1, <2>1, ProfileIs DEF CompositionInv, Kept
  <2>3. PICK order, whole, limited : order = ResolveComposition(c) /\ whole = Whole(c) /\ limited = Limited(c)
    OBVIOUS
  <2>4. whole.kind = "plan"
    <3>1. limited.kind = "plan"
      BY <1>1, <2>1, <2>3, RenderedIs
    <3> QED
      BY <2>3, <3>1, UnboundedIs
  <2>5. PICK missing : missing = IF whole.kind \in {"unread", "coverage"} THEN Incomplete(c, Entries(order)) ELSE {}
    OBVIOUS
  <2>6. missing = {}
    BY <2>4, <2>5
  <2>7. PICK available, measured : Told(c, order, missing, whole, available, measured)
    BY <2>2, <2>3, <2>5, ForecastIs
  <2>8. Entries(available) = Entries(order)
    BY <2>6, <2>7 DEF Told
  <2>9. PICK all, overlaps, lists : all = PlanSet(c, Entries(order)) /\ overlaps = Overlaps(all) /\ lists = Entries(order)
    OBVIOUS
  <2>10. Forecast(c).overlaps = overlaps
    <3>1. PICK rules, shown : rules = Owned(c) /\ shown = Shown(lists, missing, available, rules, overlaps)
      OBVIOUS
    <3>2. limited.kind = "plan" /\ limited.rules # {}
      BY <1>1, <2>1, <2>3, RenderedIs
    <3>3. whole = limited /\ limited.rules = rules
      BY <2>3, <3>1, <3>2, UnboundedIs, LimitedIs
    <3>4. ProjectedRuleCount(rules) # 0
      BY <2>2, <3>1, <3>2, <3>3, OwnedFinite
    <3>5. shown.overlaps = overlaps
      BY <3>1, <3>4, SomethingShown
    <3>6. measured = whole
      BY <2>6, <2>7 DEF Told
    <3>7. Forecast(c) = shown
      BY <2>7, <2>8, <2>9, <3>1, <3>2, <3>3, <3>6 DEF Told
    <3> QED
      BY <3>5, <3>7
  <2>11. Entries(order) \subseteq Lists
    BY <2>2, <2>3, CompositionIs, ResolvedIs, MeantIs DEF IsStored
  <2>12. Proper(all) /\ (\A r \in all : Slim(Value(r))) /\ \A r \in all : r.list \in lists
    BY <2>2, <2>9, <2>11, PlanSetIs, PlanSetSlim
  <2>13. overlaps = SharedBy(all, lists)
    BY <2>9, <2>12, OverlapsIs
  <2>14. Forecast(profile).overlaps
           = SharedBy(PlanSet(profile, Entries(ResolveComposition(profile))), Entries(ResolveComposition(profile)))
    BY <2>1, <2>3, <2>9, <2>10, <2>13
  <2> QED
    BY <2>14, Zenon DEF OverlapsAreShared, SharedBy
<1>2. ASSUME CompositionInv PROVE OverlapsAreShared
  <2>1. CASE build.kind = "plan"
    BY <1>1, <1>2, <2>1
  <2>2. CASE build.kind # "plan"
    BY <2>2 DEF OverlapsAreShared
  <2> QED
    BY <2>1, <2>2
<1> QED
  BY <1>2, CompositionInvariance, PTL

\* What is told of a composition, when it was built.
LEMMA ForecastTells ==
  ASSUME IsStored, NEW c \in Compositions, ValidComposition(c),
         NEW limited, limited = Limited(c), NEW built,
         \/ built = limited /\ ~(limited.kind = "plan" /\ limited.rules = {})
         \/ built.kind = "empty" /\ limited.kind = "plan" /\ limited.rules = {}
         \/ built.kind = "unwritable" /\ limited.kind = "plan" /\ limited.rules # {},
         NEW forecast, forecast = Forecast(c)
  PROVE  /\ forecast.fits <=> built.kind \in {"plan", "unwritable"}
         /\ forecast.told /\ forecast.incomplete = {} <=> built.kind \in {"plan", "unwritable", "limit"}
         /\ built.kind = "refused" => ~forecast.told
         /\ built.kind = "plan" =>
              \A l \in Entries(ResolveComposition(c)) : forecast.share[l] = Cost(built.rules, l)
<1>1. PICK order, lists, whole : order = ResolveComposition(c) /\ lists = Entries(order) /\ whole = Whole(c)
  OBVIOUS
<1>2. order # <<>> /\ lists # {}
  BY <1>1, ListedIs
<1>3. PICK gaps : gaps = Incomplete(c, lists)
  OBVIOUS
<1>4. PICK missing : missing = IF whole.kind \in {"unread", "coverage"} THEN gaps ELSE {}
  OBVIOUS
<1>5. PICK available, measured : Told(c, order, missing, whole, available, measured)
  BY <1>1, <1>3, <1>4, ForecastIs
<1>0. PICK owned : owned = Owned(c)
  OBVIOUS
<1>6. PICK over \in BOOLEAN : over <=> Exceeds(ProjectedRuleCount(owned))
  OBVIOUS
<1>7. ProjectedRuleCount(owned) = 0 <=> owned = {}
  BY <1>0, <1>6, OwnedFinite
<1>8. PICK overlaps : overlaps = Overlaps(PlanSet(c, Entries(available)))
  OBVIOUS
<1>9. PICK shown : shown = Shown(lists, missing, available, owned, overlaps)
  OBVIOUS
<1>10. /\ Entries(available) = lists \ missing /\ (missing = {} => measured = whole)
       /\ measured.kind # "plan" => forecast = NoForecast
       /\ measured.kind = "plan" /\ measured.rules = owned => forecast = shown
  BY <1>1, <1>5, <1>8, <1>9 DEF Told
<1>11. /\ limited.kind \in {"unlisted", "unread", "coverage", "refused", "limit", "plan"}
       /\ limited.kind = "plan" => limited.rules = owned /\ ~over
  BY <1>0, <1>6, LimitedIs
<1>12. /\ limited.kind # "limit" => whole = limited
       /\ limited.kind = "limit" => whole.kind = "plan" /\ whole.rules = owned /\ over
       /\ limited.kind # "unlisted"
       /\ limited.kind = "unread" => lists \ read # {}
       /\ limited.kind = "coverage" => gaps # {}
  BY <1>1, <1>2, <1>0, <1>3, <1>6, UnboundedIs
<1>13. lists \ read \subseteq gaps
  BY <1>3 DEF Incomplete
<1>14. CASE limited.kind \in {"unread", "coverage"}
  <2>1. missing # {}
    BY <1>4, <1>12, <1>13, <1>14
  <2>2. ~forecast.fits /\ ~(forecast.told /\ forecast.incomplete = {})
    BY <1>1, <1>2, <1>5, <2>1, MissingTold
  <2>3. built.kind \notin {"plan", "unwritable", "limit", "refused"}
    BY <1>14
  <2> QED
    BY <2>2, <2>3
<1>15. CASE limited.kind = "refused"
  <2>1. missing = {} /\ measured.kind # "plan"
    BY <1>4, <1>10, <1>12, <1>15
  <2>2. ~forecast.fits /\ ~forecast.told
    BY <1>10, <2>1 DEF NoForecast
  <2>3. built.kind \notin {"plan", "unwritable", "limit"}
    BY <1>15
  <2> QED
    BY <2>2, <2>3
<1>16. CASE limited.kind = "plan" /\ limited.rules = {}
  <2>1. missing = {} /\ measured.kind = "plan" /\ measured.rules = owned /\ owned = {}
    BY <1>4, <1>10, <1>11, <1>12, <1>16
  <2>2. ~forecast.fits /\ forecast.incomplete = lists
    BY <1>7, <1>9, <1>10, <2>1, NothingShown
  <2>3. built.kind \notin {"plan", "unwritable", "limit", "refused"}
    BY <1>16
  <2> QED
    BY <1>2, <2>2, <2>3
<1>17. CASE limited.kind = "limit"
  <2>1. missing = {} /\ measured.kind = "plan" /\ measured.rules = owned /\ over
    BY <1>4, <1>10, <1>12, <1>17
  <2>2. built.kind = "limit"
    BY <1>17
  <2>3. CASE owned # {}
    <3>1. forecast.told /\ ~forecast.fits /\ forecast.incomplete = {}
      BY <1>0, <1>6, <1>7, <1>9, <1>10, <2>1, <2>3, SomethingShown
    <3> QED
      BY <2>2, <3>1
  <2>4. owned # {}
    <3>1. target.max \in Nat
      BY FinitelyMany DEF IsStored
    <3> QED
      BY <1>0, <1>6, <1>7, <2>1, <3>1 DEF Exceeds
  <2> QED
    BY <2>3, <2>4
<1>18. CASE limited.kind = "plan" /\ limited.rules # {}
  <2>1. missing = {} /\ measured.kind = "plan" /\ measured.rules = owned /\ owned # {} /\ ~over
    BY <1>4, <1>10, <1>11, <1>12, <1>18
  <2>2. /\ forecast.told /\ forecast.fits /\ forecast.incomplete = {}
        /\ \A l \in Entries(available) : forecast.share[l] = Cost(owned, l)
    BY <1>0, <1>6, <1>7, <1>9, <1>10, <2>1, SomethingShown
  <2>3. built.kind \in {"plan", "unwritable"} /\ (built.kind = "plan" => built.rules = owned)
    BY <1>11, <1>18
  <2> QED
    BY <1>1, <1>10, <2>1, <2>2, <2>3
<1> QED
  BY <1>11, <1>12, <1>14, <1>15, <1>16, <1>17, <1>18

(* forecast.go:211: what is told of a composition before it is built is    *)
(* what the build then finds of the plan, for every composition and every  *)
(* library; what the renderers refuse of a plan that fits is left out.     *)
THEOREM ForecastsTell == Spec => []ForecastIsTheBuild
<1>1. ASSUME CompositionInv, build.kind # "none", ValidComposition(profile),
             NEW forecast, forecast = Forecast(profile)
      PROVE  /\ forecast.fits <=> build.kind \in {"plan", "unwritable"}
             /\ forecast.told /\ forecast.incomplete = {} <=> build.kind \in {"plan", "unwritable", "limit"}
             /\ build.kind = "refused" => ~forecast.told
             /\ build.kind = "plan" =>
                  \A l \in Entries(ResolveComposition(profile)) : forecast.share[l] = Cost(build.rules, l)
  <2>1. PICK c : c = profile
    OBVIOUS
  <2>2. c \in Compositions /\ IsStored /\ ValidComposition(c)
    BY <1>1, <2>1, ProfileIs DEF CompositionInv, Kept
  <2>3. PICK limited : limited = Limited(c)
    OBVIOUS
  <2>4. \/ build = limited /\ ~(limited.kind = "plan" /\ limited.rules = {})
        \/ build.kind = "empty" /\ limited.kind = "plan" /\ limited.rules = {}
        \/ build.kind = "unwritable" /\ limited.kind = "plan" /\ limited.rules # {}
    BY <1>1, <2>1, <2>3, RenderedIs
  <2>5. PICK told : told = Forecast(c)
    OBVIOUS
  <2>6. /\ told.fits <=> build.kind \in {"plan", "unwritable"}
        /\ told.told /\ told.incomplete = {} <=> build.kind \in {"plan", "unwritable", "limit"}
        /\ build.kind = "refused" => ~told.told
        /\ build.kind = "plan" =>
             \A l \in Entries(ResolveComposition(c)) : told.share[l] = Cost(build.rules, l)
    BY <2>2, <2>3, <2>4, <2>5, ForecastTells
  <2> QED
    BY <1>1, <2>1, <2>5, <2>6, Zenon
<1>2. ASSUME CompositionInv PROVE ForecastIsTheBuild
  BY <1>1, <1>2, Zenon DEF ForecastIsTheBuild, Cost
<1> QED
  BY <1>2, CompositionInvariance, PTL
=============================================================================
