-------------------------- MODULE Transfer_proofs --------------------------
(***************************************************************************)
(* That an import makes of an empty database what the exported one was,    *)
(* and that memory follows what is stored, for all databases, catalogs,    *)
(* files and identities.                                                   *)
(***************************************************************************)
EXTENDS Transfer, FiniteSetTheorems, WellFoundedInduction, TLAPS

-----------------------------------------------------------------------------
(* Orders.                                                                 *)

LEMMA LeastNumber ==
  ASSUME NEW S, S \subseteq Nat, S # {}
  PROVE  \E m \in S : \A n \in S : m <= n
<1>1. PICK m \in S : \A n \in S : ~ (<<n, m>> \in OpToRel(<, Nat))
  BY WFMin, NatLessThanWellFounded, Zenon
<1>2. ASSUME NEW n \in S PROVE m <= n
  <2>1. m \in Nat /\ n \in Nat
    OBVIOUS
  <2>2. ~ (n < m)
    BY <1>1, <2>1 DEF OpToRel
  <2> QED
    BY <2>1, <2>2
<1> QED
  BY <1>2

\* No two of a set have the same place.
Ranked(set, place) == \A x, y \in set : place[x] \in Nat /\ (place[x] = place[y] => x = y)

Before(set, place, x) == {y \in set : place[y] < place[x]}

LEMMA BeforeIs ==
  ASSUME NEW set, IsFiniteSet(set), NEW place, Ranked(set, place), NEW x \in set
  PROVE  /\ IsFiniteSet(Before(set, place, x))
         /\ Cardinality(Before(set, place, x)) \in 0 .. Cardinality(set) - 1
         /\ Cardinality(set) \in Nat
<1>1. Before(set, place, x) \subseteq set \ {x}
  BY DEF Before, Ranked
<1>2. IsFiniteSet(set \ {x}) /\ Cardinality(set \ {x}) = Cardinality(set) - 1
  BY FS_RemoveElement
<1>3. IsFiniteSet(Before(set, place, x)) /\ Cardinality(Before(set, place, x)) <= Cardinality(set \ {x})
  BY <1>1, <1>2, FS_Subset
<1>4. Cardinality(Before(set, place, x)) \in Nat /\ Cardinality(set) \in Nat
  BY <1>3, FS_CardinalityType
<1> QED
  BY <1>2, <1>3, <1>4

LEMMA BeforeGrows ==
  ASSUME NEW set, IsFiniteSet(set), NEW place, Ranked(set, place), NEW x \in set, NEW y \in set
  PROVE  /\ place[x] < place[y] <=> Cardinality(Before(set, place, x)) < Cardinality(Before(set, place, y))
         /\ Cardinality(Before(set, place, x)) = Cardinality(Before(set, place, y)) => x = y
<1>1. ASSUME NEW a \in set, NEW b \in set, place[a] < place[b]
      PROVE  Cardinality(Before(set, place, a)) < Cardinality(Before(set, place, b))
  <2>1. Before(set, place, a) \cup {a} \subseteq Before(set, place, b) /\ a \notin Before(set, place, a)
    BY <1>1 DEF Before, Ranked
  <2>2. IsFiniteSet(Before(set, place, a)) /\ IsFiniteSet(Before(set, place, b))
    BY BeforeIs
  <2>3. Cardinality(Before(set, place, a) \cup {a}) = Cardinality(Before(set, place, a)) + 1
    BY <2>1, <2>2, FS_AddElement
  <2>4. Cardinality(Before(set, place, a) \cup {a}) <= Cardinality(Before(set, place, b))
    BY <2>1, <2>2, FS_Subset
  <2> QED
    BY <2>3, <2>4, BeforeIs
<1>2. PICK n, m : n = Cardinality(Before(set, place, x)) /\ m = Cardinality(Before(set, place, y))
  OBVIOUS
<1>3. n \in Nat /\ m \in Nat
  BY <1>2, BeforeIs
<1>4. place[x] \in Nat /\ place[y] \in Nat /\ (place[x] = place[y] => x = y)
  BY DEF Ranked
<1>5. (place[x] < place[y] => n < m) /\ (place[y] < place[x] => m < n) /\ (x = y => n = m)
  BY <1>1, <1>2
<1> QED
  BY <1>2, <1>3, <1>4, <1>5

\* Every rank is somebody's.
LEMMA RanksFilled ==
  ASSUME NEW set, IsFiniteSet(set), NEW place, Ranked(set, place), NEW k \in 1 .. Cardinality(set)
  PROVE  \E x \in set : Cardinality(Before(set, place, x)) = k - 1
<1>1. PICK n : n = Cardinality(set)
  OBVIOUS
<1>2. n \in Nat /\ k \in 1 .. n
  BY <1>1, FS_CardinalityType
<1>3. PICK f : f = [x \in set |-> Cardinality(Before(set, place, x))]
  OBVIOUS
<1>4. f \in [set -> 0 .. n - 1]
  BY <1>1, <1>3, BeforeIs
<1>5. \A x, y \in set : f[x] = f[y] => x = y
  BY <1>3, BeforeGrows
<1>6. f \in Injection(set, 0 .. n - 1)
  BY <1>4, <1>5 DEF Injection, IsInjective
<1>7. IsFiniteSet(0 .. n - 1) /\ Cardinality(0 .. n - 1) = n
  BY <1>2, FS_Interval
<1>8. f \in Surjection(set, 0 .. n - 1)
  BY <1>1, <1>6, <1>7, FS_Injection
<1>9. \A t \in 0 .. n - 1 : \E x \in set : f[x] = t
  BY <1>8 DEF Surjection
<1>10. k - 1 \in 0 .. n - 1
  BY <1>2
<1> QED
  BY <1>3, <1>9, <1>10

LEMMA ArrangedIs ==
  ASSUME NEW set, IsFiniteSet(set), NEW place, Ranked(set, place), NEW a, a = Arranged(set, place)
  PROVE  /\ Len(a) = Cardinality(set) /\ Len(a) \in Nat /\ DOMAIN a = 1 .. Len(a)
         /\ \A i \in 1 .. Len(a) : a[i] \in set /\ Cardinality(Before(set, place, a[i])) = i - 1
         /\ Entries(a) = set /\ a \in Seq(set)
         /\ \A i, j \in 1 .. Len(a) : (i < j <=> place[a[i]] < place[a[j]]) /\ (a[i] = a[j] => i = j)
<1>1. PICK n : n = Cardinality(set)
  OBVIOUS
<1>2. n \in Nat
  BY <1>1, FS_CardinalityType
<1> DEFINE placed == {<<place[x], x>> : x \in set}
           below(p) == {q \in placed : q[1] < p[1]}
           at(k) == CHOOSE p \in placed : Cardinality(below(p)) = k - 1
<1>3. a = [k \in 1 .. n |-> at(k)[2]]
  BY <1>1, Zenon DEF Arranged
<1>4. ASSUME NEW x \in set PROVE Cardinality(below(<<place[x], x>>)) = Cardinality(Before(set, place, x))
  <2>1. PICK f, from, to : /\ from = Before(set, place, x) /\ to = below(<<place[x], x>>)
                           /\ f = [y \in from |-> <<place[y], y>>]
    OBVIOUS
  <2>2. f \in [from -> to] /\ \A q \in to : \E y \in from : f[y] = q
    BY <2>1 DEF Before
  <2>3. \A y, z \in from : f[y] = f[z] => y = z
    BY <2>1
  <2>4. f \in Bijection(from, to)
    BY <2>2, <2>3 DEF Bijection, Injection, Surjection, IsInjective
  <2>5. IsFiniteSet(from)
    BY <2>1, BeforeIs
  <2>6. Cardinality(from) = Cardinality(to)
    BY <2>4, <2>5, FS_Bijection DEF ExistsBijection
  <2> QED
    BY <2>1, <2>6
<1>5. \A k \in 1 .. n : a[k] \in set /\ Cardinality(Before(set, place, a[k])) = k - 1
  <2> TAKE k \in 1 .. n
  <2>1. PICK x \in set : Cardinality(Before(set, place, x)) = k - 1
    BY <1>1, RanksFilled
  <2>2. \E p \in placed : Cardinality(below(p)) = k - 1
    BY <1>4, <2>1
  <2>3. at(k) \in placed /\ Cardinality(below(at(k))) = k - 1
    BY <2>2, Zenon
  <2>4. PICK y \in set : at(k) = <<place[y], y>>
    BY <2>3
  <2>5. Cardinality(below(<<place[y], y>>)) = k - 1
    BY <2>3, <2>4, Zenon
  <2>6. a[k] = at(k)[2]
    BY <1>3, Zenon
  <2> HIDE DEF at
  <2>7. a[k] = y
    BY <2>4, <2>6
  <2> HIDE DEF below
  <2>8. Cardinality(Before(set, place, y)) = k - 1
    BY <1>4, <2>5
  <2> QED
    BY <2>7, <2>8
<1> HIDE DEF at
<1>6. a \in Seq(set) /\ Len(a) = n /\ DOMAIN a = 1 .. n
  <2>1. a \in [1 .. n -> set]
    BY <1>3, <1>5
  <2> QED
    BY <1>2, <2>1
<1>7. Entries(a) = set
  <2>1. ASSUME NEW x \in set PROVE x \in Entries(a)
    <3>1. PICK r : r = Cardinality(Before(set, place, x))
      OBVIOUS
    <3>2. r \in 0 .. n - 1
      BY <1>1, <3>1, BeforeIs
    <3>3. r + 1 \in 1 .. n /\ (r + 1) - 1 = r
      BY <1>2, <3>2
    <3>4. a[r + 1] = x
      BY <1>5, <3>1, <3>3, BeforeGrows
    <3> QED
      BY <1>6, <3>3, <3>4 DEF Entries
  <2> QED
    BY <1>5, <1>6, <2>1 DEF Entries
<1>8. \A i, j \in 1 .. n : (i < j <=> place[a[i]] < place[a[j]]) /\ (a[i] = a[j] => i = j)
  <2> TAKE i, j \in 1 .. n
  <2>1. PICK b, c : b = Cardinality(Before(set, place, a[i])) /\ c = Cardinality(Before(set, place, a[j]))
    OBVIOUS
  <2>2. b = i - 1 /\ c = j - 1
    BY <1>5, <2>1
  <2>3. b < c <=> i < j
    BY <1>2, <2>2
  <2>4. (place[a[i]] < place[a[j]] <=> b < c) /\ (a[i] = a[j] => b = c)
    BY <1>5, <2>1, BeforeGrows
  <2>5. b = c => i = j
    BY <1>2, <2>2
  <2> QED
    BY <2>3, <2>4, <2>5
<1> QED
  BY <1>1, <1>2, <1>5, <1>6, <1>7, <1>8

LEMMA IdsAre ==
  ASSUME NEW set, IsFiniteSet(set), set \subseteq Nat
  PROVE  /\ Entries(Ids(set)) = set /\ Ids(set) \in Seq(set)
         /\ Len(Ids(set)) \in Nat /\ DOMAIN Ids(set) = 1 .. Len(Ids(set))
         /\ \A i, j \in 1 .. Len(Ids(set)) : i < j <=> Ids(set)[i] < Ids(set)[j]
<1>1. PICK place : place = [id \in set |-> id]
  OBVIOUS
<1>2. PICK a : a = Arranged(set, place)
  OBVIOUS
<1>3. Ids(set) = a
  BY <1>1, <1>2 DEF Ids
<1>4. Ranked(set, place)
  BY <1>1 DEF Ranked
<1>5. /\ Len(a) \in Nat /\ DOMAIN a = 1 .. Len(a) /\ Entries(a) = set /\ a \in Seq(set)
      /\ \A i \in 1 .. Len(a) : a[i] \in set
      /\ \A i, j \in 1 .. Len(a) : i < j <=> place[a[i]] < place[a[j]]
  BY <1>2, <1>4, ArrangedIs
<1> QED
  BY <1>1, <1>3, <1>5

LEMMA PlaceIs ==
  ASSUME NEW seq, Len(seq) \in Nat, NEW x \in Entries(seq)
  PROVE  Place(seq, x) \in 1 .. Len(seq) /\ seq[Place(seq, x)] = x /\ \A j \in 1 .. Place(seq, x) - 1 : seq[j] # x
<1> DEFINE at == {i \in 1 .. Len(seq) : seq[i] = x}
<1>1. at \subseteq Nat /\ at # {}
  BY DEF Entries
<1>2. PICK m \in at : \A n \in at : m <= n
  BY <1>1, LeastNumber
<1>3. \A j \in 1 .. m - 1 : seq[j] # x
  <2> TAKE j \in 1 .. m - 1
  <2>1. m \in Nat /\ j \in 1 .. Len(seq) /\ j < m
    BY <1>2
  <2>2. j \notin at
    BY <1>2, <2>1
  <2> QED
    BY <2>1, <2>2
<1>4. \E i \in 1 .. Len(seq) : seq[i] = x /\ \A j \in 1 .. i - 1 : seq[j] # x
  BY <1>2, <1>3
<1> QED
  BY <1>4, Zenon DEF Place

\* Where a list comes when an order is merged into what is available.
MergedPlace(stored, available) ==
  [id \in Entries(available) |->
     IF id \in Entries(stored) THEN Place(stored, id) ELSE Len(stored) + Place(available, id)]

LEMMA MergeIs ==
  ASSUME NEW stored, NEW available, Len(stored) \in Nat, Len(available) \in Nat, IsFiniteSet(Entries(available)),
         NEW a, a = MergePriority(stored, available)
  PROVE  /\ Ranked(Entries(available), MergedPlace(stored, available))
         /\ Len(a) \in Nat /\ DOMAIN a = 1 .. Len(a) /\ Entries(a) = Entries(available) /\ a \in Seq(Entries(available))
         /\ Len(a) = Cardinality(Entries(available))
         /\ \A i \in 1 .. Len(a) : a[i] \in Entries(available)
         /\ \A i, j \in 1 .. Len(a) :
              /\ i < j <=> MergedPlace(stored, available)[a[i]] < MergedPlace(stored, available)[a[j]]
              /\ a[i] = a[j] => i = j
<1>1. PICK place : place = MergedPlace(stored, available)
  OBVIOUS
<1>2. ASSUME NEW x \in Entries(available)
      PROVE  /\ x \in Entries(stored) => place[x] \in 1 .. Len(stored) /\ stored[place[x]] = x
             /\ x \notin Entries(stored) => /\ place[x] - Len(stored) \in 1 .. Len(available)
                                            /\ place[x] > Len(stored) /\ place[x] \in Nat
                                            /\ available[place[x] - Len(stored)] = x
  <2>1. CASE x \in Entries(stored)
    BY <1>1, <2>1, PlaceIs DEF MergedPlace
  <2>2. CASE x \notin Entries(stored)
    <3>1. PICK p : p = Place(available, x)
      OBVIOUS
    <3>2. p \in 1 .. Len(available) /\ available[p] = x
      BY <3>1, PlaceIs
    <3>3. place[x] = Len(stored) + p
      BY <1>1, <2>2, <3>1 DEF MergedPlace
    <3>4. place[x] - Len(stored) = p /\ place[x] > Len(stored) /\ place[x] \in Nat
      BY <3>2, <3>3
    <3> QED
      BY <2>2, <3>2, <3>4
  <2> QED
    BY <2>1, <2>2
<1>3. \A x \in Entries(available) : place[x] \in Nat
  BY <1>2
<1>4. ASSUME NEW x \in Entries(available), NEW y \in Entries(available), place[x] = place[y] PROVE x = y
  <2>1. CASE x \in Entries(stored) /\ y \in Entries(stored)
    BY <1>2, <1>4, <2>1
  <2>2. CASE x \notin Entries(stored) /\ y \notin Entries(stored)
    BY <1>2, <1>4, <2>2
  <2>3. CASE x \in Entries(stored) /\ y \notin Entries(stored)
    BY <1>2, <1>4, <2>3
  <2>4. CASE x \notin Entries(stored) /\ y \in Entries(stored)
    BY <1>2, <1>4, <2>4
  <2> QED
    BY <2>1, <2>2, <2>3, <2>4
<1>5. Ranked(Entries(available), place)
  BY <1>3, <1>4 DEF Ranked
<1>6. a = Arranged(Entries(available), place)
  BY <1>1 DEF MergePriority, MergedPlace
<1>7. /\ Len(a) \in Nat /\ DOMAIN a = 1 .. Len(a) /\ Entries(a) = Entries(available) /\ a \in Seq(Entries(available))
      /\ Len(a) = Cardinality(Entries(available))
      /\ \A i \in 1 .. Len(a) : a[i] \in Entries(available)
      /\ \A i, j \in 1 .. Len(a) : (i < j <=> place[a[i]] < place[a[j]]) /\ (a[i] = a[j] => i = j)
  BY <1>5, <1>6, ArrangedIs
<1> QED
  BY <1>1, <1>5, <1>7

\* What comes first in an order made of what is stored and what is available.
LEMMA MergeOrders ==
  ASSUME NEW stored, NEW available, Len(stored) \in Nat, Len(available) \in Nat, IsFiniteSet(Entries(available)),
         NEW a \in Entries(available), NEW b \in Entries(available)
  PROVE  Precedes(MergePriority(stored, available), a, b)
           <=> MergedPlace(stored, available)[a] < MergedPlace(stored, available)[b]
<1>1. PICK m : m = MergePriority(stored, available)
  OBVIOUS
<1>2. PICK place : place = MergedPlace(stored, available)
  OBVIOUS
<1>3. /\ Entries(m) = Entries(available)
      /\ \A i, j \in 1 .. Len(m) : i < j <=> place[m[i]] < place[m[j]]
  BY <1>1, <1>2, MergeIs
<1>4. PICK i, j \in 1 .. Len(m) : m[i] = a /\ m[j] = b
  BY <1>3 DEF Entries
<1>5. ASSUME place[a] < place[b] PROVE Precedes(m, a, b)
  BY <1>3, <1>4, <1>5 DEF Precedes
<1>6. ASSUME Precedes(m, a, b) PROVE place[a] < place[b]
  BY <1>3, <1>6 DEF Precedes
<1> QED
  BY <1>1, <1>2, <1>5, <1>6

Unrepeated(seq) == \A i, j \in 1 .. Len(seq) : seq[i] = seq[j] => i = j

LEMMA PlaceOnce ==
  ASSUME NEW seq, Len(seq) \in Nat, Unrepeated(seq), NEW i \in 1 .. Len(seq)
  PROVE  Place(seq, seq[i]) = i
<1>1. seq[i] \in Entries(seq)
  BY DEF Entries
<1>2. PICK p : p = Place(seq, seq[i])
  OBVIOUS
<1>3. p \in 1 .. Len(seq) /\ seq[p] = seq[i]
  BY <1>1, <1>2, PlaceIs
<1> QED
  BY <1>2, <1>3 DEF Unrepeated

\* An order in which nothing is repeated stays as it is.
LEMMA MergeKeeps ==
  ASSUME NEW stored, NEW available, Len(stored) \in Nat, Len(available) \in Nat, IsFiniteSet(Entries(available)),
         Unrepeated(stored), NEW a \in Entries(available), NEW b \in Entries(available), Precedes(stored, a, b)
  PROVE  Precedes(MergePriority(stored, available), a, b)
<1>1. PICK i, j \in 1 .. Len(stored) : i < j /\ stored[i] = a /\ stored[j] = b
  BY DEF Precedes
<1>2. a \in Entries(stored) /\ b \in Entries(stored)
  BY <1>1 DEF Entries
<1>3. Place(stored, a) = i /\ Place(stored, b) = j
  BY <1>1, PlaceOnce
<1>4. MergedPlace(stored, available)[a] = i /\ MergedPlace(stored, available)[b] = j
  BY <1>2, <1>3 DEF MergedPlace
<1> QED
  BY <1>1, <1>4, MergeOrders

-----------------------------------------------------------------------------
(* Identities and the names they get.                                      *)

Listed == ShippedLists \cup Pool.lists
Categorized == ShippedCategories \cup Pool.categories

\* What keeps its name.
Still == ShippedLists \cup ShippedCategories \cup {NoDevice}

RefIds == [kind \in Kinds |-> Entries(Refs[kind])]

\* Sets of identities, one for each kind, that have nothing in common.
Apart(ids) ==
  /\ \A kind \in Kinds : ids[kind] \cap Still = {}
  /\ \A kind, other \in Kinds : kind # other => ids[kind] \cap ids[other] = {}

LEMMA Identities ==
  Apart(Pool) /\ Apart(RefIds) /\ \A kind, other \in Kinds : Pool[kind] \cap RefIds[other] = {}
<1>1. \A kind \in Kinds : RefIds[kind] = Entries(Refs[kind])
  BY DEF RefIds
<1>2. \A kind \in Kinds : Pool[kind] \subseteq Drawn(kind) /\ RefIds[kind] \subseteq Drawn(kind)
  BY <1>1 DEF Drawn
<1>3. /\ \A kind \in Kinds : Drawn(kind) \cap Still = {} /\ Pool[kind] \cap RefIds[kind] = {}
      /\ \A kind, other \in Kinds : kind # other => Drawn(kind) \cap Drawn(other) = {}
  BY <1>1, IdentitiesApart DEF Still
<1>4. Apart(Pool)
  BY <1>2, <1>3 DEF Apart
<1>5. Apart(RefIds)
  BY <1>2, <1>3 DEF Apart
<1>6. \A kind, other \in Kinds : Pool[kind] \cap RefIds[other] = {}
  BY <1>2, <1>3
<1> QED
  BY <1>4, <1>5, <1>6

\* The rows and documents that have names of their own.
Holders(d) == DOMAIN d.lists \cup d.categories \cup DOMAIN d.profiles \cup DOMAIN d.devices \cup DOMAIN d.outputs

\* Each kind has its identities in its own set.
Within(d, ids) ==
  /\ DOMAIN d.lists \subseteq ids["lists"] /\ d.categories \subseteq ids["categories"]
  /\ DOMAIN d.profiles \subseteq ids["profiles"] /\ DOMAIN d.devices \subseteq ids["devices"]
  /\ DOMAIN d.outputs \subseteq ids["outputs"]

\* All that has a name of its own gets another one, of its kind.
Naming(name, d, to) ==
  /\ DOMAIN name = Holders(d)
  /\ \A x \in DOMAIN d.lists : name[x] \in to["lists"]
  /\ \A x \in d.categories : name[x] \in to["categories"]
  /\ \A x \in DOMAIN d.profiles : name[x] \in to["profiles"]
  /\ \A x \in DOMAIN d.devices : name[x] \in to["devices"]
  /\ \A x \in DOMAIN d.outputs : name[x] \in to["outputs"]
  /\ \A x, y \in DOMAIN name : name[x] = name[y] => x = y

\* No two of a set get the same name.
Faithful(name, set) == \A x, y \in set : To(name, x) = To(name, y) => x = y

LEMMA NamingIs ==
  ASSUME NEW name, NEW d, NEW from, NEW to, Apart(from), Apart(to), Within(d, from), Naming(name, d, to)
  PROVE  /\ \A x \in Still : x \notin DOMAIN name /\ To(name, x) = x
         /\ \A x \in DOMAIN name : To(name, x) = name[x] /\ \E kind \in Kinds : name[x] \in to[kind] /\ x \in from[kind]
         /\ Faithful(name, Still \cup DOMAIN name)
<1>1. \A x \in DOMAIN name : \E kind \in Kinds : name[x] \in to[kind] /\ x \in from[kind]
  BY DEF Naming, Holders, Within, Kinds
<1>2. \A x \in Still : x \notin DOMAIN name /\ To(name, x) = x
  BY <1>1 DEF Apart, To
<1>3. \A x \in DOMAIN name : To(name, x) = name[x] /\ name[x] \notin Still
  BY <1>1 DEF To, Apart
<1>4. \A x, y \in DOMAIN name : name[x] = name[y] => x = y
  BY DEF Naming
<1>5. Faithful(name, Still \cup DOMAIN name)
  BY <1>2, <1>3, <1>4 DEF Faithful
<1> QED
  BY <1>1, <1>2, <1>3, <1>5

\* A table under other names is the same table.
LEMMA KeyedIs ==
  ASSUME NEW name, NEW table, Faithful(name, DOMAIN table)
  PROVE  /\ DOMAIN Keyed(name, table) = All(name, DOMAIN table)
         /\ \A x \in DOMAIN table : Keyed(name, table)[To(name, x)] = table[x]
<1>1. DOMAIN Keyed(name, table) = All(name, DOMAIN table)
  BY DEF Keyed
<1>2. ASSUME NEW x \in DOMAIN table PROVE Keyed(name, table)[To(name, x)] = table[x]
  <2>1. PICK id : id = To(name, x)
    OBVIOUS
  <2>2. id \in All(name, DOMAIN table)
    BY <2>1 DEF All
  <2>3. Keyed(name, table)[id] = table[CHOOSE old \in DOMAIN table : To(name, old) = id]
    BY <2>2, Zenon DEF Keyed
  <2>4. (CHOOSE old \in DOMAIN table : To(name, old) = id) = x
    BY <2>1 DEF Faithful
  <2> QED
    BY <2>1, <2>3, <2>4
<1> QED
  BY <1>1, <1>2

LEMMA KeyedEqual ==
  ASSUME NEW name, NEW table, Faithful(name, DOMAIN table),
         NEW f, f = [id \in DOMAIN f |-> f[id]], DOMAIN f = All(name, DOMAIN table),
         \A x \in DOMAIN table : f[To(name, x)] = table[x]
  PROVE  f = Keyed(name, table)
<1>1. PICK g : g = Keyed(name, table)
  OBVIOUS
<1>2. g = [id \in DOMAIN g |-> g[id]]
  BY <1>1 DEF Keyed
<1>3. DOMAIN g = DOMAIN f /\ \A x \in DOMAIN table : g[To(name, x)] = f[To(name, x)]
  BY <1>1, KeyedIs
<1>4. \A id \in DOMAIN f : g[id] = f[id]
  BY <1>3 DEF All
<1> QED
  BY <1>1, <1>2, <1>3, <1>4

\* To rename twice is to rename once.
Chain(first, second, both, set) == \A x \in set : To(second, To(first, x)) = To(both, x)

LEMMA AllChain ==
  ASSUME NEW first, NEW second, NEW both, NEW set, Chain(first, second, both, set), NEW part, part \subseteq set
  PROVE  All(second, All(first, part)) = All(both, part)
<1>1. ASSUME NEW id \in All(second, All(first, part)) PROVE id \in All(both, part)
  BY DEF Chain, All
<1>2. ASSUME NEW id \in All(both, part) PROVE id \in All(second, All(first, part))
  <2>1. PICK x \in part : id = To(both, x)
    BY DEF All
  <2>2. id = To(second, To(first, x)) /\ To(first, x) \in All(first, part)
    BY <2>1 DEF Chain, All
  <2> QED
    BY <2>2 DEF All
<1> QED
  BY <1>1, <1>2

LEMMA KeyedChain ==
  ASSUME NEW first, NEW second, NEW both, NEW table, Chain(first, second, both, DOMAIN table),
         Faithful(first, DOMAIN table), Faithful(both, DOMAIN table)
  PROVE  Keyed(second, Keyed(first, table)) = Keyed(both, table)
<1>1. PICK m : m = Keyed(first, table)
  OBVIOUS
<1>2. DOMAIN m = All(first, DOMAIN table) /\ \A x \in DOMAIN table : m[To(first, x)] = table[x]
  BY <1>1, KeyedIs
<1>3. Faithful(second, DOMAIN m)
  BY <1>2 DEF Faithful, Chain, All
<1>4. PICK f : f = Keyed(second, m)
  OBVIOUS
<1>5. f = [id \in DOMAIN f |-> f[id]]
  BY <1>4 DEF Keyed
<1>6. DOMAIN f = All(second, DOMAIN m) /\ \A y \in DOMAIN m : f[To(second, y)] = m[y]
  BY <1>3, <1>4, KeyedIs
<1>7. DOMAIN f = All(both, DOMAIN table)
  BY <1>2, <1>6, AllChain
<1>8. ASSUME NEW x \in DOMAIN table PROVE f[To(both, x)] = table[x]
  BY <1>2, <1>6 DEF All, Chain
<1> QED
  BY <1>1, <1>4, <1>5, <1>7, <1>8, KeyedEqual

\* Rows that name others.
LEMMA AboutIs ==
  ASSUME NEW name, NEW x, "list" \in DOMAIN x
  PROVE  /\ DOMAIN About(name, x) = DOMAIN x /\ About(name, x).list = To(name, x.list)
         /\ \A part \in DOMAIN x : part # "list" => About(name, x)[part] = x[part]
         /\ About(name, x) = [part \in DOMAIN x |-> IF part = "list" THEN To(name, x.list) ELSE x[part]]
BY DEF About

Abouts(name, rows) == {About(name, x) : x \in rows}
Belongings(name, rows) == {Belonging(name, m) : m \in rows}

LEMMA AboutChain ==
  ASSUME NEW first, NEW second, NEW both, NEW set, Chain(first, second, both, set),
         NEW rows, \A x \in rows : "list" \in DOMAIN x /\ x.list \in set
  PROVE  Abouts(second, Abouts(first, rows)) = Abouts(both, rows)
<1>1. ASSUME NEW x \in rows PROVE About(second, About(first, x)) = About(both, x)
  <2>1. PICK y : y = About(first, x)
    OBVIOUS
  <2>2. /\ DOMAIN y = DOMAIN x /\ y.list = To(first, x.list) /\ "list" \in DOMAIN y
        /\ \A part \in DOMAIN x : part # "list" => y[part] = x[part]
    BY <2>1, AboutIs
  <2>3. To(second, y.list) = To(both, x.list)
    BY <2>2 DEF Chain
  <2>4. About(second, y) = [part \in DOMAIN y |-> IF part = "list" THEN To(second, y.list) ELSE y[part]]
    BY <2>2, AboutIs
  <2>5. About(both, x) = [part \in DOMAIN x |-> IF part = "list" THEN To(both, x.list) ELSE x[part]]
    BY AboutIs
  <2> QED
    BY <2>1, <2>2, <2>3, <2>4, <2>5
<1> QED
  BY <1>1 DEF Abouts

LEMMA BelongingChain ==
  ASSUME NEW first, NEW second, NEW both, NEW set, Chain(first, second, both, set), NEW rows,
         \A m \in rows : {"category", "list"} \subseteq DOMAIN m /\ m.category \in set /\ m.list \in set
  PROVE  Belongings(second, Belongings(first, rows)) = Belongings(both, rows)
<1>1. ASSUME NEW m \in rows PROVE Belonging(second, Belonging(first, m)) = Belonging(both, m)
  <2>1. PICK n : n = Belonging(first, m)
    OBVIOUS
  <2>2. /\ DOMAIN n = DOMAIN m /\ n.category = To(first, m.category) /\ n.list = To(first, m.list)
        /\ \A part \in DOMAIN m : part \notin {"category", "list"} => n[part] = m[part]
    BY <2>1 DEF Belonging
  <2>3. To(second, n.category) = To(both, m.category) /\ To(second, n.list) = To(both, m.list)
    BY <2>2 DEF Chain
  <2>4. Belonging(second, n) = [part \in DOMAIN n |-> IF part = "list" THEN To(second, n.list)
                                                      ELSE IF part = "category" THEN To(second, n.category) ELSE n[part]]
    BY <2>2 DEF Belonging
  <2>5. Belonging(both, m) = [part \in DOMAIN m |-> IF part = "list" THEN To(both, m.list)
                                                    ELSE IF part = "category" THEN To(both, m.category) ELSE m[part]]
    BY DEF Belonging
  <2> QED
    BY <2>1, <2>2, <2>3, <2>4, <2>5
<1> QED
  BY <1>1 DEF Belongings

LEMMA ReboundChain ==
  ASSUME NEW first, NEW second, NEW both, NEW set, Chain(first, second, both, set),
         NEW o, {"profile", "device"} \subseteq DOMAIN o, o.profile \in set, o.device \in set
  PROVE  Rebound(second, Rebound(first, o)) = Rebound(both, o)
<1>1. PICK n : n = Rebound(first, o)
  OBVIOUS
<1>2. /\ DOMAIN n = DOMAIN o /\ n.profile = To(first, o.profile) /\ n.device = To(first, o.device)
      /\ \A part \in DOMAIN o : part \notin {"profile", "device"} => n[part] = o[part]
  BY <1>1 DEF Rebound
<1>3. To(second, n.profile) = To(both, o.profile) /\ To(second, n.device) = To(both, o.device)
  BY <1>2 DEF Chain
<1>4. Rebound(second, n) = [part \in DOMAIN n |-> IF part = "device" THEN To(second, n.device)
                                                  ELSE IF part = "profile" THEN To(second, n.profile) ELSE n[part]]
  BY <1>2 DEF Rebound
<1>5. Rebound(both, o) = [part \in DOMAIN o |-> IF part = "device" THEN To(both, o.device)
                                                ELSE IF part = "profile" THEN To(both, o.profile) ELSE o[part]]
  BY DEF Rebound
<1> QED
  BY <1>1, <1>2, <1>3, <1>4, <1>5

-----------------------------------------------------------------------------
(* A document under other names.                                           *)

\* Apart from the order of its lists, which is settled on its own.
ProfileRenamed(name, p, q) ==
  /\ q.lists = All(name, p.lists) /\ q.categories = All(name, p.categories) /\ q.exclusions = All(name, p.exclusions)
  /\ q.domains = Keyed(name, p.domains) /\ q.archived = p.archived

ProfilesRenamed(name, a, b) ==
  /\ DOMAIN b.profiles = All(name, DOMAIN a.profiles)
  /\ \A k \in DOMAIN a.profiles : ProfileRenamed(name, a.profiles[k], b.profiles[To(name, k)])

OutputsRenamed(name, a, b) ==
  b.outputs = Keyed(name, [k \in DOMAIN a.outputs |-> Rebound(name, a.outputs[k])])

Renames(name, a, b) ==
  /\ b.interval = a.interval /\ b.removals = a.removals
  /\ b.lists = Keyed(name, a.lists) /\ b.categories = All(name, a.categories)
  /\ b.memberships = Belongings(name, a.memberships)
  /\ b.off = Abouts(name, a.off) /\ b.words = Abouts(name, a.words)
  /\ ProfilesRenamed(name, a, b)
  /\ b.devices = Keyed(name, a.devices) /\ OutputsRenamed(name, a, b)

\* All that a document speaks of.
SpeaksInProfile(p, set) == p.lists \cup p.categories \cup p.exclusions \cup DOMAIN p.domains \subseteq set
Speaks(d, set) ==
  /\ Holders(d) \subseteq set
  /\ \A m \in d.memberships : {"category", "list"} \subseteq DOMAIN m /\ m.category \in set /\ m.list \in set
  /\ \A x \in d.off \cup d.words : "list" \in DOMAIN x /\ x.list \in set
  /\ \A k \in DOMAIN d.profiles : SpeaksInProfile(d.profiles[k], set)
  /\ \A k \in DOMAIN d.outputs : /\ {"profile", "device"} \subseteq DOMAIN d.outputs[k]
                                 /\ d.outputs[k].profile \in set /\ d.outputs[k].device \in set

LEMMA FaithfulPart ==
  ASSUME NEW name, NEW set, Faithful(name, set), NEW part, part \subseteq set
  PROVE  Faithful(name, part)
BY DEF Faithful

LEMMA ChainPart ==
  ASSUME NEW first, NEW second, NEW both, NEW set, Chain(first, second, both, set), NEW part, part \subseteq set
  PROVE  Chain(first, second, both, part)
BY DEF Chain

\* The first, the second and the two together, over all that a document speaks of.
Twice(first, second, both, set) == Chain(first, second, both, set) /\ Faithful(first, set) /\ Faithful(both, set)

LEMMA KeyedTwice ==
  ASSUME NEW first, NEW second, NEW both, NEW set, Twice(first, second, both, set), NEW table, DOMAIN table \subseteq set
  PROVE  Keyed(second, Keyed(first, table)) = Keyed(both, table)
BY KeyedChain, FaithfulPart, ChainPart DEF Twice

LEMMA ProfileTwice ==
  ASSUME NEW first, NEW second, NEW both, NEW set, Twice(first, second, both, set),
         NEW p, NEW q, NEW r, SpeaksInProfile(p, set), ProfileRenamed(first, p, q), ProfileRenamed(second, q, r)
  PROVE  ProfileRenamed(both, p, r)
<1>1. r.domains = Keyed(both, p.domains)
  BY KeyedTwice DEF SpeaksInProfile, ProfileRenamed
<1>2. \A part : part \subseteq set => All(second, All(first, part)) = All(both, part)
  BY AllChain DEF Twice
<1>3. r.lists = All(both, p.lists) /\ r.categories = All(both, p.categories) /\ r.exclusions = All(both, p.exclusions)
  BY <1>2 DEF SpeaksInProfile, ProfileRenamed
<1> QED
  BY <1>1, <1>3 DEF ProfileRenamed

LEMMA ProfilesTwice ==
  ASSUME NEW first, NEW second, NEW both, NEW set, Twice(first, second, both, set),
         NEW a, NEW b, NEW c, Speaks(a, set), ProfilesRenamed(first, a, b), ProfilesRenamed(second, b, c)
  PROVE  ProfilesRenamed(both, a, c)
<1>1. DOMAIN a.profiles \subseteq set
  BY DEF Speaks, Holders
<1>2. DOMAIN c.profiles = All(both, DOMAIN a.profiles)
  BY <1>1, AllChain DEF Twice, ProfilesRenamed
<1>3. ASSUME NEW k \in DOMAIN a.profiles PROVE ProfileRenamed(both, a.profiles[k], c.profiles[To(both, k)])
  <2>1. To(first, k) \in DOMAIN b.profiles /\ To(second, To(first, k)) = To(both, k)
    BY <1>1 DEF ProfilesRenamed, All, Twice, Chain
  <2>2. /\ ProfileRenamed(first, a.profiles[k], b.profiles[To(first, k)])
        /\ ProfileRenamed(second, b.profiles[To(first, k)], c.profiles[To(both, k)])
    BY <2>1 DEF ProfilesRenamed
  <2>3. SpeaksInProfile(a.profiles[k], set)
    BY DEF Speaks
  <2> QED
    BY <2>2, <2>3, ProfileTwice
<1> QED
  BY <1>2, <1>3 DEF ProfilesRenamed

LEMMA OutputsTwice ==
  ASSUME NEW first, NEW second, NEW both, NEW set, Twice(first, second, both, set),
         NEW a, NEW b, NEW c, Speaks(a, set), OutputsRenamed(first, a, b), OutputsRenamed(second, b, c)
  PROVE  OutputsRenamed(both, a, c)
<1>1. PICK one : one = [k \in DOMAIN a.outputs |-> Rebound(first, a.outputs[k])]
  OBVIOUS
<1>2. PICK two : two = [k \in DOMAIN b.outputs |-> Rebound(second, b.outputs[k])]
  OBVIOUS
<1>3. PICK all : all = [k \in DOMAIN a.outputs |-> Rebound(both, a.outputs[k])]
  OBVIOUS
<1>4. DOMAIN a.outputs \subseteq set /\ DOMAIN one = DOMAIN a.outputs /\ DOMAIN all = DOMAIN a.outputs
  BY <1>1, <1>3 DEF Speaks, Holders
<1>5. Faithful(first, DOMAIN one) /\ Faithful(both, DOMAIN all)
  BY <1>4, FaithfulPart DEF Twice
<1>6. b.outputs = Keyed(first, one) /\ c.outputs = Keyed(second, two)
  BY <1>1, <1>2 DEF OutputsRenamed
<1>7. /\ DOMAIN b.outputs = All(first, DOMAIN a.outputs)
      /\ \A k \in DOMAIN a.outputs : b.outputs[To(first, k)] = one[k]
  BY <1>4, <1>5, <1>6, KeyedIs
<1>8. DOMAIN two = DOMAIN b.outputs
  BY <1>2
<1>9. Faithful(second, DOMAIN two)
  BY <1>4, <1>7, <1>8 DEF Faithful, Twice, Chain, All
<1>10. DOMAIN c.outputs = All(second, DOMAIN b.outputs) /\ \A y \in DOMAIN b.outputs : c.outputs[To(second, y)] = two[y]
  BY <1>6, <1>8, <1>9, KeyedIs
<1>11. DOMAIN c.outputs = All(both, DOMAIN all)
  BY <1>4, <1>7, <1>10, AllChain DEF Twice
<1>12. ASSUME NEW k \in DOMAIN all PROVE c.outputs[To(both, k)] = all[k]
  <2>1. To(first, k) \in DOMAIN b.outputs /\ To(second, To(first, k)) = To(both, k)
    BY <1>4, <1>7 DEF All, Twice, Chain
  <2>2. c.outputs[To(both, k)] = Rebound(second, b.outputs[To(first, k)])
    BY <1>2, <1>10, <2>1
  <2>3. b.outputs[To(first, k)] = Rebound(first, a.outputs[k])
    BY <1>1, <1>4, <1>7
  <2>4. Rebound(second, Rebound(first, a.outputs[k])) = Rebound(both, a.outputs[k])
    BY <1>4, ReboundChain DEF Speaks, Twice
  <2> QED
    BY <1>3, <1>4, <2>2, <2>3, <2>4
<1>13. c.outputs = [id \in DOMAIN c.outputs |-> c.outputs[id]]
  BY <1>6 DEF Keyed
<1>14. c.outputs = Keyed(both, all)
  BY <1>5, <1>11, <1>12, <1>13, KeyedEqual
<1> QED
  BY <1>3, <1>14 DEF OutputsRenamed

LEMMA RenamesTwice ==
  ASSUME NEW first, NEW second, NEW both, NEW set, Twice(first, second, both, set),
         NEW a, NEW b, NEW c, Speaks(a, set), Renames(first, a, b), Renames(second, b, c)
  PROVE  Renames(both, a, c)
<1>1. DOMAIN a.lists \subseteq set /\ a.categories \subseteq set /\ DOMAIN a.devices \subseteq set
  BY DEF Speaks, Holders
<1>2. c.lists = Keyed(both, a.lists) /\ c.devices = Keyed(both, a.devices)
  BY <1>1, KeyedTwice DEF Renames
<1>3. c.categories = All(both, a.categories)
  BY <1>1, AllChain DEF Renames, Twice
<1>4. c.memberships = Belongings(both, a.memberships)
  <2>1. \A m \in a.memberships : {"category", "list"} \subseteq DOMAIN m /\ m.category \in set /\ m.list \in set
    BY DEF Speaks
  <2>2. Belongings(second, Belongings(first, a.memberships)) = Belongings(both, a.memberships)
    BY <2>1, BelongingChain DEF Twice
  <2> QED
    BY <2>2 DEF Renames
<1>5. c.off = Abouts(both, a.off) /\ c.words = Abouts(both, a.words)
  <2>1. \A x \in a.off \cup a.words : "list" \in DOMAIN x /\ x.list \in set
    BY DEF Speaks
  <2>2. /\ Abouts(second, Abouts(first, a.off)) = Abouts(both, a.off)
        /\ Abouts(second, Abouts(first, a.words)) = Abouts(both, a.words)
    BY <2>1, AboutChain DEF Twice
  <2> QED
    BY <2>2 DEF Renames
<1>7. ProfilesRenamed(both, a, c) /\ OutputsRenamed(both, a, c)
  BY ProfilesTwice, OutputsTwice DEF Renames
<1>8. c.interval = a.interval /\ c.removals = a.removals
  BY DEF Renames
<1> QED
  BY <1>2, <1>3, <1>4, <1>5, <1>7, <1>8 DEF Renames

-----------------------------------------------------------------------------
(* What a composition stands for does not depend on names.                 *)

LEMMA AllBut ==
  ASSUME NEW name, NEW set, Faithful(name, set), NEW a, a \subseteq set, NEW b, b \subseteq set, NEW u, u = a \ b
  PROVE  All(name, u) = All(name, a) \ All(name, b) /\ u \subseteq set
<1>1. All(name, u) \subseteq All(name, a) \ All(name, b)
  BY DEF All, Faithful
<1>2. All(name, a) \ All(name, b) \subseteq All(name, u)
  BY DEF All
<1> QED
  BY <1>1, <1>2

LEMMA AllEither ==
  ASSUME NEW name, NEW set, NEW a, a \subseteq set, NEW b, b \subseteq set, NEW u, u = a \cup b
  PROVE  All(name, u) = All(name, a) \cup All(name, b) /\ u \subseteq set
BY DEF All

LEMMA AllBoth ==
  ASSUME NEW name, NEW set, Faithful(name, set), NEW a, a \subseteq set, NEW b, b \subseteq set, NEW u, u = a \cap b
  PROVE  All(name, u) = All(name, a) \cap All(name, b) /\ u \subseteq set
<1>1. All(name, u) \subseteq All(name, a) \cap All(name, b)
  BY DEF All
<1>2. All(name, a) \cap All(name, b) \subseteq All(name, u)
  BY DEF All, Faithful
<1> QED
  BY <1>1, <1>2

\* What is shipped keeps its name, and nothing else gets it.
Moves(name, d) ==
  /\ Faithful(name, Still \cup Holders(d)) /\ \A x \in Still : To(name, x) = x
  /\ Holders(d) \cap Still = {}

LEMMA StillAll ==
  ASSUME NEW name, NEW d, Moves(name, d), NEW set, set \subseteq Still
  PROVE  All(name, set) = set
BY DEF Moves, All

\* What a release ships, apart from what is found on the network.
IsShipment(c) ==
  /\ c.lists \subseteq Still /\ DOMAIN c.carries \subseteq Still
  /\ \A k \in DOMAIN c.carries : c.carries[k] \subseteq c.lists

LEMMA PortableIs ==
  ASSUME NEW c \in Catalogs, NEW p, p = Portable(c)
  PROVE  /\ IsShipment(p) /\ p.lists = c.lists \ c.local /\ DOMAIN p.carries = PortableCategories(c)
         /\ \A k \in PortableCategories(c) : p.carries[k] = c.carries[k]
         /\ IsFiniteSet(p.lists) /\ p.lists \subseteq Nat
         /\ IsFiniteSet(DOMAIN p.carries) /\ DOMAIN p.carries \subseteq Nat
<1>1. PICK categories : categories = PortableCategories(c)
  OBVIOUS
<1>2. p = [c EXCEPT !.lists = @ \ c.local, !.carries = [k \in categories |-> @[k]]]
  BY <1>1 DEF Portable
<1>3. {"lists", "carries"} \subseteq DOMAIN c
  BY CatalogsAreFinite
<1>4. p.lists = c.lists \ c.local /\ p.carries = [k \in categories |-> c.carries[k]]
  BY <1>2, <1>3
<1>5. DOMAIN p.carries = categories /\ \A k \in categories : p.carries[k] = c.carries[k]
  BY <1>4
<1>6. c.lists \subseteq ShippedLists /\ DOMAIN c.carries \subseteq ShippedCategories
  BY DEF ShippedLists, ShippedCategories
<1>7. categories \subseteq DOMAIN c.carries /\ \A k \in categories : c.carries[k] \cap c.local = {}
  BY <1>1 DEF PortableCategories
<1>8. /\ IsFiniteSet(c.lists) /\ c.lists \subseteq Nat /\ IsFiniteSet(DOMAIN c.carries) /\ DOMAIN c.carries \subseteq Nat
      /\ \A k \in DOMAIN c.carries : c.carries[k] \subseteq c.lists
  BY CatalogsAreFinite
<1>9. IsShipment(p)
  BY <1>4, <1>5, <1>6, <1>7, <1>8 DEF IsShipment, Still
<1>10. IsFiniteSet(p.lists) /\ IsFiniteSet(DOMAIN p.carries)
  BY <1>4, <1>5, <1>7, <1>8, FS_Subset
<1> QED
  BY <1>1, <1>4, <1>5, <1>7, <1>8, <1>9, <1>10

\* A document that speaks of what goes with it or is shipped everywhere.
SoundProfile(p, lists, categories) ==
  /\ p.lists \cup p.exclusions \cup DOMAIN p.domains \subseteq lists /\ p.categories \subseteq categories
  /\ Len(p.priority) \in Nat /\ Entries(p.priority) \subseteq lists
Sound(c, d) ==
  LET lists == c.lists \cup DOMAIN d.lists
      categories == DOMAIN c.carries \cup d.categories
  IN  /\ d.removals \subseteq c.lists \cup DOMAIN c.carries
      /\ \A m \in d.memberships : /\ {"category", "list", "state"} \subseteq DOMAIN m
                                  /\ m.category \in categories /\ m.list \in lists
      /\ \A x \in d.off \cup d.words : "list" \in DOMAIN x /\ x.list \in lists
      /\ \A k \in DOMAIN d.profiles : SoundProfile(d.profiles[k], lists, categories)
      /\ \A k \in DOMAIN d.outputs : /\ {"profile", "device"} \subseteq DOMAIN d.outputs[k]
                                     /\ d.outputs[k].profile \in DOMAIN d.profiles
                                     /\ d.outputs[k].device \in DOMAIN d.devices \cup {NoDevice}

LEMMA SoundSpeaks ==
  ASSUME NEW c, IsShipment(c), NEW d, Sound(c, d)
  PROVE  Speaks(d, Still \cup Holders(d))
<1>1. PICK lists, categories : lists = c.lists \cup DOMAIN d.lists /\ categories = DOMAIN c.carries \cup d.categories
  OBVIOUS
<1>2. lists \subseteq Still \cup Holders(d) /\ categories \subseteq Still \cup Holders(d)
  BY <1>1 DEF IsShipment, Holders
<1>3. \A k \in DOMAIN d.profiles : SpeaksInProfile(d.profiles[k], Still \cup Holders(d))
  BY <1>1, <1>2 DEF Sound, SoundProfile, SpeaksInProfile
<1>4. \A m \in d.memberships : /\ {"category", "list"} \subseteq DOMAIN m
                               /\ m.category \in Still \cup Holders(d) /\ m.list \in Still \cup Holders(d)
  BY <1>1, <1>2 DEF Sound
<1>5. \A x \in d.off \cup d.words : "list" \in DOMAIN x /\ x.list \in Still \cup Holders(d)
  BY <1>1, <1>2 DEF Sound
<1>6. DOMAIN d.profiles \subseteq Holders(d) /\ DOMAIN d.devices \cup {NoDevice} \subseteq Still \cup Holders(d)
  BY DEF Holders, Still
<1>7. \A k \in DOMAIN d.outputs : /\ {"profile", "device"} \subseteq DOMAIN d.outputs[k]
                                  /\ d.outputs[k].profile \in Still \cup Holders(d)
                                  /\ d.outputs[k].device \in Still \cup Holders(d)
  BY <1>6 DEF Sound
<1> QED
  BY <1>3, <1>4, <1>5, <1>7 DEF Speaks

LEMMA StatedAll ==
  ASSUME NEW c, IsShipment(c), NEW name, NEW a, NEW b, Moves(name, a), Sound(c, a),
         b.memberships = Belongings(name, a.memberships), NEW k \in Still \cup Holders(a), NEW state
  PROVE  Stated(b, To(name, k), state) = All(name, Stated(a, k, state))
<1>1. ASSUME NEW m \in a.memberships
      PROVE  /\ {"category", "list", "state"} \subseteq DOMAIN m
             /\ m.category \in Still \cup Holders(a) /\ m.list \in Still \cup Holders(a)
  BY DEF Sound, IsShipment, Holders
<1>2. ASSUME NEW m \in a.memberships
      PROVE  /\ Belonging(name, m).category = To(name, m.category) /\ Belonging(name, m).list = To(name, m.list)
             /\ Belonging(name, m).state = m.state
  BY <1>1 DEF Belonging
<1>3. ASSUME NEW l \in Stated(b, To(name, k), state) PROVE l \in All(name, Stated(a, k, state))
  <2>1. PICK n \in b.memberships : n.category = To(name, k) /\ n.state = state /\ l = n.list
    BY DEF Stated
  <2>2. PICK m \in a.memberships : n = Belonging(name, m)
    BY <2>1 DEF Belongings
  <2>3. m.category = k
    BY <1>1, <1>2, <2>1, <2>2 DEF Moves, Faithful
  <2>4. m.list \in Stated(a, k, state)
    BY <1>2, <2>1, <2>2, <2>3 DEF Stated
  <2> QED
    BY <1>2, <2>1, <2>2, <2>4 DEF All
<1>4. ASSUME NEW l \in All(name, Stated(a, k, state)) PROVE l \in Stated(b, To(name, k), state)
  <2>1. PICK m \in a.memberships : m.category = k /\ m.state = state /\ l = To(name, m.list)
    BY DEF Stated, All
  <2>2. Belonging(name, m) \in b.memberships
    BY DEF Belongings
  <2> QED
    BY <1>2, <2>1, <2>2 DEF Stated
<1> QED
  BY <1>3, <1>4

LEMMA StatedLists ==
  ASSUME NEW c, IsShipment(c), NEW d, Sound(c, d), NEW k, NEW state
  PROVE  Stated(d, k, state) \subseteq c.lists \cup DOMAIN d.lists
BY DEF Stated, Sound

LEMMA ShippedAll ==
  ASSUME NEW c, IsShipment(c), NEW name, NEW a, Moves(name, a), NEW k \in Still \cup Holders(a)
  PROVE  Shipped(c, To(name, k)) = All(name, Shipped(c, k))
<1>1. CASE k \in DOMAIN c.carries
  <2>1. k \in Still /\ c.carries[k] \subseteq Still
    BY <1>1 DEF IsShipment
  <2>2. To(name, k) = k /\ All(name, c.carries[k]) = c.carries[k]
    BY <2>1, StillAll DEF Moves
  <2> QED
    BY <1>1, <2>2 DEF Shipped
<1>2. CASE k \notin DOMAIN c.carries
  <2>1. To(name, k) \notin DOMAIN c.carries
    BY <1>2 DEF IsShipment, Moves, Faithful
  <2> QED
    BY <1>2, <2>1 DEF Shipped, All
<1> QED
  BY <1>1, <1>2

LEMMA MembersLists ==
  ASSUME NEW c, IsShipment(c), NEW d, Sound(c, d), NEW k
  PROVE  Members(c, d, k) \subseteq c.lists \cup DOMAIN d.lists /\ Shipped(c, k) \subseteq c.lists
BY StatedLists DEF Members, Shipped, IsShipment

LEMMA MembersAll ==
  ASSUME NEW c, IsShipment(c), NEW name, NEW a, NEW b, Moves(name, a), Sound(c, a), Renames(name, a, b),
         NEW k \in Still \cup Holders(a)
  PROVE  Members(c, b, To(name, k)) = All(name, Members(c, a, k))
<1>1. PICK set : set = Still \cup Holders(a)
  OBVIOUS
<1>2. /\ Stated(b, To(name, k), "removed") = All(name, Stated(a, k, "removed"))
      /\ Stated(b, To(name, k), "added") = All(name, Stated(a, k, "added"))
  BY StatedAll DEF Renames
<1>3. Shipped(c, To(name, k)) = All(name, Shipped(c, k))
  BY ShippedAll
<1>4. c.lists \cup DOMAIN a.lists \subseteq set
  BY <1>1 DEF IsShipment, Holders
<1>5. PICK s, r, n : s = Shipped(c, k) /\ r = Stated(a, k, "removed") /\ n = Stated(a, k, "added")
  OBVIOUS
<1>6. s \subseteq set /\ r \subseteq set /\ n \subseteq set
  BY <1>4, <1>5, StatedLists, MembersLists
<1>7. Faithful(name, set)
  BY <1>1 DEF Moves
<1>8. PICK u : u = s \ r
  OBVIOUS
<1>9. All(name, u) = All(name, s) \ All(name, r) /\ u \subseteq set
  BY <1>6, <1>7, <1>8, AllBut
<1>10. PICK v : v = u \cup n
  OBVIOUS
<1>11. All(name, v) = All(name, u) \cup All(name, n)
  BY <1>6, <1>9, <1>10, AllEither
<1>12. Members(c, b, To(name, k)) = All(name, u) \cup All(name, n)
  BY <1>2, <1>3, <1>5, <1>9 DEF Members
<1>13. Members(c, a, k) = v
  BY <1>5, <1>8, <1>10 DEF Members
<1> QED
  BY <1>11, <1>12, <1>13

LEMMA KnownAll ==
  ASSUME NEW c, IsShipment(c), NEW name, NEW a, NEW b, Moves(name, a), Renames(name, a, b)
  PROVE  KnownLists(c.lists, b) = All(name, KnownLists(c.lists, a)) /\ DOMAIN b.lists = All(name, DOMAIN a.lists)
<1>1. DOMAIN a.lists \subseteq Still \cup Holders(a) /\ c.lists \ a.removals \subseteq Still
  BY DEF IsShipment, Holders
<1>2. Faithful(name, Still \cup Holders(a)) /\ Faithful(name, DOMAIN a.lists)
  BY <1>1, FaithfulPart DEF Moves
<1>3. DOMAIN b.lists = All(name, DOMAIN a.lists)
  BY <1>2, KeyedIs DEF Renames
<1>4. All(name, c.lists \ a.removals) = c.lists \ a.removals
  BY <1>1, StillAll
<1>5. PICK own, other : own = DOMAIN a.lists /\ other = c.lists \ a.removals
  OBVIOUS
<1>6. KnownLists(c.lists, a) = other \cup own
  BY <1>5 DEF KnownLists
<1>7. All(name, KnownLists(c.lists, a)) = All(name, other) \cup All(name, own)
  BY <1>1, <1>5, <1>6, AllEither
<1>8. KnownLists(c.lists, b) = other \cup All(name, own)
  BY <1>3, <1>5 DEF KnownLists, Renames
<1> QED
  BY <1>3, <1>4, <1>5, <1>7, <1>8

\* What the categories of a set carry.
Carried(c, d, set) == UNION {Members(c, d, k) : k \in set}

LEMMA CarriedAll ==
  ASSUME NEW c, IsShipment(c), NEW name, NEW a, NEW b, Moves(name, a), Sound(c, a), Renames(name, a, b),
         NEW set, set \subseteq Still \cup Holders(a)
  PROVE  /\ Carried(c, b, All(name, set)) = All(name, Carried(c, a, set))
         /\ Carried(c, a, set) \subseteq c.lists \cup DOMAIN a.lists
<1>1. \A k \in set : Members(c, b, To(name, k)) = All(name, Members(c, a, k))
  BY MembersAll
<1>2. Carried(c, b, All(name, set)) = UNION {Members(c, b, k) : k \in All(name, set)}
  BY DEF Carried
<1>3. \A l : l \in Carried(c, b, All(name, set)) <=> \E k \in set : l \in Members(c, b, To(name, k))
  BY <1>2 DEF All
<1>4. \A l : l \in Carried(c, a, set) <=> \E k \in set : l \in Members(c, a, k)
  BY DEF Carried
<1>5. \A l : l \in All(name, Carried(c, a, set)) <=> \E k \in set : l \in All(name, Members(c, a, k))
  BY <1>4 DEF All
<1>6. Carried(c, b, All(name, set)) = All(name, Carried(c, a, set))
  BY <1>1, <1>3, <1>5
<1> QED
  BY <1>4, <1>6, MembersLists

LEMMA ResolvedIs ==
  ASSUME NEW c, NEW d, NEW p, NEW known
  PROVE  Resolved(c, d, p, known) = ((p.lists \cup Carried(c, d, p.categories \ d.removals)) \ p.exclusions) \cap known
BY DEF Resolved, Carried

LEMMA ResolvedAll ==
  ASSUME NEW c, IsShipment(c), NEW name, NEW a, NEW b, Moves(name, a), Sound(c, a), Renames(name, a, b),
         NEW p, NEW q, SpeaksInProfile(p, Still \cup Holders(a)), ProfileRenamed(name, p, q)
  PROVE  Resolved(c, b, q, KnownLists(c.lists, b)) = All(name, Resolved(c, a, p, KnownLists(c.lists, a)))
<1>1. PICK set : set = Still \cup Holders(a)
  OBVIOUS
<1>2. PICK k, g, lists, out : k = KnownLists(c.lists, a) /\ g = p.categories /\ lists = p.lists /\ out = p.exclusions
  OBVIOUS
<1>3. g \subseteq set /\ lists \subseteq set /\ out \subseteq set
  BY <1>1, <1>2 DEF SpeaksInProfile
<1>4. a.removals \subseteq Still
  BY DEF Sound, IsShipment
<1>5. Faithful(name, set)
  BY <1>1 DEF Moves
<1>6. PICK r : r = a.removals
  OBVIOUS
<1>7. All(name, r) = r /\ r \subseteq set
  BY <1>1, <1>4, <1>6, StillAll
<1>8. PICK h : h = g \ r
  OBVIOUS
<1>9. All(name, h) = All(name, g) \ All(name, r) /\ h \subseteq set
  BY <1>3, <1>5, <1>7, <1>8, AllBut
<1>10. PICK carried : carried = Carried(c, a, h)
  OBVIOUS
<1>11. Carried(c, b, All(name, h)) = All(name, carried) /\ carried \subseteq c.lists \cup DOMAIN a.lists
  <2>1. h \subseteq Still \cup Holders(a)
    BY <1>1, <1>9
  <2>2. Carried(c, b, All(name, h)) = All(name, Carried(c, a, h)) /\ Carried(c, a, h) \subseteq c.lists \cup DOMAIN a.lists
    BY <2>1, CarriedAll
  <2> QED
    BY <1>10, <2>2
<1>12. carried \subseteq set /\ k \subseteq set
  BY <1>1, <1>2, <1>11 DEF IsShipment, Holders, KnownLists
<1>13. PICK u, v : u = lists \cup carried /\ v = u \ out
  OBVIOUS
<1>14. All(name, u) = All(name, lists) \cup All(name, carried) /\ u \subseteq set
  BY <1>3, <1>12, <1>13, AllEither
<1>15. All(name, v) = All(name, u) \ All(name, out) /\ v \subseteq set
  BY <1>3, <1>5, <1>13, <1>14, AllBut
<1>16. PICK w : w = v \cap k
  OBVIOUS
<1>22. All(name, w) = All(name, v) \cap All(name, k)
  BY <1>5, <1>12, <1>15, <1>16, AllBoth
<1>17. KnownLists(c.lists, b) = All(name, k)
  BY <1>2, KnownAll
<1>18. b.removals = r /\ q.lists = All(name, lists) /\ q.categories = All(name, g) /\ q.exclusions = All(name, out)
  BY <1>2, <1>6 DEF Renames, ProfileRenamed
<1>19. Resolved(c, b, q, KnownLists(c.lists, b))
         = ((All(name, lists) \cup Carried(c, b, All(name, h))) \ All(name, out)) \cap All(name, k)
  <2>1. q.categories \ b.removals = All(name, h)
    BY <1>7, <1>9, <1>18
  <2>2. PICK x, y, z, n : x = q.lists /\ y = Carried(c, b, q.categories \ b.removals) /\ z = q.exclusions
                          /\ n = KnownLists(c.lists, b)
    OBVIOUS
  <2>3. Resolved(c, b, q, n) = ((x \cup y) \ z) \cap n
    BY <2>2, ResolvedIs
  <2>4. x = All(name, lists) /\ y = Carried(c, b, All(name, h)) /\ z = All(name, out) /\ n = All(name, k)
    BY <1>17, <1>18, <2>1, <2>2
  <2> QED
    BY <2>2, <2>3, <2>4
<1>20. Resolved(c, b, q, KnownLists(c.lists, b)) = All(name, w)
  BY <1>11, <1>14, <1>15, <1>19, <1>22
<1>21. Resolved(c, a, p, k) = w
  <2>1. Resolved(c, a, p, k) = ((p.lists \cup Carried(c, a, p.categories \ a.removals)) \ p.exclusions) \cap k
    BY ResolvedIs
  <2> QED
    BY <1>2, <1>6, <1>8, <1>10, <1>13, <1>16, <2>1
<1> QED
  BY <1>2, <1>20, <1>21

-----------------------------------------------------------------------------
(* What an operator sees of an installation, part by part.                 *)

MeansLists(c, d) == [l \in KnownLists(c.lists, d) |-> IF l \in DOMAIN d.lists THEN d.lists[l] ELSE "shipped"]
MeansMembers(c, d) ==
  [k \in (DOMAIN c.carries \cup d.categories) \ d.removals |-> Members(c, d, k) \cap KnownLists(c.lists, d)]
MeansOff(d) == {x \in d.off : x.source \notin DOMAIN d.feeds}
MeansProfile(c, d, p) ==
  [routed |-> Resolved(c, d, p, KnownLists(c.lists, d)), named |-> p.lists, categories |-> p.categories,
   domains |-> p.domains, archived |-> p.archived]
MeansProfiles(c, d) == [k \in DOMAIN d.profiles |-> MeansProfile(c, d, d.profiles[k])]

LEMMA MeaningIs ==
  ASSUME NEW c, NEW d
  PROVE  Meaning(c, d) =
           [interval |-> IF d.interval = "unset" THEN "off" ELSE d.interval, lists |-> MeansLists(c, d),
            members |-> MeansMembers(c, d), off |-> MeansOff(d), words |-> d.words, profiles |-> MeansProfiles(c, d),
            devices |-> d.devices, outputs |-> d.outputs]
BY Zenon DEF Meaning, MeansLists, MeansMembers, MeansOff, MeansProfile, MeansProfiles

Reprofile(name, p) ==
  [p EXCEPT !.routed = All(name, @), !.named = All(name, @), !.categories = All(name, @), !.domains = Keyed(name, @)]
Reprofiled(name, profiles) == Keyed(name, [k \in DOMAIN profiles |-> Reprofile(name, profiles[k])])
Regrouped(name, members) == Keyed(name, [k \in DOMAIN members |-> All(name, members[k])])
Reoutput(name, outputs) == Keyed(name, [k \in DOMAIN outputs |-> Rebound(name, outputs[k])])

LEMMA RenamingIs ==
  ASSUME NEW name, NEW interval, NEW lists, NEW members, NEW off, NEW words, NEW profiles, NEW devices, NEW outputs
  PROVE  Renaming([interval |-> interval, lists |-> lists, members |-> members, off |-> off, words |-> words,
                   profiles |-> profiles, devices |-> devices, outputs |-> outputs], name) =
           [interval |-> interval, lists |-> Keyed(name, lists), members |-> Regrouped(name, members),
            off |-> Abouts(name, off), words |-> Abouts(name, words), profiles |-> Reprofiled(name, profiles),
            devices |-> Keyed(name, devices), outputs |-> Reoutput(name, outputs)]
<1>1. PICK m : m = [interval |-> interval, lists |-> lists, members |-> members, off |-> off, words |-> words,
                   profiles |-> profiles, devices |-> devices, outputs |-> outputs]
  OBVIOUS
<1>2. Renaming(m, name) =
        [m EXCEPT !.lists = Keyed(name, @), !.members = Regrouped(name, @), !.off = Abouts(name, @), !.words = Abouts(name, @),
                  !.profiles = Reprofiled(name, @), !.devices = Keyed(name, @), !.outputs = Reoutput(name, @)]
  BY Zenon DEF Renaming, Regrouped, Abouts, Reprofiled, Reprofile, Reoutput
<1> QED
  BY <1>1, <1>2

LEMMA MeansListsAll ==
  ASSUME NEW c, IsShipment(c), NEW name, NEW a, NEW b, Moves(name, a), Renames(name, a, b)
  PROVE  Keyed(name, MeansLists(c, a)) = MeansLists(c, b)
<1>1. PICK set : set = Still \cup Holders(a)
  OBVIOUS
<1>2. KnownLists(c.lists, a) \subseteq set /\ DOMAIN a.lists \subseteq set /\ DOMAIN a.lists \subseteq KnownLists(c.lists, a)
  BY <1>1 DEF KnownLists, IsShipment, Holders
<1>3. KnownLists(c.lists, b) = All(name, KnownLists(c.lists, a)) /\ DOMAIN b.lists = All(name, DOMAIN a.lists)
  BY KnownAll
<1>4. Faithful(name, set)
  BY <1>1 DEF Moves
<1>5. PICK t, f : t = MeansLists(c, a) /\ f = MeansLists(c, b)
  OBVIOUS
<1>6. /\ DOMAIN t = KnownLists(c.lists, a)
      /\ \A l \in KnownLists(c.lists, a) : t[l] = IF l \in DOMAIN a.lists THEN a.lists[l] ELSE "shipped"
  BY <1>5 DEF MeansLists
<1>7. /\ DOMAIN f = KnownLists(c.lists, b) /\ f = [l \in DOMAIN f |-> f[l]]
      /\ \A l \in KnownLists(c.lists, b) : f[l] = IF l \in DOMAIN b.lists THEN b.lists[l] ELSE "shipped"
  BY <1>5 DEF MeansLists
<1>8. Faithful(name, DOMAIN t) /\ Faithful(name, DOMAIN a.lists)
  BY <1>2, <1>4, <1>6, FaithfulPart
<1>9. \A l \in DOMAIN a.lists : b.lists[To(name, l)] = a.lists[l]
  BY <1>8, KeyedIs DEF Renames
<1>10. \A l \in DOMAIN t : l \in DOMAIN a.lists <=> To(name, l) \in DOMAIN b.lists
  BY <1>2, <1>3, <1>4, <1>6 DEF Faithful, All
<1>11. \A l \in DOMAIN t : f[To(name, l)] = t[l]
  BY <1>3, <1>6, <1>7, <1>9, <1>10 DEF All
<1> QED
  BY <1>3, <1>5, <1>6, <1>7, <1>8, <1>11, KeyedEqual

LEMMA GroupsAll ==
  ASSUME NEW c, IsShipment(c), NEW name, NEW a, NEW b, Moves(name, a), Sound(c, a), Renames(name, a, b)
  PROVE  /\ (DOMAIN c.carries \cup b.categories) \ b.removals = All(name, (DOMAIN c.carries \cup a.categories) \ a.removals)
         /\ (DOMAIN c.carries \cup a.categories) \ a.removals \subseteq Still \cup Holders(a)
<1>1. PICK set : set = Still \cup Holders(a)
  OBVIOUS
<1>2. PICK s, g, r : s = DOMAIN c.carries /\ g = a.categories /\ r = a.removals
  OBVIOUS
<1>3. s \subseteq set /\ g \subseteq set /\ r \subseteq set /\ All(name, s) = s /\ All(name, r) = r
  BY <1>1, <1>2, StillAll DEF IsShipment, Holders, Sound
<1>4. Faithful(name, set)
  BY <1>1 DEF Moves
<1>5. PICK u, v : u = s \cup g /\ v = u \ r
  OBVIOUS
<1>6. All(name, u) = s \cup All(name, g) /\ u \subseteq set
  BY <1>3, <1>5, AllEither
<1>7. All(name, v) = All(name, u) \ r /\ v \subseteq set
  BY <1>3, <1>4, <1>5, <1>6, AllBut
<1>8. b.categories = All(name, g) /\ b.removals = r
  BY <1>2 DEF Renames
<1> QED
  BY <1>1, <1>2, <1>5, <1>6, <1>7, <1>8

LEMMA MeansMembersAll ==
  ASSUME NEW c, IsShipment(c), NEW name, NEW a, NEW b, Moves(name, a), Sound(c, a), Renames(name, a, b)
  PROVE  Regrouped(name, MeansMembers(c, a)) = MeansMembers(c, b)
<1>1. PICK groups : groups = (DOMAIN c.carries \cup a.categories) \ a.removals
  OBVIOUS
<1>2. groups \subseteq Still \cup Holders(a)
  BY <1>1, GroupsAll
<1>3. (DOMAIN c.carries \cup b.categories) \ b.removals = All(name, groups)
  BY <1>1, GroupsAll
<1>4. KnownLists(c.lists, b) = All(name, KnownLists(c.lists, a))
  BY KnownAll
<1>5. PICK m, t, f : m = MeansMembers(c, a) /\ t = [k \in DOMAIN m |-> All(name, m[k])] /\ f = MeansMembers(c, b)
  OBVIOUS
<1>6. DOMAIN m = groups /\ \A k \in groups : m[k] = Members(c, a, k) \cap KnownLists(c.lists, a)
  BY <1>1, <1>5 DEF MeansMembers
<1>7. DOMAIN t = groups /\ \A k \in groups : t[k] = All(name, Members(c, a, k) \cap KnownLists(c.lists, a))
  BY <1>5, <1>6
<1>8. /\ DOMAIN f = All(name, groups) /\ f = [k \in DOMAIN f |-> f[k]]
      /\ \A k \in All(name, groups) : f[k] = Members(c, b, k) \cap KnownLists(c.lists, b)
  BY <1>3, <1>5 DEF MeansMembers
<1>9. Faithful(name, DOMAIN t)
  BY <1>2, <1>7, FaithfulPart DEF Moves
<1>10. ASSUME NEW k \in DOMAIN t PROVE f[To(name, k)] = t[k]
  <2>1. PICK x, y, w : x = Members(c, a, k) /\ y = KnownLists(c.lists, a) /\ w = x \cap y
    OBVIOUS
  <2>2. Members(c, b, To(name, k)) = All(name, x)
    BY <1>2, <1>7, <2>1, MembersAll
  <2>3. x \subseteq Still \cup Holders(a) /\ y \subseteq Still \cup Holders(a)
    BY <2>1, MembersLists DEF IsShipment, Holders, KnownLists
  <2>4. All(name, w) = All(name, x) \cap All(name, y)
    BY <2>1, <2>3, AllBoth DEF Moves
  <2>5. f[To(name, k)] = All(name, x) \cap All(name, y)
    BY <1>4, <1>7, <1>8, <2>1, <2>2 DEF All
  <2> QED
    BY <1>7, <2>1, <2>4, <2>5
<1>11. f = Keyed(name, t)
  BY <1>7, <1>8, <1>9, <1>10, KeyedEqual
<1>12. Regrouped(name, m) = Keyed(name, t)
  BY <1>5, Zenon DEF Regrouped
<1> QED
  BY <1>5, <1>11, <1>12

LEMMA MeansProfilesAll ==
  ASSUME NEW c, IsShipment(c), NEW name, NEW a, NEW b, Moves(name, a), Sound(c, a), Renames(name, a, b)
  PROVE  Reprofiled(name, MeansProfiles(c, a)) = MeansProfiles(c, b)
<1>1. PICK m, t, f : /\ m = MeansProfiles(c, a) /\ t = [k \in DOMAIN m |-> Reprofile(name, m[k])]
                     /\ f = MeansProfiles(c, b)
  OBVIOUS
<1>2. DOMAIN m = DOMAIN a.profiles /\ \A k \in DOMAIN m : m[k] = MeansProfile(c, a, a.profiles[k])
  BY <1>1 DEF MeansProfiles
<1>3. DOMAIN t = DOMAIN a.profiles /\ \A k \in DOMAIN t : t[k] = Reprofile(name, m[k])
  BY <1>1, <1>2
<1>4. /\ DOMAIN f = DOMAIN b.profiles /\ f = [k \in DOMAIN f |-> f[k]]
      /\ \A k \in DOMAIN f : f[k] = MeansProfile(c, b, b.profiles[k])
  BY <1>1 DEF MeansProfiles
<1>5. DOMAIN b.profiles = All(name, DOMAIN a.profiles)
  BY DEF Renames, ProfilesRenamed
<1>6. DOMAIN a.profiles \subseteq Still \cup Holders(a)
  BY DEF Holders
<1>7. Faithful(name, DOMAIN t)
  BY <1>3, <1>6, FaithfulPart DEF Moves
<1>8. ASSUME NEW k \in DOMAIN t PROVE f[To(name, k)] = t[k]
  <2>1. PICK p, q : p = a.profiles[k] /\ q = b.profiles[To(name, k)]
    OBVIOUS
  <2>2. ProfileRenamed(name, p, q)
    BY <1>3, <2>1 DEF Renames, ProfilesRenamed
  <2>3. SpeaksInProfile(p, Still \cup Holders(a))
    BY <1>3, <2>1, SoundSpeaks DEF Speaks
  <2>4. Resolved(c, b, q, KnownLists(c.lists, b)) = All(name, Resolved(c, a, p, KnownLists(c.lists, a)))
    BY <2>2, <2>3, ResolvedAll
  <2>5. f[To(name, k)] = MeansProfile(c, b, q)
    BY <1>3, <1>4, <1>5, <2>1 DEF All
  <2>6. t[k] = Reprofile(name, MeansProfile(c, a, p))
    BY <1>2, <1>3, <2>1
  <2>7. Reprofile(name, MeansProfile(c, a, p)) =
          [routed |-> All(name, Resolved(c, a, p, KnownLists(c.lists, a))), named |-> All(name, p.lists),
           categories |-> All(name, p.categories), domains |-> Keyed(name, p.domains), archived |-> p.archived]
    <3>1. PICK n, r : n = MeansProfile(c, a, p) /\ r = Resolved(c, a, p, KnownLists(c.lists, a))
      OBVIOUS
    <3>2. n = [routed |-> r, named |-> p.lists, categories |-> p.categories, domains |-> p.domains, archived |-> p.archived]
      BY <3>1, Zenon DEF MeansProfile
    <3>3. Reprofile(name, n) = [n EXCEPT !.routed = All(name, @), !.named = All(name, @), !.categories = All(name, @),
                                         !.domains = Keyed(name, @)]
      BY Zenon DEF Reprofile
    <3>4. Reprofile(name, n) = [routed |-> All(name, r), named |-> All(name, p.lists), categories |-> All(name, p.categories),
                                domains |-> Keyed(name, p.domains), archived |-> p.archived]
      BY <3>2, <3>3
    <3> QED
      BY <3>1, <3>4
  <2>8. MeansProfile(c, b, q) =
          [routed |-> Resolved(c, b, q, KnownLists(c.lists, b)), named |-> q.lists, categories |-> q.categories,
           domains |-> q.domains, archived |-> q.archived]
    BY Zenon DEF MeansProfile
  <2> QED
    BY <2>2, <2>4, <2>5, <2>6, <2>7, <2>8 DEF ProfileRenamed
<1>9. f = Keyed(name, t)
  BY <1>3, <1>4, <1>5, <1>7, <1>8, KeyedEqual
<1>10. Reprofiled(name, m) = Keyed(name, t)
  BY <1>1, Zenon DEF Reprofiled
<1> QED
  BY <1>1, <1>9, <1>10

\* The document of some rows.
Document(rows, d) ==
  /\ d.interval = IF rows.interval = "unset" THEN "off" ELSE rows.interval
  /\ d.order = rows.order /\ d.lists = rows.lists /\ d.categories = rows.categories
  /\ d.memberships = rows.memberships /\ d.removals = rows.removals /\ d.off = MeansOff(rows) /\ d.words = rows.words
  /\ d.profiles = rows.profiles /\ d.devices = rows.devices /\ d.outputs = rows.outputs

LEMMA SameReading ==
  ASSUME NEW c, NEW e, e.lists = c.lists, e.carries = c.carries, NEW a, NEW d, d.lists = a.lists, d.categories = a.categories,
         d.memberships = a.memberships, d.removals = a.removals
  PROVE  /\ KnownLists(e.lists, d) = KnownLists(c.lists, a)
         /\ \A k : Members(e, d, k) = Members(c, a, k)
         /\ \A p, known : Resolved(e, d, p, known) = Resolved(c, a, p, known)
         /\ MeansLists(e, d) = MeansLists(c, a) /\ MeansMembers(e, d) = MeansMembers(c, a)
         /\ d.profiles = a.profiles => MeansProfiles(e, d) = MeansProfiles(c, a)
<1>1. KnownLists(e.lists, d) = KnownLists(c.lists, a)
  BY DEF KnownLists
<1>2. ASSUME NEW k PROVE Members(e, d, k) = Members(c, a, k)
  <2>1. \A state : Stated(d, k, state) = Stated(a, k, state)
    BY DEF Stated
  <2>2. Shipped(e, k) = Shipped(c, k)
    BY DEF Shipped
  <2> QED
    BY <2>1, <2>2 DEF Members
<1>3. ASSUME NEW p, NEW known PROVE Resolved(e, d, p, known) = Resolved(c, a, p, known)
  <2>1. PICK g : g = p.categories \ a.removals
    OBVIOUS
  <2>2. Carried(e, d, g) = Carried(c, a, g)
    BY <1>2 DEF Carried
  <2>3. p.categories \ d.removals = g
    BY <2>1
  <2>4. /\ Resolved(e, d, p, known) = ((p.lists \cup Carried(e, d, p.categories \ d.removals)) \ p.exclusions) \cap known
        /\ Resolved(c, a, p, known) = ((p.lists \cup Carried(c, a, p.categories \ a.removals)) \ p.exclusions) \cap known
    BY ResolvedIs
  <2> QED
    BY <2>1, <2>2, <2>3, <2>4
<1>4. MeansLists(e, d) = MeansLists(c, a)
  BY <1>1 DEF MeansLists
<1>5. MeansMembers(e, d) = MeansMembers(c, a)
  BY <1>1, <1>2 DEF MeansMembers
<1>6. ASSUME d.profiles = a.profiles PROVE MeansProfiles(e, d) = MeansProfiles(c, a)
  <2>1. ASSUME NEW p PROVE MeansProfile(e, d, p) = MeansProfile(c, a, p)
    BY <1>1, <1>3 DEF MeansProfile
  <2> QED
    BY <1>6, <2>1 DEF MeansProfiles
<1> QED
  BY <1>1, <1>2, <1>3, <1>4, <1>5, <1>6

\* An installation that got a document under other names is one of the same meaning.
LEMMA MeaningAll ==
  ASSUME NEW c, IsShipment(c), NEW e, e.lists = c.lists, e.carries = c.carries, NEW rows, NEW d, Document(rows, d),
         NEW name, Moves(name, d), Sound(c, d), NEW here, Renames(name, d, here), here.feeds = Nothing
  PROVE  Renaming(Meaning(c, rows), name) = Meaning(e, here)
<1>1. /\ MeansLists(c, rows) = MeansLists(c, d) /\ MeansMembers(c, rows) = MeansMembers(c, d)
      /\ MeansProfiles(c, rows) = MeansProfiles(c, d)
  BY SameReading DEF Document
<1>2. /\ MeansLists(e, here) = MeansLists(c, here) /\ MeansMembers(e, here) = MeansMembers(c, here)
      /\ MeansProfiles(e, here) = MeansProfiles(c, here)
  BY SameReading
<1>3. PICK i : i = IF rows.interval = "unset" THEN "off" ELSE rows.interval
  OBVIOUS
<1>4. here.interval = i /\ (IF here.interval = "unset" THEN "off" ELSE here.interval) = i
  BY <1>3 DEF Renames, Document
<1>5. Keyed(name, MeansLists(c, rows)) = MeansLists(e, here)
  BY <1>1, <1>2, MeansListsAll
<1>6. Regrouped(name, MeansMembers(c, rows)) = MeansMembers(e, here)
  BY <1>1, <1>2, MeansMembersAll
<1>7. Reprofiled(name, MeansProfiles(c, rows)) = MeansProfiles(e, here)
  BY <1>1, <1>2, MeansProfilesAll
<1>8. Abouts(name, MeansOff(rows)) = MeansOff(here)
  <2>1. here.off = Abouts(name, MeansOff(rows))
    BY DEF Renames, Document
  <2>2. MeansOff(here) = here.off
    BY DEF MeansOff, Nothing
  <2> QED
    BY <2>1, <2>2
<1>9. Abouts(name, rows.words) = here.words /\ Keyed(name, rows.devices) = here.devices
  BY DEF Renames, Document
<1>10. Reoutput(name, rows.outputs) = here.outputs
  BY DEF Renames, Document, OutputsRenamed, Reoutput
<1>11. Meaning(c, rows) =
         [interval |-> i, lists |-> MeansLists(c, rows), members |-> MeansMembers(c, rows), off |-> MeansOff(rows),
          words |-> rows.words, profiles |-> MeansProfiles(c, rows), devices |-> rows.devices, outputs |-> rows.outputs]
  BY <1>3, MeaningIs
<1>12. Renaming(Meaning(c, rows), name) =
         [interval |-> i, lists |-> Keyed(name, MeansLists(c, rows)), members |-> Regrouped(name, MeansMembers(c, rows)),
          off |-> Abouts(name, MeansOff(rows)), words |-> Abouts(name, rows.words),
          profiles |-> Reprofiled(name, MeansProfiles(c, rows)), devices |-> Keyed(name, rows.devices),
          outputs |-> Reoutput(name, rows.outputs)]
  BY <1>11, RenamingIs
<1>13. Meaning(e, here) =
         [interval |-> i, lists |-> MeansLists(e, here), members |-> MeansMembers(e, here), off |-> MeansOff(here),
          words |-> here.words, profiles |-> MeansProfiles(e, here), devices |-> here.devices, outputs |-> here.outputs]
  BY <1>4, MeaningIs
<1> QED
  BY <1>5, <1>6, <1>7, <1>8, <1>9, <1>10, <1>12, <1>13

-----------------------------------------------------------------------------
(* Names for the identities of a document.                                 *)

Into(f, set) == \A x \in DOMAIN f : f[x] \in set
Unlike(f) == \A x, y \in DOMAIN f : f[x] = f[y] => x = y

\* The greater of two identities has the later reference.
Ascending(n, ids, refs) ==
  \A x, y \in ids : x < y => \E i, j \in 1 .. Cardinality(ids) : i < j /\ n[x] = refs[i] /\ n[y] = refs[j]

LEMMA NumberedIs ==
  ASSUME NEW ids, IsFiniteSet(ids), ids \subseteq Nat, NEW refs, Len(refs) \in Nat, DOMAIN refs = 1 .. Len(refs),
         IsInjective(refs), Cardinality(ids) <= Len(refs), NEW n, n = Numbered(ids, refs)
  PROVE  DOMAIN n = ids /\ Into(n, Entries(refs)) /\ Unlike(n) /\ Ascending(n, ids, refs)
<1>1. PICK place : place = [x \in ids |-> x]
  OBVIOUS
<1>2. Ranked(ids, place) /\ \A x \in ids : place[x] = x /\ x \in Nat
  BY <1>1 DEF Ranked
<1>3. PICK at : at = [x \in ids |-> Cardinality({other \in ids : other <= x})]
  OBVIOUS
<1>4. ASSUME NEW x \in ids
      PROVE  /\ at[x] = Cardinality(Before(ids, place, x)) + 1 /\ at[x] \in 1 .. Cardinality(ids)
             /\ Cardinality(Before(ids, place, x)) \in Nat
  <2>1. PICK b : b = Before(ids, place, x)
    OBVIOUS
  <2>2. {other \in ids : other <= x} = b \cup {x} /\ x \notin b
    <3>1. \A y \in ids : y \in b <=> y < x
      BY <1>2, <2>1 DEF Before
    <3>2. b \subseteq ids /\ x \notin b
      BY <1>2, <2>1, <3>1 DEF Before
    <3>3. \A y \in ids : y <= x <=> y \in b \cup {x}
      BY <1>2, <3>1
    <3> QED
      BY <3>2, <3>3
  <2>3. IsFiniteSet(b) /\ Cardinality(b) \in 0 .. Cardinality(ids) - 1 /\ Cardinality(ids) \in Nat
    BY <1>2, <2>1, BeforeIs
  <2>4. Cardinality(b \cup {x}) = Cardinality(b) + 1
    BY <2>2, <2>3, FS_AddElement
  <2>5. at[x] = Cardinality({other \in ids : other <= x})
    BY <1>3, Zenon
  <2>6. at[x] = Cardinality(b) + 1
    BY <2>2, <2>4, <2>5
  <2> QED
    BY <2>1, <2>3, <2>6
<1>5. DOMAIN n = ids /\ \A x \in ids : n[x] = refs[at[x]]
  BY <1>3, Zenon DEF Numbered
<1>6. \A x, y \in ids : at[x] = at[y] => x = y
  BY <1>2, <1>4, BeforeGrows
<1>7. \A x, y \in ids : x < y => at[x] < at[y]
  BY <1>2, <1>4, BeforeGrows
<1>8. Cardinality(ids) \in Nat
  BY FS_CardinalityType
<1>9. \A x \in ids : at[x] \in 1 .. Len(refs)
  BY <1>4, <1>8
<1>10. Into(n, Entries(refs))
  BY <1>5, <1>9 DEF Into, Entries
<1>11. Unlike(n)
  BY <1>5, <1>6, <1>9 DEF Unlike, IsInjective
<1>12. Ascending(n, ids, refs)
  BY <1>4, <1>5, <1>7 DEF Ascending
<1> QED
  BY <1>5, <1>10, <1>11, <1>12

Joined(h, f, g) ==
  /\ DOMAIN h = DOMAIN f \cup DOMAIN g
  /\ \A x \in DOMAIN f : h[x] = f[x]
  /\ \A x \in DOMAIN g : x \notin DOMAIN f => h[x] = g[x]

LEMMA JoinIs ==
  ASSUME NEW f, NEW g
  PROVE  Joined(f ++ g, f, g)
BY DEF Joined, ++

\* One of these names for each kind.
NameParts(d, l, k, p, v, o) ==
  /\ DOMAIN l = DOMAIN d.lists /\ DOMAIN k = d.categories /\ DOMAIN p = DOMAIN d.profiles
  /\ DOMAIN v = DOMAIN d.devices /\ DOMAIN o = DOMAIN d.outputs

Agrees(name, f) == \A x \in DOMAIN f : name[x] = f[x]

LEMMA JoinedParts ==
  ASSUME NEW d, NEW from, Apart(from), Within(d, from), NEW l, NEW k, NEW p, NEW v, NEW o, NameParts(d, l, k, p, v, o),
         NEW name, name = l ++ k ++ p ++ v ++ o \/ name = l ++ (k ++ p ++ v ++ o)
  PROVE  /\ DOMAIN name = Holders(d) /\ name = [x \in DOMAIN name |-> name[x]]
         /\ Agrees(name, l) /\ Agrees(name, k) /\ Agrees(name, p) /\ Agrees(name, v) /\ Agrees(name, o)
<1>1. /\ DOMAIN l \cap DOMAIN k = {} /\ DOMAIN l \cap DOMAIN p = {} /\ DOMAIN l \cap DOMAIN v = {} /\ DOMAIN l \cap DOMAIN o = {}
      /\ DOMAIN k \cap DOMAIN p = {} /\ DOMAIN k \cap DOMAIN v = {} /\ DOMAIN k \cap DOMAIN o = {}
      /\ DOMAIN p \cap DOMAIN v = {} /\ DOMAIN p \cap DOMAIN o = {} /\ DOMAIN v \cap DOMAIN o = {}
  <2>1. /\ from["lists"] \cap from["categories"] = {} /\ from["lists"] \cap from["profiles"] = {}
        /\ from["lists"] \cap from["devices"] = {} /\ from["lists"] \cap from["outputs"] = {}
        /\ from["categories"] \cap from["profiles"] = {} /\ from["categories"] \cap from["devices"] = {}
        /\ from["categories"] \cap from["outputs"] = {} /\ from["profiles"] \cap from["devices"] = {}
        /\ from["profiles"] \cap from["outputs"] = {} /\ from["devices"] \cap from["outputs"] = {}
    BY DEF Apart, Kinds
  <2> QED
    BY <2>1 DEF Within, NameParts
<1>2. CASE name = l ++ k ++ p ++ v ++ o
  <2>1. PICK a : a = l ++ k
    OBVIOUS
  <2>2. PICK b : b = a ++ p
    OBVIOUS
  <2>3. PICK c : c = b ++ v
    OBVIOUS
  <2>4. name = c ++ o
    BY <1>2, <2>1, <2>2, <2>3
  <2>5. Joined(a, l, k)
    BY <2>1, JoinIs
  <2>6. Joined(b, a, p)
    BY <2>2, JoinIs
  <2>7. Joined(c, b, v)
    BY <2>3, JoinIs
  <2>8. Joined(name, c, o)
    BY <2>4, JoinIs
  <2>9. name = [x \in DOMAIN name |-> name[x]]
    BY <2>4 DEF ++
  <2>10. DOMAIN name = Holders(d)
    BY <2>5, <2>6, <2>7, <2>8 DEF Joined, Holders, NameParts
  <2>11. Agrees(name, l) /\ Agrees(name, k)
    BY <1>1, <2>5, <2>6, <2>7, <2>8 DEF Joined, Agrees
  <2>12. Agrees(name, p) /\ Agrees(name, v) /\ Agrees(name, o)
    BY <1>1, <2>5, <2>6, <2>7, <2>8 DEF Joined, Agrees
  <2> QED
    BY <2>9, <2>10, <2>11, <2>12
<1>3. CASE name = l ++ (k ++ p ++ v ++ o)
  <2>1. PICK a : a = k ++ p
    OBVIOUS
  <2>2. PICK b : b = a ++ v
    OBVIOUS
  <2>3. PICK c : c = b ++ o
    OBVIOUS
  <2>4. name = l ++ c
    BY <1>3, <2>1, <2>2, <2>3
  <2>5. Joined(a, k, p)
    BY <2>1, JoinIs
  <2>6. Joined(b, a, v)
    BY <2>2, JoinIs
  <2>7. Joined(c, b, o)
    BY <2>3, JoinIs
  <2>8. Joined(name, l, c)
    BY <2>4, JoinIs
  <2>9. name = [x \in DOMAIN name |-> name[x]]
    BY <2>4 DEF ++
  <2>10. DOMAIN name = Holders(d)
    BY <2>5, <2>6, <2>7, <2>8 DEF Joined, Holders, NameParts
  <2>11. Agrees(name, l) /\ Agrees(name, k)
    BY <1>1, <2>5, <2>6, <2>7, <2>8 DEF Joined, Agrees
  <2>12. Agrees(name, p) /\ Agrees(name, v) /\ Agrees(name, o)
    BY <1>1, <2>5, <2>6, <2>7, <2>8 DEF Joined, Agrees
  <2> QED
    BY <2>9, <2>10, <2>11, <2>12
<1> QED
  BY <1>2, <1>3

LEMMA JoinedNames ==
  ASSUME NEW d, NEW from, Apart(from), Within(d, from), NEW to, Apart(to),
         NEW l, NEW k, NEW p, NEW v, NEW o, NameParts(d, l, k, p, v, o),
         Unlike(l), Unlike(k), Unlike(p), Unlike(v), Unlike(o),
         Into(l, to["lists"]), Into(k, to["categories"]), Into(p, to["profiles"]), Into(v, to["devices"]), Into(o, to["outputs"]),
         NEW name, name = l ++ k ++ p ++ v ++ o \/ name = l ++ (k ++ p ++ v ++ o)
  PROVE  Naming(name, d, to)
<1>1. /\ DOMAIN name = Holders(d)
      /\ Agrees(name, l) /\ Agrees(name, k) /\ Agrees(name, p) /\ Agrees(name, v) /\ Agrees(name, o)
  BY JoinedParts
<1>2. /\ to["lists"] \cap to["categories"] = {} /\ to["lists"] \cap to["profiles"] = {}
      /\ to["lists"] \cap to["devices"] = {} /\ to["lists"] \cap to["outputs"] = {}
      /\ to["categories"] \cap to["profiles"] = {} /\ to["categories"] \cap to["devices"] = {}
      /\ to["categories"] \cap to["outputs"] = {} /\ to["profiles"] \cap to["devices"] = {}
      /\ to["profiles"] \cap to["outputs"] = {} /\ to["devices"] \cap to["outputs"] = {}
  BY DEF Apart, Kinds
<1>3. /\ \A x \in DOMAIN l : name[x] = l[x] /\ l[x] \in to["lists"]
      /\ \A x \in DOMAIN k : name[x] = k[x] /\ k[x] \in to["categories"]
      /\ \A x \in DOMAIN p : name[x] = p[x] /\ p[x] \in to["profiles"]
      /\ \A x \in DOMAIN v : name[x] = v[x] /\ v[x] \in to["devices"]
      /\ \A x \in DOMAIN o : name[x] = o[x] /\ o[x] \in to["outputs"]
  BY <1>1 DEF Agrees, Into
<1>4. DOMAIN name = DOMAIN l \cup DOMAIN k \cup DOMAIN p \cup DOMAIN v \cup DOMAIN o
  BY <1>1 DEF Holders, NameParts
<1>5. ASSUME NEW x \in DOMAIN name, NEW y \in DOMAIN name, name[x] = name[y] PROVE x = y
  <2>1. CASE x \in DOMAIN l
    BY <1>2, <1>3, <1>4, <1>5, <2>1 DEF Unlike
  <2>2. CASE x \in DOMAIN k
    BY <1>2, <1>3, <1>4, <1>5, <2>2 DEF Unlike
  <2>3. CASE x \in DOMAIN p
    BY <1>2, <1>3, <1>4, <1>5, <2>3 DEF Unlike
  <2>4. CASE x \in DOMAIN v
    BY <1>2, <1>3, <1>4, <1>5, <2>4 DEF Unlike
  <2>5. CASE x \in DOMAIN o
    BY <1>2, <1>3, <1>4, <1>5, <2>5 DEF Unlike
  <2> QED
    BY <1>4, <2>1, <2>2, <2>3, <2>4, <2>5
<1> QED
  BY <1>1, <1>3, <1>5 DEF Naming, NameParts

LEMMA PoolIs ==
  ASSUME NEW kind \in Kinds
  PROVE  /\ IsFiniteSet(Pool[kind]) /\ Pool[kind] \subseteq Nat
         /\ Len(Refs[kind]) \in Nat /\ DOMAIN Refs[kind] = 1 .. Len(Refs[kind]) /\ IsInjective(Refs[kind])
         /\ Cardinality(Pool[kind]) <= Len(Refs[kind])
         /\ IsFiniteSet(RefIds[kind]) /\ RefIds[kind] \subseteq Nat /\ RefIds[kind] = Entries(Refs[kind])
<1>1. /\ IsFiniteSet(Pool[kind]) /\ Pool[kind] \subseteq Nat
      /\ Refs[kind] \in Seq(Nat) /\ IsInjective(Refs[kind]) /\ Cardinality(Pool[kind]) <= Len(Refs[kind])
  BY IdentitiesApart
<1>2. RefIds[kind] = Entries(Refs[kind])
  BY DEF RefIds
<1>3. PICK r : r = Refs[kind]
  OBVIOUS
<1>4. r \in Seq(Nat) /\ Len(r) \in Nat /\ DOMAIN r = 1 .. Len(r)
  BY <1>1, <1>3
<1>5. Entries(r) \subseteq Nat
  BY <1>4 DEF Entries
<1>6. IsFiniteSet(Entries(r))
  <2>1. IsFiniteSet(1 .. Len(r))
    BY <1>4, FS_Interval
  <2>2. PICK g : g = [i \in 1 .. Len(r) |-> r[i]]
    OBVIOUS
  <2>3. g \in Surjection(1 .. Len(r), Entries(r))
    BY <2>2 DEF Surjection, Entries
  <2> QED
    BY <2>1, <2>3, FS_Surjection
<1> QED
  BY <1>1, <1>2, <1>3, <1>4, <1>5, <1>6

LEMMA SomeNumbered ==
  ASSUME NEW ids, NEW pool, IsFiniteSet(pool), pool \subseteq Nat, ids \subseteq pool,
         NEW refs, Len(refs) \in Nat, DOMAIN refs = 1 .. Len(refs), IsInjective(refs), Cardinality(ids) <= Len(refs),
         NEW n, n = Numbered(ids, refs)
  PROVE  DOMAIN n = ids /\ Into(n, Entries(refs)) /\ Unlike(n)
<1>1. IsFiniteSet(ids) /\ ids \subseteq Nat
  BY FS_Subset
<1> QED
  BY <1>1, NumberedIs

LEMMA ReferenceNumbers ==
  ASSUME NEW kind \in Kinds, NEW ids, ids \subseteq Pool[kind], NEW n, n = Numbered(ids, Refs[kind])
  PROVE  DOMAIN n = ids /\ Into(n, RefIds[kind]) /\ Unlike(n)
<1>1. PICK pool : pool = Pool[kind]
  OBVIOUS
<1>2. IsFiniteSet(pool) /\ pool \subseteq Nat /\ Cardinality(pool) <= Len(Refs[kind]) /\ Len(Refs[kind]) \in Nat
  BY <1>1, PoolIs
<1>3. IsFiniteSet(ids) /\ Cardinality(ids) <= Cardinality(pool)
  BY <1>1, <1>2, FS_Subset
<1>4. Cardinality(ids) \in Nat /\ Cardinality(pool) \in Nat
  BY <1>2, <1>3, FS_CardinalityType
<1>5. Cardinality(ids) <= Len(Refs[kind])
  BY <1>2, <1>3, <1>4
<1> QED
  BY <1>1, <1>2, <1>5, PoolIs, SomeNumbered

\* The references that a file gives to what it carries.
LEMMA ReferencesAre ==
  ASSUME NEW d, Within(d, Pool)
  PROVE  /\ Naming(References(d), d, RefIds)
         /\ Agrees(References(d), Numbered(DOMAIN d.lists, Refs.lists))
<1>1. PICK l, k, p, v, o :
        /\ l = Numbered(DOMAIN d.lists, Refs.lists) /\ k = Numbered(d.categories, Refs.categories)
        /\ p = Numbered(DOMAIN d.profiles, Refs.profiles) /\ v = Numbered(DOMAIN d.devices, Refs.devices)
        /\ o = Numbered(DOMAIN d.outputs, Refs.outputs)
  OBVIOUS
<1>2. {"lists", "categories", "profiles", "devices", "outputs"} = Kinds
  BY DEF Kinds
<1>3. DOMAIN l = DOMAIN d.lists /\ Into(l, RefIds["lists"]) /\ Unlike(l)
  BY <1>1, <1>2, ReferenceNumbers DEF Within
<1>4. DOMAIN k = d.categories /\ Into(k, RefIds["categories"]) /\ Unlike(k)
  BY <1>1, <1>2, ReferenceNumbers DEF Within
<1>5. DOMAIN p = DOMAIN d.profiles /\ Into(p, RefIds["profiles"]) /\ Unlike(p)
  BY <1>1, <1>2, ReferenceNumbers DEF Within
<1>6. DOMAIN v = DOMAIN d.devices /\ Into(v, RefIds["devices"]) /\ Unlike(v)
  BY <1>1, <1>2, ReferenceNumbers DEF Within
<1>7. DOMAIN o = DOMAIN d.outputs /\ Into(o, RefIds["outputs"]) /\ Unlike(o)
  BY <1>1, <1>2, ReferenceNumbers DEF Within
<1>8. References(d) = l ++ k ++ p ++ v ++ o
  BY <1>1 DEF References
<1>9. NameParts(d, l, k, p, v, o)
  BY <1>3, <1>4, <1>5, <1>6, <1>7 DEF NameParts
<1>10. PICK name : name = References(d)
  OBVIOUS
<1>11. Agrees(name, l)
  BY <1>8, <1>9, <1>10, Identities, JoinedParts
<1>12. Naming(name, d, RefIds)
  BY <1>3, <1>4, <1>5, <1>6, <1>7, <1>8, <1>9, <1>10, Identities, JoinedNames
<1> QED
  BY <1>1, <1>10, <1>11, <1>12

\* No more of a kind than the database may have.
Fits(d) ==
  /\ Cardinality(d.categories) <= Cardinality(Pool["categories"])
  /\ Cardinality(DOMAIN d.profiles) <= Cardinality(Pool["profiles"])
  /\ Cardinality(DOMAIN d.devices) <= Cardinality(Pool["devices"])
  /\ Cardinality(DOMAIN d.outputs) <= Cardinality(Pool["outputs"])

LEMMA FreshNumbers ==
  ASSUME NEW kind \in Kinds, NEW ids, ids \subseteq RefIds[kind], Cardinality(ids) <= Cardinality(Pool[kind]),
         NEW n, n = Numbered(ids, Ids(Pool[kind]))
  PROVE  DOMAIN n = ids /\ Into(n, Pool[kind]) /\ Unlike(n)
<1>1. PICK pool, refs : pool = Pool[kind] /\ refs = Ids(Pool[kind])
  OBVIOUS
<1>2. IsFiniteSet(pool) /\ pool \subseteq Nat
  BY <1>1, PoolIs
<1>3. /\ Entries(refs) = pool /\ Len(refs) \in Nat /\ DOMAIN refs = 1 .. Len(refs) /\ refs \in Seq(pool)
      /\ \A i, j \in 1 .. Len(refs) : i < j <=> refs[i] < refs[j]
  BY <1>1, <1>2, IdsAre
<1>4. Len(refs) = Cardinality(pool)
  <2>1. PICK place : place = [id \in pool |-> id]
    OBVIOUS
  <2>2. Ranked(pool, place)
    BY <1>2, <2>1 DEF Ranked
  <2>3. refs = Arranged(pool, place)
    BY <1>1, <2>1 DEF Ids
  <2> QED
    BY <1>2, <2>2, <2>3, ArrangedIs
<1>5. IsInjective(refs)
  <2>1. ASSUME NEW i \in 1 .. Len(refs), NEW j \in 1 .. Len(refs), refs[i] = refs[j] PROVE i = j
    <3>1. refs[i] \in pool /\ refs[j] \in pool
      BY <1>3 DEF Entries
    <3>2. refs[i] \in Nat
      BY <1>2, <3>1
    <3>3. ~ (refs[i] < refs[i])
      BY <3>2
    <3>4. i \in Nat /\ j \in Nat /\ ~ (i < j) /\ ~ (j < i)
      BY <1>3, <2>1, <3>3
    <3> QED
      BY <3>4
  <2> QED
    BY <1>3, <2>1 DEF IsInjective
<1>6. IsFiniteSet(RefIds[kind]) /\ RefIds[kind] \subseteq Nat
  BY PoolIs
<1>7. Cardinality(ids) <= Len(refs)
  BY <1>1, <1>4
<1> QED
  BY <1>1, <1>3, <1>5, <1>6, <1>7, SomeNumbered

\* The identities that an import draws.
LEMMA FreshNamesAre ==
  ASSUME NEW d, Within(d, RefIds), Fits(d), NEW name \in FreshNames(d)
  PROVE  Naming(name, d, Pool)
<1>1. PICK k, p, v, o :
        /\ k = Numbered(d.categories, Ids(Pool.categories)) /\ p = Numbered(DOMAIN d.profiles, Ids(Pool.profiles))
        /\ v = Numbered(DOMAIN d.devices, Ids(Pool.devices)) /\ o = Numbered(DOMAIN d.outputs, Ids(Pool.outputs))
  OBVIOUS
<1>2. PICK l \in [DOMAIN d.lists -> Pool.lists] : IsInjective(l) /\ name = l ++ (k ++ p ++ v ++ o)
  BY <1>1 DEF FreshNames
<1>3. {"lists", "categories", "profiles", "devices", "outputs"} = Kinds
  BY DEF Kinds
<1>4. DOMAIN l = DOMAIN d.lists /\ Into(l, Pool["lists"]) /\ Unlike(l)
  BY <1>2 DEF Into, Unlike, IsInjective
<1>5. DOMAIN k = d.categories /\ Into(k, Pool["categories"]) /\ Unlike(k)
  BY <1>1, <1>3, FreshNumbers DEF Within, Fits
<1>6. DOMAIN p = DOMAIN d.profiles /\ Into(p, Pool["profiles"]) /\ Unlike(p)
  BY <1>1, <1>3, FreshNumbers DEF Within, Fits
<1>7. DOMAIN v = DOMAIN d.devices /\ Into(v, Pool["devices"]) /\ Unlike(v)
  BY <1>1, <1>3, FreshNumbers DEF Within, Fits
<1>8. DOMAIN o = DOMAIN d.outputs /\ Into(o, Pool["outputs"]) /\ Unlike(o)
  BY <1>1, <1>3, FreshNumbers DEF Within, Fits
<1>9. NameParts(d, l, k, p, v, o)
  BY <1>4, <1>5, <1>6, <1>7, <1>8 DEF NameParts
<1> QED
  BY <1>2, <1>4, <1>5, <1>6, <1>7, <1>8, <1>9, Identities, JoinedNames

-----------------------------------------------------------------------------
(* To the references of a file and from there to new identities.           *)

\* What of each kind a document has gets the new names.
KindsRenamed(name, a, b) ==
  /\ DOMAIN b.lists = All(name, DOMAIN a.lists) /\ b.categories = All(name, a.categories)
  /\ DOMAIN b.profiles = All(name, DOMAIN a.profiles) /\ DOMAIN b.devices = All(name, DOMAIN a.devices)
  /\ DOMAIN b.outputs = All(name, DOMAIN a.outputs)

LEMMA NamingMoves ==
  ASSUME NEW name, NEW d, NEW from, NEW to, Apart(from), Apart(to), Within(d, from), Naming(name, d, to)
  PROVE  Moves(name, d) /\ \A x \in Holders(d) : x \notin Still /\ To(name, x) = name[x]
<1>1. DOMAIN name = Holders(d)
  BY DEF Naming
<1>2. /\ \A x \in Still : x \notin DOMAIN name /\ To(name, x) = x
      /\ \A x \in DOMAIN name : To(name, x) = name[x]
      /\ Faithful(name, Still \cup DOMAIN name)
  BY NamingIs
<1> QED
  BY <1>1, <1>2 DEF Moves

LEMMA KindsMove ==
  ASSUME NEW name, NEW a, NEW b, Moves(name, a), Renames(name, a, b)
  PROVE  KindsRenamed(name, a, b)
<1>1. \A part : part \subseteq Holders(a) => Faithful(name, part)
  BY FaithfulPart DEF Moves
<1>2. DOMAIN b.lists = All(name, DOMAIN a.lists) /\ DOMAIN b.devices = All(name, DOMAIN a.devices)
  BY <1>1, KeyedIs DEF Renames, Holders
<1>3. DOMAIN b.outputs = All(name, DOMAIN a.outputs)
  <2>1. PICK t : t = [k \in DOMAIN a.outputs |-> Rebound(name, a.outputs[k])]
    OBVIOUS
  <2>2. DOMAIN t = DOMAIN a.outputs /\ b.outputs = Keyed(name, t)
    BY <2>1 DEF Renames, OutputsRenamed
  <2>3. Faithful(name, DOMAIN t)
    BY <1>1, <2>2 DEF Holders
  <2> QED
    BY <2>2, <2>3, KeyedIs
<1>4. b.categories = All(name, a.categories) /\ DOMAIN b.profiles = All(name, DOMAIN a.profiles)
  BY DEF Renames, ProfilesRenamed
<1> QED
  BY <1>2, <1>3, <1>4 DEF KindsRenamed

LEMMA NamedWithin ==
  ASSUME NEW name, NEW a, NEW from, NEW to, Apart(from), Apart(to), Within(a, from), Naming(name, a, to),
         NEW b, KindsRenamed(name, a, b)
  PROVE  Within(b, to) /\ Holders(b) = All(name, Holders(a))
<1>1. \A x \in Holders(a) : To(name, x) = name[x]
  BY NamingMoves
<1>2. /\ \A x \in DOMAIN a.lists : To(name, x) \in to["lists"]
      /\ \A x \in a.categories : To(name, x) \in to["categories"]
      /\ \A x \in DOMAIN a.profiles : To(name, x) \in to["profiles"]
      /\ \A x \in DOMAIN a.devices : To(name, x) \in to["devices"]
      /\ \A x \in DOMAIN a.outputs : To(name, x) \in to["outputs"]
  BY <1>1 DEF Naming, Holders
<1>3. Within(b, to)
  BY <1>2 DEF Within, KindsRenamed, All
<1>4. Holders(b) = All(name, Holders(a))
  BY DEF KindsRenamed, Holders, All
<1> QED
  BY <1>3, <1>4

\* The two namings in one.
Through(first, second) == [x \in DOMAIN first |-> second[first[x]]]

LEMMA ThroughNames ==
  ASSUME NEW d, Within(d, Pool), NEW first, Naming(first, d, RefIds),
         NEW b, KindsRenamed(first, d, b), NEW second, Naming(second, b, Pool), NEW both, both = Through(first, second)
  PROVE  Naming(both, d, Pool) /\ Twice(first, second, both, Still \cup Holders(d))
<1>1. Apart(Pool) /\ Apart(RefIds)
  BY Identities
<1>2. Within(b, RefIds) /\ Holders(b) = All(first, Holders(d))
  BY <1>1, NamedWithin
<1>3. Moves(first, d) /\ \A x \in Holders(d) : x \notin Still /\ To(first, x) = first[x]
  BY <1>1, NamingMoves
<1>4. Moves(second, b) /\ \A x \in Holders(b) : x \notin Still /\ To(second, x) = second[x]
  BY <1>1, <1>2, NamingMoves
<1>5. DOMAIN first = Holders(d) /\ DOMAIN second = Holders(b)
  BY DEF Naming
<1>6. DOMAIN both = Holders(d) /\ \A x \in Holders(d) : both[x] = second[first[x]] /\ first[x] \in Holders(b)
  BY <1>2, <1>3, <1>5 DEF Through, All
<1>7. Naming(both, d, Pool)
  <2>1. \A x, y \in DOMAIN both : both[x] = both[y] => x = y
    BY <1>5, <1>6 DEF Naming
  <2>2. /\ \A x \in DOMAIN d.lists : first[x] \in DOMAIN b.lists
        /\ \A x \in d.categories : first[x] \in b.categories
        /\ \A x \in DOMAIN d.profiles : first[x] \in DOMAIN b.profiles
        /\ \A x \in DOMAIN d.devices : first[x] \in DOMAIN b.devices
        /\ \A x \in DOMAIN d.outputs : first[x] \in DOMAIN b.outputs
    BY <1>3 DEF KindsRenamed, All, Holders
  <2>3. /\ \A x \in DOMAIN d.lists : both[x] \in Pool["lists"]
        /\ \A x \in d.categories : both[x] \in Pool["categories"]
        /\ \A x \in DOMAIN d.profiles : both[x] \in Pool["profiles"]
        /\ \A x \in DOMAIN d.devices : both[x] \in Pool["devices"]
        /\ \A x \in DOMAIN d.outputs : both[x] \in Pool["outputs"]
    BY <1>6, <2>2 DEF Naming, Holders
  <2> QED
    BY <1>6, <2>1, <2>3 DEF Naming
<1>8. Moves(both, d) /\ \A x \in Holders(d) : To(both, x) = both[x]
  BY <1>1, <1>7, NamingMoves
<1>9. Chain(first, second, both, Still \cup Holders(d))
  <2>1. ASSUME NEW x \in Still PROVE To(second, To(first, x)) = To(both, x)
    BY <1>3, <1>4, <1>8 DEF Moves
  <2>2. ASSUME NEW x \in Holders(d) PROVE To(second, To(first, x)) = To(both, x)
    BY <1>3, <1>4, <1>6, <1>8
  <2> QED
    BY <2>1, <2>2 DEF Chain
<1> QED
  BY <1>3, <1>7, <1>8, <1>9 DEF Twice, Moves

\* Names of the identities of one database in the other are a correspondence.
LEMMA Corresponding ==
  ASSUME NEW name, NEW a, Within(a, Pool), Naming(name, a, Pool), name = [x \in DOMAIN name |-> name[x]],
         NEW b, KindsRenamed(name, a, b)
  PROVE  name \in Correspondences(a, b)
<1>1. PICK l, k, p, v, o :
        /\ l = [x \in DOMAIN a.lists |-> name[x]] /\ k = [x \in a.categories |-> name[x]]
        /\ p = [x \in DOMAIN a.profiles |-> name[x]] /\ v = [x \in DOMAIN a.devices |-> name[x]]
        /\ o = [x \in DOMAIN a.outputs |-> name[x]]
  OBVIOUS
<1>2. NameParts(a, l, k, p, v, o)
  BY <1>1 DEF NameParts
<1>3. PICK n : n = l ++ k ++ p ++ v ++ o
  OBVIOUS
<1>4. /\ DOMAIN n = Holders(a) /\ n = [x \in DOMAIN n |-> n[x]]
      /\ Agrees(n, l) /\ Agrees(n, k) /\ Agrees(n, p) /\ Agrees(n, v) /\ Agrees(n, o)
  BY <1>2, <1>3, Identities, JoinedParts
<1>5. DOMAIN name = Holders(a) /\ \A x, y \in DOMAIN name : name[x] = name[y] => x = y
  BY DEF Naming
<1>6. \A x \in Holders(a) : n[x] = name[x]
  BY <1>1, <1>4 DEF Agrees, Holders
<1>7. n = name
  BY <1>4, <1>5, <1>6
<1>8. \A x \in Holders(a) : To(name, x) = name[x]
  BY Identities, NamingMoves
<1>9. ASSUME NEW set, set \subseteq Holders(a), NEW f, f = [x \in set |-> name[x]] PROVE f \in Bijection(set, All(name, set))
  <2>1. \A x \in set : f[x] \in All(name, set)
    BY <1>8, <1>9 DEF All
  <2>2. f \in [set -> All(name, set)]
    BY <1>9, <2>1
  <2>3. IsInjective(f)
    BY <1>5, <1>9 DEF IsInjective
  <2>4. \A t \in All(name, set) : \E s \in set : f[s] = t
    BY <1>8, <1>9 DEF All
  <2> QED
    BY <2>2, <2>3, <2>4 DEF Bijection, Injection, Surjection
<1>10. /\ l \in Bijection(DOMAIN a.lists, DOMAIN b.lists) /\ k \in Bijection(a.categories, b.categories)
       /\ p \in Bijection(DOMAIN a.profiles, DOMAIN b.profiles) /\ v \in Bijection(DOMAIN a.devices, DOMAIN b.devices)
       /\ o \in Bijection(DOMAIN a.outputs, DOMAIN b.outputs)
  <2>1. /\ DOMAIN a.lists \subseteq Holders(a) /\ a.categories \subseteq Holders(a) /\ DOMAIN a.profiles \subseteq Holders(a)
        /\ DOMAIN a.devices \subseteq Holders(a) /\ DOMAIN a.outputs \subseteq Holders(a)
    BY DEF Holders
  <2>2. l \in Bijection(DOMAIN a.lists, All(name, DOMAIN a.lists)) /\ k \in Bijection(a.categories, All(name, a.categories))
    BY <1>1, <1>9, <2>1
  <2>3. /\ p \in Bijection(DOMAIN a.profiles, All(name, DOMAIN a.profiles))
        /\ v \in Bijection(DOMAIN a.devices, All(name, DOMAIN a.devices))
        /\ o \in Bijection(DOMAIN a.outputs, All(name, DOMAIN a.outputs))
    BY <1>1, <1>9, <2>1
  <2> QED
    BY <2>2, <2>3 DEF KindsRenamed
<1>11. n \in Correspondences(a, b)
  <2>1. PICK bl, bk, bp, bv, bo :
          /\ bl = Bijection(DOMAIN a.lists, DOMAIN b.lists) /\ bk = Bijection(a.categories, b.categories)
          /\ bp = Bijection(DOMAIN a.profiles, DOMAIN b.profiles) /\ bv = Bijection(DOMAIN a.devices, DOMAIN b.devices)
          /\ bo = Bijection(DOMAIN a.outputs, DOMAIN b.outputs)
    OBVIOUS
  <2>2. Correspondences(a, b) = {f ++ g ++ h ++ q ++ r : f \in bl, g \in bk, h \in bp, q \in bv, r \in bo}
    BY <2>1 DEF Correspondences
  <2>3. l \in bl /\ k \in bk /\ p \in bp /\ v \in bv /\ o \in bo
    BY <1>10, <2>1
  <2> QED
    BY <1>3, <2>2, <2>3
<1> QED
  BY <1>7, <1>11

-----------------------------------------------------------------------------
(* What becomes of a document between the two databases.                   *)

DocumentParts == {"interval", "order", "lists", "categories", "memberships", "removals", "off", "words", "omitted",
                  "profiles", "devices", "outputs"}
ProfileParts == {"lists", "categories", "exclusions", "priority", "domains", "archived"}
\* A record of these parts, and what it has of profiles.
Formed(d) ==
  /\ d = [part \in DOMAIN d |-> d[part]] /\ DOMAIN d = DocumentParts
  /\ \A k \in DOMAIN d.profiles : DOMAIN d.profiles[k] = ProfileParts

LEMMA ReadRowsIs ==
  ASSUME NEW rows, Typed(rows)
  PROVE  Document(rows, ReadRows(rows)) /\ Formed(ReadRows(rows))
<1>1. PICK top, library, tunings, profiles, devices, outputs :
        /\ top = [interval |-> IF rows.interval = "unset" THEN "off" ELSE rows.interval, order |-> rows.order]
        /\ library = ReadLibrary(rows) /\ tunings = ReadTunings(rows) /\ profiles = ReadProfiles(rows)
        /\ devices = ReadDevices(rows) /\ outputs = ReadOutputs(rows)
  OBVIOUS
<1>2. PICK a : a = top ++ library
  OBVIOUS
<1>3. PICK b : b = a ++ tunings
  OBVIOUS
<1>4. PICK c : c = b ++ profiles
  OBVIOUS
<1>5. PICK e : e = c ++ devices
  OBVIOUS
<1>6. PICK d : d = e ++ outputs
  OBVIOUS
<1>7. d = ReadRows(rows)
  BY <1>1, <1>2, <1>3, <1>4, <1>5, <1>6 DEF ReadRows
<1>8. Joined(a, top, library) /\ Joined(b, a, tunings) /\ Joined(c, b, profiles) /\ Joined(e, c, devices) /\ Joined(d, e, outputs)
  BY <1>2, <1>3, <1>4, <1>5, <1>6, JoinIs
<1>9. PICK o : o = MeansOff(rows)
  OBVIOUS
<1>10. /\ DOMAIN top = {"interval", "order"} /\ DOMAIN library = {"lists", "categories", "memberships", "removals"}
       /\ DOMAIN tunings = {"off", "words", "omitted"} /\ DOMAIN profiles = {"profiles"}
       /\ DOMAIN devices = {"devices"} /\ DOMAIN outputs = {"outputs"}
  BY <1>1 DEF ReadLibrary, ReadTunings, ReadProfiles, ReadDevices, ReadOutputs
<1>11. /\ top.interval = IF rows.interval = "unset" THEN "off" ELSE rows.interval
       /\ top.order = rows.order
       /\ library.lists = rows.lists /\ library.categories = rows.categories
       /\ library.memberships = rows.memberships /\ library.removals = rows.removals
       /\ tunings.words = rows.words /\ profiles.profiles = rows.profiles
       /\ devices.devices = rows.devices /\ outputs.outputs = rows.outputs
  BY <1>1 DEF ReadLibrary, ReadTunings, ReadProfiles, ReadDevices, ReadOutputs
<1>12. tunings.off = o
  BY <1>1, <1>9 DEF ReadTunings, MeansOff
<1>13. DOMAIN a = {"interval", "order", "lists", "categories", "memberships", "removals"}
  BY <1>8, <1>10 DEF Joined
<1>14. /\ a.interval = top.interval /\ a.order = top.order /\ a.lists = library.lists
       /\ a.categories = library.categories /\ a.memberships = library.memberships /\ a.removals = library.removals
  BY <1>8, <1>10 DEF Joined
<1>15. DOMAIN b = DOMAIN a \cup {"off", "words", "omitted"}
  BY <1>8, <1>10 DEF Joined
<1>16. /\ \A part \in DOMAIN a : b[part] = a[part]
       /\ b.off = tunings.off /\ b.words = tunings.words
  BY <1>8, <1>10, <1>13 DEF Joined
<1>17. DOMAIN c = DOMAIN b \cup {"profiles"} /\ DOMAIN e = DOMAIN c \cup {"devices"} /\ DOMAIN d = DOMAIN e \cup {"outputs"}
  BY <1>8, <1>10 DEF Joined
<1>18. /\ \A part \in DOMAIN b : d[part] = b[part]
       /\ d.profiles = profiles.profiles /\ d.devices = devices.devices /\ d.outputs = outputs.outputs
  BY <1>8, <1>10, <1>13, <1>15, <1>17 DEF Joined
<1>19. DOMAIN d = DocumentParts
  BY <1>13, <1>15, <1>17 DEF DocumentParts
<1>20. d = [part \in DOMAIN d |-> d[part]]
  BY <1>6 DEF ++
<1>21. \A k \in DOMAIN d.profiles : DOMAIN d.profiles[k] = ProfileParts
  BY <1>11, <1>18 DEF Typed, TypedProfile, ProfileParts
<1>22. Document(rows, d)
  BY <1>9, <1>11, <1>12, <1>13, <1>14, <1>15, <1>16, <1>18 DEF Document
<1> QED
  BY <1>7, <1>19, <1>20, <1>21, <1>22 DEF Formed

LEMMA ElsewhereIs ==
  ASSUME NEW name, NEW p, DOMAIN p = ProfileParts, NEW q, q = Elsewhere(name, p)
  PROVE  DOMAIN q = ProfileParts /\ ProfileRenamed(name, p, q) /\ q.priority = InOrder(name, p.priority)
<1>1. q = [p EXCEPT !.lists = All(name, @), !.categories = All(name, @), !.exclusions = All(name, @),
                    !.priority = InOrder(name, @), !.domains = Keyed(name, @)]
  BY Zenon DEF Elsewhere
<1>2. /\ DOMAIN q = DOMAIN p /\ q.lists = All(name, p.lists) /\ q.categories = All(name, p.categories)
      /\ q.exclusions = All(name, p.exclusions) /\ q.priority = InOrder(name, p.priority)
      /\ q.domains = Keyed(name, p.domains) /\ q.archived = p.archived
  BY <1>1 DEF ProfileParts
<1> QED
  BY <1>2 DEF ProfileRenamed

\* What Renamed makes of a document.
LEMMA RenamedIs ==
  ASSUME NEW d, Formed(d), NEW name, Moves(name, d), NEW r, r = Renamed(d, name)
  PROVE  /\ Formed(r) /\ Renames(name, d, r) /\ r.order = InOrder(name, d.order)
         /\ \A k \in DOMAIN d.profiles : r.profiles[To(name, k)].priority = InOrder(name, d.profiles[k].priority)
<1>1. PICK moved : moved = [k \in DOMAIN d.profiles |-> Elsewhere(name, d.profiles[k])]
  OBVIOUS
<1>2. PICK bound : bound = [k \in DOMAIN d.outputs |-> Rebound(name, d.outputs[k])]
  OBVIOUS
<1>3. r = [d EXCEPT !.order = InOrder(name, @), !.lists = Keyed(name, @), !.categories = All(name, @),
                    !.memberships = Belongings(name, @), !.off = Abouts(name, @), !.words = Abouts(name, @),
                    !.profiles = Keyed(name, moved), !.devices = Keyed(name, @), !.outputs = Keyed(name, bound)]
  BY <1>1, <1>2 DEF Renamed, Belongings, Abouts
<1>4. DOMAIN d = DocumentParts
  BY DEF Formed
<1>5. /\ DOMAIN r = DOMAIN d /\ r = [part \in DOMAIN r |-> r[part]]
      /\ r.interval = d.interval /\ r.removals = d.removals /\ r.order = InOrder(name, d.order)
      /\ r.lists = Keyed(name, d.lists) /\ r.categories = All(name, d.categories)
  BY <1>3, <1>4 DEF DocumentParts
<1>6. /\ r.memberships = Belongings(name, d.memberships) /\ r.off = Abouts(name, d.off) /\ r.words = Abouts(name, d.words)
      /\ r.profiles = Keyed(name, moved) /\ r.devices = Keyed(name, d.devices) /\ r.outputs = Keyed(name, bound)
  BY <1>3, <1>4 DEF DocumentParts
<1>7. DOMAIN moved = DOMAIN d.profiles
  BY <1>1
<1>8. Faithful(name, DOMAIN moved)
  BY <1>7, FaithfulPart DEF Moves, Holders
<1>9. /\ DOMAIN r.profiles = All(name, DOMAIN d.profiles)
      /\ \A k \in DOMAIN d.profiles : r.profiles[To(name, k)] = moved[k]
  BY <1>6, <1>7, <1>8, KeyedIs
<1>10. ASSUME NEW k \in DOMAIN d.profiles
       PROVE  /\ DOMAIN moved[k] = ProfileParts /\ ProfileRenamed(name, d.profiles[k], moved[k])
              /\ moved[k].priority = InOrder(name, d.profiles[k].priority)
  BY <1>1, ElsewhereIs DEF Formed
<1>11. ProfilesRenamed(name, d, r)
  BY <1>9, <1>10 DEF ProfilesRenamed
<1>12. OutputsRenamed(name, d, r)
  BY <1>2, <1>6 DEF OutputsRenamed
<1>13. \A k \in DOMAIN r.profiles : DOMAIN r.profiles[k] = ProfileParts
  BY <1>9, <1>10 DEF All
<1>14. Formed(r)
  BY <1>4, <1>5, <1>13 DEF Formed
<1>15. Renames(name, d, r)
  BY <1>5, <1>6, <1>11, <1>12 DEF Renames
<1> QED
  BY <1>5, <1>9, <1>10, <1>14, <1>15

\* Two documents, or rows, that differ in orders at most.
ProfileAlike(p, q) ==
  /\ q.lists = p.lists /\ q.categories = p.categories /\ q.exclusions = p.exclusions
  /\ q.domains = p.domains /\ q.archived = p.archived
Alike(a, b) ==
  /\ b.interval = a.interval /\ b.removals = a.removals /\ b.lists = a.lists /\ b.categories = a.categories
  /\ b.memberships = a.memberships /\ b.off = a.off /\ b.words = a.words
  /\ DOMAIN b.profiles = DOMAIN a.profiles
  /\ \A k \in DOMAIN a.profiles : ProfileAlike(a.profiles[k], b.profiles[k])
  /\ b.devices = a.devices /\ b.outputs = a.outputs

LEMMA AlikeTwice ==
  ASSUME NEW a, NEW b, NEW c, Alike(a, b), Alike(b, c)
  PROVE  Alike(a, c)
BY DEF Alike, ProfileAlike

LEMMA AlikeRenames ==
  ASSUME NEW name, NEW a, NEW b, NEW c
  PROVE  /\ Renames(name, a, b) /\ Alike(b, c) => Renames(name, a, c)
         /\ Alike(a, b) /\ Renames(name, b, c) => Renames(name, a, c)
<1>1. ASSUME Renames(name, a, b), Alike(b, c) PROVE Renames(name, a, c)
  <2>1. ProfilesRenamed(name, a, c)
    BY <1>1 DEF Renames, ProfilesRenamed, ProfileRenamed, Alike, ProfileAlike, All
  <2>2. OutputsRenamed(name, a, c)
    BY <1>1 DEF Renames, OutputsRenamed, Alike
  <2> QED
    BY <1>1, <2>1, <2>2 DEF Renames, Alike
<1>2. ASSUME Alike(a, b), Renames(name, b, c) PROVE Renames(name, a, c)
  <2>1. ProfilesRenamed(name, a, c)
    BY <1>2 DEF Renames, ProfilesRenamed, ProfileRenamed, Alike, ProfileAlike
  <2>2. OutputsRenamed(name, a, c)
    BY <1>2 DEF Renames, OutputsRenamed, Alike
  <2> QED
    BY <1>2, <2>1, <2>2 DEF Renames, Alike
<1> QED
  BY <1>1, <1>2

LEMMA AlikeHolders ==
  ASSUME NEW a, NEW b, Alike(a, b)
  PROVE  /\ Holders(b) = Holders(a) /\ \A ids : Within(a, ids) <=> Within(b, ids)
         /\ \A name, to : Naming(name, a, to) <=> Naming(name, b, to)
         /\ \A name, c : KindsRenamed(name, c, a) => KindsRenamed(name, c, b)
         /\ Fits(a) <=> Fits(b)
<1>1. Holders(b) = Holders(a)
  BY DEF Alike, Holders
<1>2. \A ids : Within(a, ids) <=> Within(b, ids)
  BY DEF Alike, Within
<1>3. \A name, to : Naming(name, a, to) <=> Naming(name, b, to)
  BY <1>1 DEF Alike, Naming
<1>4. \A name, c : KindsRenamed(name, c, a) => KindsRenamed(name, c, b)
  BY DEF Alike, KindsRenamed
<1>5. Fits(a) <=> Fits(b)
  BY DEF Alike, Fits
<1> QED
  BY <1>1, <1>2, <1>3, <1>4, <1>5

LEMMA AlikeSound ==
  ASSUME NEW c, NEW a, NEW b, Alike(a, b), Sound(c, a),
         \A k \in DOMAIN a.profiles : /\ Len(b.profiles[k].priority) \in Nat
                                      /\ Entries(b.profiles[k].priority) \subseteq c.lists \cup DOMAIN a.lists
  PROVE  Sound(c, b)
<1>1. PICK lists, categories : lists = c.lists \cup DOMAIN a.lists /\ categories = DOMAIN c.carries \cup a.categories
  OBVIOUS
<1>2. lists = c.lists \cup DOMAIN b.lists /\ categories = DOMAIN c.carries \cup b.categories
  BY <1>1 DEF Alike
<1>3. \A k \in DOMAIN b.profiles : SoundProfile(b.profiles[k], lists, categories)
  BY <1>1 DEF Sound, SoundProfile, Alike, ProfileAlike
<1>4. /\ b.removals \subseteq c.lists \cup DOMAIN c.carries
      /\ \A m \in b.memberships : /\ {"category", "list", "state"} \subseteq DOMAIN m
                                  /\ m.category \in categories /\ m.list \in lists
      /\ \A x \in b.off \cup b.words : "list" \in DOMAIN x /\ x.list \in lists
  BY <1>1 DEF Sound, Alike
<1>5. \A k \in DOMAIN b.outputs : /\ {"profile", "device"} \subseteq DOMAIN b.outputs[k]
                                  /\ b.outputs[k].profile \in DOMAIN b.profiles
                                  /\ b.outputs[k].device \in DOMAIN b.devices \cup {NoDevice}
  BY DEF Sound, Alike
<1> QED
  BY <1>2, <1>3, <1>4, <1>5 DEF Sound

\* Order and number of what stays behind replaced.
LEMMA Reordered ==
  ASSUME NEW d, Formed(d), NEW order, NEW r, r = [d EXCEPT !.order = order]
  PROVE  Formed(r) /\ Alike(d, r) /\ r.order = order /\ r.profiles = d.profiles
<1>1. /\ DOMAIN r = DOMAIN d /\ r = [part \in DOMAIN r |-> r[part]] /\ r.order = order
      /\ \A part \in DOMAIN d : part # "order" => r[part] = d[part]
  BY DEF Formed, DocumentParts
<1>2. /\ r.interval = d.interval /\ r.removals = d.removals /\ r.lists = d.lists /\ r.categories = d.categories
      /\ r.memberships = d.memberships /\ r.off = d.off /\ r.words = d.words /\ r.profiles = d.profiles
      /\ r.devices = d.devices /\ r.outputs = d.outputs
  BY <1>1 DEF Formed, DocumentParts
<1>3. Formed(r)
  BY <1>1, <1>2 DEF Formed
<1>4. Alike(d, r)
  BY <1>2 DEF Alike, ProfileAlike
<1> QED
  BY <1>1, <1>2, <1>3, <1>4

\* The lists that a profile ends up with where a document is read.
Ends(c, d, p) == Resolved(c, d, p, KnownLists(c.lists \ c.local, d))

LEMMA NormalizedIs ==
  ASSUME NEW c, NEW d, Formed(d), NEW r, r = Normalized(c, d)
  PROVE  /\ Formed(r) /\ Alike(d, r) /\ r.order = d.order
         /\ \A k \in DOMAIN d.profiles :
              r.profiles[k].priority = MergePriority(d.profiles[k].priority, Ids(Ends(c, d, d.profiles[k])))
<1>1. PICK ps : ps = [k \in DOMAIN d.profiles |->
                        Prioritized(d.profiles[k], Ends(c, d, d.profiles[k]))]
  OBVIOUS
<1>2. r = [d EXCEPT !.profiles = ps]
  BY <1>1 DEF Normalized, Ends
<1>3. /\ DOMAIN r = DOMAIN d /\ r = [part \in DOMAIN r |-> r[part]] /\ r.profiles = ps
      /\ \A part \in DOMAIN d : part # "profiles" => r[part] = d[part]
  BY <1>2 DEF Formed, DocumentParts
<1>4. /\ r.interval = d.interval /\ r.removals = d.removals /\ r.lists = d.lists /\ r.categories = d.categories
      /\ r.memberships = d.memberships /\ r.off = d.off /\ r.words = d.words /\ r.order = d.order
      /\ r.devices = d.devices /\ r.outputs = d.outputs
  BY <1>3 DEF Formed, DocumentParts
<1>5. DOMAIN ps = DOMAIN d.profiles
  BY <1>1
<1>6. ASSUME NEW k \in DOMAIN d.profiles
      PROVE  /\ DOMAIN ps[k] = ProfileParts /\ ProfileAlike(d.profiles[k], ps[k])
             /\ ps[k].priority = MergePriority(d.profiles[k].priority, Ids(Ends(c, d, d.profiles[k])))
  <2>1. PICK p, m : p = d.profiles[k] /\ m = MergePriority(d.profiles[k].priority, Ids(Ends(c, d, d.profiles[k])))
    OBVIOUS
  <2>2. ps[k] = [p EXCEPT !.priority = m]
    BY <1>1, <2>1 DEF Prioritized
  <2>3. DOMAIN p = ProfileParts
    BY <2>1 DEF Formed
  <2> QED
    BY <2>1, <2>2, <2>3 DEF ProfileAlike, ProfileParts
<1>7. Formed(r)
  BY <1>3, <1>5, <1>6 DEF Formed
<1>8. Alike(d, r)
  BY <1>3, <1>4, <1>5, <1>6 DEF Alike
<1> QED
  BY <1>3, <1>4, <1>6, <1>7, <1>8

LEMMA CompletedIs ==
  ASSUME NEW c, NEW d, Formed(d), NEW r, r = CompleteTransferDefaultPriority(c, d)
  PROVE  /\ Formed(r) /\ Alike(d, r) /\ r.profiles = d.profiles
         /\ r.order = MergePriority(d.order, Ids(KnownLists(c.lists \ c.local, d)))
<1>1. PICK m : m = MergePriority(d.order, Ids(KnownLists(c.lists \ c.local, d)))
  OBVIOUS
<1>2. r = [d EXCEPT !.order = m]
  BY <1>1 DEF CompleteTransferDefaultPriority, KnownLists
<1> QED
  BY <1>1, <1>2, Reordered

LEMMA RowsOfIs ==
  ASSUME NEW d, NEW r, r = RowsOf(d)
  PROVE  /\ Alike(d, r) /\ r.order = d.order /\ r.profiles = d.profiles
         /\ r.feeds = Nothing /\ r.trusted = {} /\ ~ r.history
         /\ DOMAIN r = DOMAIN EmptyStore
<1>1. /\ r.interval = d.interval /\ r.removals = d.removals /\ r.lists = d.lists /\ r.categories = d.categories
      /\ r.memberships = d.memberships /\ r.off = d.off /\ r.words = d.words /\ r.order = d.order /\ r.profiles = d.profiles
      /\ r.devices = d.devices /\ r.outputs = d.outputs
      /\ r.feeds = Nothing /\ r.trusted = {} /\ DOMAIN r = DOMAIN EmptyStore
  BY DEF RowsOf, EmptyStore
<1>2. ~ r.history
  BY Zenon DEF RowsOf, EmptyStore
<1> QED
  BY <1>1, <1>2 DEF Alike, ProfileAlike

-----------------------------------------------------------------------------
(* Orders under other names.                                               *)

LEMMA WiderSequence ==
  ASSUME NEW S, NEW T, S \subseteq T, NEW seq \in Seq(S)
  PROVE  seq \in Seq(T)
<1>1. PICK n : n = Len(seq)
  OBVIOUS
<1>2. n \in Nat /\ seq \in [1 .. n -> S]
  BY <1>1
<1>3. seq \in [1 .. n -> T]
  BY <1>2
<1> QED
  BY <1>2, <1>3

LEMMA InOrderIs ==
  ASSUME NEW S, NEW seq \in Seq(S), NEW name, NEW r, r = InOrder(name, seq)
  PROVE  /\ r \in Seq(All(name, S)) /\ Len(r) = Len(seq) /\ Len(seq) \in Nat
         /\ \A i \in 1 .. Len(seq) : r[i] = To(name, seq[i]) /\ seq[i] \in S
         /\ Entries(r) = All(name, Entries(seq)) /\ Entries(seq) \subseteq S
<1>1. PICK n : n = Len(seq)
  OBVIOUS
<1>2. n \in Nat /\ DOMAIN seq = 1 .. n /\ \A i \in 1 .. n : seq[i] \in S
  BY <1>1
<1>3. r = [i \in 1 .. n |-> To(name, seq[i])]
  BY <1>2 DEF InOrder
<1>4. \A i \in 1 .. n : To(name, seq[i]) \in All(name, S)
  BY <1>2 DEF All
<1>5. r \in Seq(All(name, S)) /\ Len(r) = n
  BY <1>2, <1>3, <1>4
<1>6. Entries(r) = All(name, Entries(seq))
  <2>1. Entries(r) = {To(name, seq[i]) : i \in 1 .. n}
    BY <1>3, <1>5 DEF Entries
  <2>2. Entries(seq) = {seq[i] : i \in 1 .. n}
    BY <1>1 DEF Entries
  <2> QED
    BY <2>1, <2>2 DEF All
<1> QED
  BY <1>1, <1>2, <1>3, <1>5, <1>6 DEF Entries

LEMMA InOrderKeeps ==
  ASSUME NEW S, NEW seq \in Seq(S), NEW name, Faithful(name, S), NEW r, r = InOrder(name, seq)
  PROVE  /\ Unrepeated(r) <=> Unrepeated(seq)
         /\ \A a, b : Precedes(seq, a, b) => Precedes(r, To(name, a), To(name, b))
<1>1. /\ Len(r) = Len(seq) /\ Len(seq) \in Nat
      /\ \A i \in 1 .. Len(seq) : r[i] = To(name, seq[i]) /\ seq[i] \in S
  BY InOrderIs
<1>2. Unrepeated(r) <=> Unrepeated(seq)
  BY <1>1 DEF Unrepeated, Faithful
<1>3. ASSUME NEW a, NEW b, Precedes(seq, a, b) PROVE Precedes(r, To(name, a), To(name, b))
  BY <1>1, <1>3 DEF Precedes
<1> QED
  BY <1>2, <1>3

LEMMA InOrderPlace ==
  ASSUME NEW S, NEW seq \in Seq(S), NEW name, Faithful(name, S), NEW r, r = InOrder(name, seq), NEW x \in S
  PROVE  /\ x \in Entries(seq) <=> To(name, x) \in Entries(r)
         /\ x \in Entries(seq) => Place(r, To(name, x)) = Place(seq, x) /\ Place(seq, x) \in 1 .. Len(seq)
<1>1. /\ Len(r) = Len(seq) /\ Len(seq) \in Nat /\ Entries(r) = All(name, Entries(seq)) /\ Entries(seq) \subseteq S
      /\ \A i \in 1 .. Len(seq) : r[i] = To(name, seq[i]) /\ seq[i] \in S
  BY InOrderIs
<1>2. x \in Entries(seq) <=> To(name, x) \in Entries(r)
  BY <1>1 DEF All, Faithful
<1>3. ASSUME x \in Entries(seq) PROVE Place(r, To(name, x)) = Place(seq, x) /\ Place(seq, x) \in 1 .. Len(seq)
  <2>1. PICK p, q : p = Place(seq, x) /\ q = Place(r, To(name, x))
    OBVIOUS
  <2>2. p \in 1 .. Len(seq) /\ seq[p] = x /\ \A j \in 1 .. p - 1 : seq[j] # x
    BY <1>1, <1>3, <2>1, PlaceIs
  <2>3. q \in 1 .. Len(seq) /\ r[q] = To(name, x) /\ \A j \in 1 .. q - 1 : r[j] # To(name, x)
    BY <1>1, <1>2, <1>3, <2>1, PlaceIs
  <2>4. seq[q] = x /\ r[p] = To(name, x)
    BY <1>1, <2>2, <2>3 DEF Faithful
  <2>5. ~ (p < q) /\ ~ (q < p)
    BY <1>1, <2>2, <2>3, <2>4
  <2>6. p = q
    BY <1>1, <2>2, <2>3, <2>5
  <2> QED
    BY <2>1, <2>2, <2>6
<1> QED
  BY <1>2, <1>3

LEMMA MergeSequence ==
  ASSUME NEW stored, Len(stored) \in Nat, NEW set, IsFiniteSet(set), set \subseteq Nat,
         NEW m, m = MergePriority(stored, Ids(set))
  PROVE  m \in Seq(set) /\ Len(m) \in Nat /\ Unrepeated(m) /\ Entries(m) = set
<1>1. PICK ids : ids = Ids(set)
  OBVIOUS
<1>2. Entries(ids) = set /\ Len(ids) \in Nat
  BY <1>1, IdsAre
<1>3. /\ Len(m) \in Nat /\ Entries(m) = set /\ m \in Seq(set)
  BY <1>1, <1>2, MergeIs
<1>4. PICK place : place = MergedPlace(stored, ids)
  OBVIOUS
<1>5. Ranked(set, place)
  BY <1>1, <1>2, <1>4, MergeIs
<1>6. \A i, j \in 1 .. Len(m) : i < j <=> place[m[i]] < place[m[j]]
  BY <1>1, <1>2, <1>4, MergeIs
<1>7. ASSUME NEW i \in 1 .. Len(m), NEW j \in 1 .. Len(m), m[i] = m[j] PROVE i = j
  <2>1. m[i] \in set
    BY <1>3 DEF Entries
  <2>2. place[m[i]] \in Nat
    BY <1>5, <2>1 DEF Ranked
  <2>3. ~ (i < j) /\ ~ (j < i)
    BY <1>6, <1>7, <2>2
  <2> QED
    BY <1>3, <2>3
<1> QED
  BY <1>3, <1>7 DEF Unrepeated

\* The order stays what it is, except for lists that the stored one does not
\* name where names do not follow identities.
LEMMA MergeMoves ==
  ASSUME NEW S, NEW stored \in Seq(S), NEW name, Faithful(name, S), NEW set, set \subseteq S,
         IsFiniteSet(set), set \subseteq Nat, IsFiniteSet(All(name, set)), All(name, set) \subseteq Nat,
         NEW a \in set, NEW b \in set, Precedes(MergePriority(stored, Ids(set)), a, b),
         a \in Entries(stored) \/ \A x, y \in set : x < y => To(name, x) < To(name, y)
  PROVE  Precedes(MergePriority(InOrder(name, stored), Ids(All(name, set))), To(name, a), To(name, b))
<1>1. PICK r, ids, new : r = InOrder(name, stored) /\ ids = Ids(set) /\ new = Ids(All(name, set))
  OBVIOUS
<1>2. /\ Entries(ids) = set /\ Len(ids) \in Nat /\ DOMAIN ids = 1 .. Len(ids)
      /\ \A i, j \in 1 .. Len(ids) : i < j <=> ids[i] < ids[j]
  BY <1>1, IdsAre
<1>3. /\ Entries(new) = All(name, set) /\ Len(new) \in Nat /\ DOMAIN new = 1 .. Len(new)
      /\ \A i, j \in 1 .. Len(new) : i < j <=> new[i] < new[j]
  BY <1>1, IdsAre
<1>4. Len(r) = Len(stored) /\ Len(stored) \in Nat /\ Len(r) \in Nat
  BY <1>1, InOrderIs
<1>5. PICK place, moved : place = MergedPlace(stored, ids) /\ moved = MergedPlace(r, new)
  OBVIOUS
<1>6. place[a] < place[b]
  BY <1>1, <1>2, <1>4, <1>5, MergeOrders
<1>7. ASSUME NEW x \in set
      PROVE  place[x] = IF x \in Entries(stored) THEN Place(stored, x) ELSE Len(stored) + Place(ids, x)
  BY <1>2, <1>5 DEF MergedPlace
<1>8. ASSUME NEW x \in set
      PROVE  moved[To(name, x)] =
               IF To(name, x) \in Entries(r) THEN Place(r, To(name, x)) ELSE Len(r) + Place(new, To(name, x))
  BY <1>3, <1>5 DEF MergedPlace, All
<1>9. ASSUME NEW x \in set
      PROVE  /\ x \in Entries(stored) <=> To(name, x) \in Entries(r)
             /\ x \in Entries(stored) => Place(r, To(name, x)) = Place(stored, x) /\ Place(stored, x) \in 1 .. Len(stored)
  BY <1>1, InOrderPlace
<1>10. ASSUME NEW x \in set
       PROVE  Place(ids, x) \in 1 .. Len(ids) /\ ids[Place(ids, x)] = x
  BY <1>2, PlaceIs
<1>11. ASSUME NEW x \in set
       PROVE  Place(new, To(name, x)) \in 1 .. Len(new) /\ new[Place(new, To(name, x))] = To(name, x)
  <2>1. To(name, x) \in Entries(new)
    BY <1>3 DEF All
  <2> QED
    BY <1>3, <2>1, PlaceIs
<1>12. moved[To(name, a)] < moved[To(name, b)]
  <2>1. CASE a \in Entries(stored) /\ b \in Entries(stored)
    BY <1>4, <1>6, <1>7, <1>8, <1>9, <2>1
  <2>2. CASE a \in Entries(stored) /\ b \notin Entries(stored)
    <3>1. moved[To(name, a)] \in 1 .. Len(r)
      BY <1>4, <1>8, <1>9, <2>2
    <3>2. moved[To(name, b)] = Len(r) + Place(new, To(name, b))
      BY <1>8, <1>9, <2>2
    <3>3. Place(new, To(name, b)) \in 1 .. Len(new)
      BY <1>11
    <3> QED
      BY <1>3, <1>4, <3>1, <3>2, <3>3
  <2>3. CASE a \notin Entries(stored)
    <3>1. place[a] = Len(stored) + Place(ids, a) /\ Place(ids, a) \in 1 .. Len(ids)
      BY <1>7, <1>10, <2>3
    <3>2. b \notin Entries(stored)
      <4>1. SUFFICES ASSUME b \in Entries(stored) PROVE FALSE
        OBVIOUS
      <4>2. place[b] = Place(stored, b) /\ Place(stored, b) \in 1 .. Len(stored)
        BY <1>7, <1>9, <4>1
      <4> QED
        BY <1>2, <1>4, <1>6, <3>1, <4>2
    <3>3. place[b] = Len(stored) + Place(ids, b) /\ Place(ids, b) \in 1 .. Len(ids)
      BY <1>7, <1>10, <3>2
    <3>4. Place(ids, a) < Place(ids, b)
      BY <1>2, <1>4, <1>6, <3>1, <3>3
    <3>5. a < b
      BY <1>2, <1>10, <3>1, <3>3, <3>4
    <3>6. To(name, a) < To(name, b)
      BY <2>3, <3>5
    <3>7. Place(new, To(name, a)) < Place(new, To(name, b))
      BY <1>3, <1>11, <3>6
    <3>8. moved[To(name, a)] = Len(r) + Place(new, To(name, a)) /\ moved[To(name, b)] = Len(r) + Place(new, To(name, b))
      BY <1>8, <1>9, <2>3, <3>2
    <3> QED
      BY <1>3, <1>4, <1>11, <3>7, <3>8
  <2> QED
    BY <2>1, <2>2, <2>3
<1>13. To(name, a) \in Entries(new) /\ To(name, b) \in Entries(new) /\ IsFiniteSet(Entries(new))
  BY <1>3 DEF All
<1>14. Precedes(MergePriority(r, new), To(name, a), To(name, b))
  BY <1>3, <1>4, <1>5, <1>12, <1>13, MergeOrders
<1> QED
  BY <1>1, <1>14

\* The lists grouped by categories are all lists that are known.
LEMMA GroupedIs ==
  ASSUME NEW c, NEW d, IsFiniteSet(KnownLists(c.lists, d)), KnownLists(c.lists, d) \subseteq Nat,
         IsFiniteSet(DOMAIN c.carries), IsFiniteSet(d.categories), NEW g, g = Grouped(c, d)
  PROVE  Entries(g) = KnownLists(c.lists, d) /\ Len(g) \in Nat
<1>1. PICK known, groups : known = KnownLists(c.lists, d) /\ groups = (DOMAIN c.carries \cup d.categories) \ d.removals
  OBVIOUS
<1>2. IsFiniteSet(groups)
  BY <1>1, FS_Union, FS_Subset
<1>3. PICK owned : owned = [l \in known |-> {k \in groups : \A owner \in groups : l \in Members(c, d, owner) => k < owner}]
  OBVIOUS
<1>4. PICK slot : slot = [l \in known |-> Cardinality(owned[l])]
  OBVIOUS
<1>5. ASSUME NEW l \in known PROVE slot[l] \in Nat
  <2>1. owned[l] \subseteq groups
    BY <1>3
  <2> QED
    BY <1>2, <1>4, <2>1, FS_Subset, FS_CardinalityType
<1>6. PICK ahead : ahead = [l \in known |-> {other \in known : slot[other] < slot[l] \/ (slot[other] = slot[l] /\ other < l)}]
  OBVIOUS
<1>7. PICK place : place = [l \in known |-> Cardinality(ahead[l])]
  OBVIOUS
<1>8. g = Arranged(known, place)
  <2>1. slot = [l \in known |-> Cardinality({k \in groups : \A owner \in groups : l \in Members(c, d, owner) => k < owner})]
    BY <1>3, <1>4
  <2>2. place = [l \in known |-> Cardinality({other \in known : slot[other] < slot[l] \/ (slot[other] = slot[l] /\ other < l)})]
    BY <1>6, <1>7
  <2> QED
    BY <1>1, <2>1, <2>2, Zenon DEF Grouped
<1>9. ASSUME NEW a \in known
      PROVE  /\ ahead[a] \subseteq known /\ a \notin ahead[a] /\ place[a] = Cardinality(ahead[a])
             /\ IsFiniteSet(ahead[a]) /\ place[a] \in Nat
  <2>1. ahead[a] \subseteq known /\ place[a] = Cardinality(ahead[a])
    BY <1>6, <1>7
  <2>2. a \notin ahead[a]
    BY <1>1, <1>5, <1>6
  <2> QED
    BY <1>1, <2>1, <2>2, FS_Subset, FS_CardinalityType
<1>10. ASSUME NEW a \in known, NEW b \in known, slot[a] < slot[b] \/ (slot[a] = slot[b] /\ a < b)
       PROVE  place[a] < place[b]
  <2>1. slot[a] \in Nat /\ slot[b] \in Nat /\ a \in Nat /\ b \in Nat
    BY <1>1, <1>5
  <2>2. a \in ahead[b]
    BY <1>6, <1>10
  <2>3. ASSUME NEW x \in ahead[a] PROVE x \in ahead[b]
    <3>1. x \in known /\ (slot[x] < slot[a] \/ (slot[x] = slot[a] /\ x < a))
      BY <1>6, <2>3
    <3>2. slot[x] \in Nat /\ x \in Nat
      BY <1>1, <1>5, <3>1
    <3> QED
      BY <1>6, <1>10, <2>1, <3>1, <3>2
  <2>4. ahead[a] \subseteq ahead[b] /\ ahead[a] # ahead[b]
    BY <1>9, <2>2, <2>3
  <2>5. Cardinality(ahead[a]) <= Cardinality(ahead[b]) /\ Cardinality(ahead[a]) # Cardinality(ahead[b])
    BY <1>9, <2>4, FS_Subset
  <2> QED
    BY <1>9, <2>5
<1>11. Ranked(known, place)
  <2>1. ASSUME NEW a \in known, NEW b \in known, place[a] = place[b] PROVE a = b
    <3>1. slot[a] \in Nat /\ slot[b] \in Nat /\ a \in Nat /\ b \in Nat
      BY <1>1, <1>5
    <3>2. ~ (place[a] < place[b]) /\ ~ (place[b] < place[a])
      BY <1>9, <2>1
    <3>3. /\ ~ (slot[a] < slot[b] \/ (slot[a] = slot[b] /\ a < b))
          /\ ~ (slot[b] < slot[a] \/ (slot[b] = slot[a] /\ b < a))
      BY <1>10, <3>2
    <3> QED
      BY <3>1, <3>3
  <2> QED
    BY <1>9, <2>1 DEF Ranked
<1> QED
  BY <1>1, <1>8, <1>11, ArrangedIs

-----------------------------------------------------------------------------
(* What an export draws up.                                                *)

Everything == Still \cup Pool["lists"] \cup Pool["categories"] \cup Pool["profiles"] \cup Pool["devices"] \cup Pool["outputs"]

LEMMA ReferencesFaithful ==
  ASSUME NEW d, Within(d, Pool), NEW name, Naming(name, d, RefIds)
  PROVE  Faithful(name, Everything) /\ Still \cup Holders(d) \subseteq Everything
<1>1. /\ \A x \in DOMAIN name : To(name, x) = name[x] /\ \E kind \in Kinds : name[x] \in RefIds[kind]
      /\ Faithful(name, Still \cup DOMAIN name)
  BY NamingIs, Identities
<1>2. ASSUME NEW x \in Everything, x \notin DOMAIN name
      PROVE  To(name, x) = x /\ \A kind \in Kinds : x \notin RefIds[kind]
  <2>1. x \in Still \/ \E kind \in Kinds : x \in Pool[kind]
    BY DEF Everything, Kinds
  <2> QED
    BY <1>2, <2>1, Identities DEF To, Apart
<1>3. Faithful(name, Everything)
  BY <1>1, <1>2 DEF Faithful
<1>4. Holders(d) \subseteq Everything
  BY DEF Holders, Within, Everything
<1> QED
  BY <1>3, <1>4 DEF Everything

LEMMA Cancelled ==
  ASSUME NEW name, NEW set, Faithful(name, set), NEW x \in set, NEW part, part \subseteq set
  PROVE  To(name, x) \in All(name, part) <=> x \in part
BY DEF Faithful, All

ReadFor(origin) == [ReadRows(origin.rows) EXCEPT !.order = origin.order]
Drafted(origin) == CompleteTransferDefaultPriority(origin.catalog, CanonicalizeTransferReferences(ReadFor(origin)))

\* What an export finds, before it is drawn up.
FoundOrigin(origin) ==
  /\ Typed(origin.rows) /\ origin.catalog \in Catalogs
  /\ origin.order \in Seq(Listed) /\ Unrepeated(origin.order)
\* What an export leaves a file for.
ValidDraft(c, d) ==
  /\ ValidLibrary(c, d) /\ \A x \in d.off \cup d.words : x.list \in PortableLists(c, d)
  /\ ValidProfiles(c, d) /\ ValidBindings(c, d)
SoundOrigin(origin) == FoundOrigin(origin) /\ ValidDraft(origin.catalog, Drafted(origin))

LEMMA TypedWithin ==
  ASSUME NEW rows, Typed(rows), NEW d, Document(rows, d)
  PROVE  Within(d, Pool)
BY DEF Typed, Document, Within

\* Each profile keeps the order of its lists.
PrioritiesRenamed(name, a, b) ==
  \A k \in DOMAIN a.profiles : b.profiles[To(name, k)].priority = InOrder(name, a.profiles[k].priority)

LEMMA DraftIs ==
  ASSUME NEW origin, FoundOrigin(origin), NEW doc, doc = ReadRows(origin.rows), NEW name, name = References(doc),
         NEW d, d = Drafted(origin)
  PROVE  /\ Document(origin.rows, doc) /\ Formed(doc) /\ Within(doc, Pool) /\ Naming(name, doc, RefIds) /\ Moves(name, doc)
         /\ Formed(d) /\ Renames(name, doc, d) /\ KindsRenamed(name, doc, d) /\ Within(d, RefIds)
         /\ d.order = MergePriority(InOrder(name, origin.order),
                                    Ids(KnownLists(origin.catalog.lists \ origin.catalog.local, d)))
         /\ PrioritiesRenamed(name, doc, d)
<1>1. Document(origin.rows, doc) /\ Formed(doc)
  BY ReadRowsIs DEF FoundOrigin
<1>2. Within(doc, Pool)
  BY <1>1, TypedWithin DEF FoundOrigin
<1>3. Naming(name, doc, RefIds) /\ Moves(name, doc)
  BY <1>2, ReferencesAre, Identities, NamingMoves
<1>4. PICK read : read = ReadFor(origin)
  OBVIOUS
<1>5. Formed(read) /\ Alike(doc, read) /\ read.order = origin.order /\ read.profiles = doc.profiles
  BY <1>1, <1>4, Reordered DEF ReadFor
<1>6. References(read) = name
  BY <1>5 DEF References, Alike
<1>7. Moves(name, read)
  BY <1>3, <1>5, AlikeHolders DEF Moves
<1>8. PICK drawn : drawn = Renamed(read, name)
  OBVIOUS
<1>9. /\ Formed(drawn) /\ Renames(name, read, drawn) /\ drawn.order = InOrder(name, origin.order)
      /\ \A k \in DOMAIN read.profiles : drawn.profiles[To(name, k)].priority = InOrder(name, read.profiles[k].priority)
  BY <1>5, <1>7, <1>8, RenamedIs
<1>10. d = CompleteTransferDefaultPriority(origin.catalog, drawn)
  BY <1>4, <1>6, <1>8 DEF Drafted, CanonicalizeTransferReferences
<1>11. /\ Formed(d) /\ Alike(drawn, d) /\ d.profiles = drawn.profiles
       /\ d.order = MergePriority(drawn.order, Ids(KnownLists(origin.catalog.lists \ origin.catalog.local, drawn)))
  BY <1>9, <1>10, CompletedIs
<1>12. KnownLists(origin.catalog.lists \ origin.catalog.local, drawn) = KnownLists(origin.catalog.lists \ origin.catalog.local, d)
  BY <1>11 DEF KnownLists, Alike
<1>13. Renames(name, doc, d)
  BY <1>5, <1>9, <1>11, AlikeRenames
<1>14. KindsRenamed(name, doc, d)
  BY <1>3, <1>13, KindsMove
<1>15. Within(d, RefIds)
  BY <1>2, <1>3, <1>14, Identities, NamedWithin
<1>16. PrioritiesRenamed(name, doc, d)
  BY <1>5, <1>9, <1>11 DEF PrioritiesRenamed
<1> QED
  BY <1>1, <1>2, <1>3, <1>9, <1>11, <1>12, <1>13, <1>14, <1>15, <1>16

LEMMA TypedSpeaks ==
  ASSUME NEW rows, Typed(rows), NEW d, Document(rows, d)
  PROVE  /\ Holders(d) \subseteq Everything
         /\ \A m \in d.memberships : /\ {"category", "list", "state"} \subseteq DOMAIN m
                                     /\ m.category \in Everything /\ m.list \in Everything
         /\ \A x \in d.off \cup d.words : "list" \in DOMAIN x /\ x.list \in Everything
         /\ \A k \in DOMAIN d.profiles : /\ SpeaksInProfile(d.profiles[k], Everything)
                                         /\ d.profiles[k].priority \in Seq(Listed)
         /\ \A k \in DOMAIN d.outputs : /\ {"profile", "device"} \subseteq DOMAIN d.outputs[k]
                                        /\ d.outputs[k].profile \in Everything /\ d.outputs[k].device \in Everything
         /\ Listed \subseteq Everything
<1>1. Listed \subseteq Everything /\ Categorized \subseteq Everything
  BY DEF Listed, Categorized, Everything, Still
<1>2. \A m \in rows.memberships : /\ {"category", "list", "state"} \subseteq DOMAIN m
                                  /\ m.category \in Categorized /\ m.list \in Listed
  BY DEF Typed, Listed, Categorized
<1>3. \A x \in rows.off \cup rows.words : "list" \in DOMAIN x /\ x.list \in Listed
  BY DEF Typed, Listed
<1>4. \A k \in DOMAIN rows.profiles : /\ SpeaksInProfile(rows.profiles[k], Everything)
                                      /\ rows.profiles[k].priority \in Seq(Listed)
  BY <1>1 DEF Typed, TypedProfile, SpeaksInProfile, Listed, Categorized
<1>5. \A k \in DOMAIN rows.outputs : /\ {"profile", "device"} \subseteq DOMAIN rows.outputs[k]
                                     /\ rows.outputs[k].profile \in Pool["profiles"]
                                     /\ rows.outputs[k].device \in Pool["devices"] \cup {NoDevice}
  BY DEF Typed, TypedOutput
<1>6. /\ Pool["profiles"] \subseteq Everything /\ Pool["devices"] \cup {NoDevice} \subseteq Everything
      /\ Pool["lists"] \subseteq Everything /\ Pool["categories"] \subseteq Everything /\ Pool["outputs"] \subseteq Everything
  BY DEF Everything, Still
<1>7. Holders(d) \subseteq Everything
  BY <1>6, TypedWithin DEF Within, Holders
<1>8. d.off \subseteq rows.off /\ d.words = rows.words /\ d.memberships = rows.memberships
      /\ d.profiles = rows.profiles /\ d.outputs = rows.outputs
  BY DEF Document, MeansOff
<1> QED
  BY <1>1, <1>2, <1>3, <1>4, <1>5, <1>6, <1>7, <1>8

\* What is valid under references is so under identities.
LEMMA DraftSound ==
  ASSUME NEW origin, SoundOrigin(origin), NEW doc, doc = ReadRows(origin.rows), NEW c, c = Portable(origin.catalog)
  PROVE  /\ Sound(c, doc)
         /\ \A k \in DOMAIN doc.profiles : /\ Unrepeated(doc.profiles[k].priority)
                                           /\ doc.profiles[k].priority \in Seq(Listed)
<1>1. PICK name, d : name = References(doc) /\ d = Drafted(origin)
  OBVIOUS
<1>2. /\ Document(origin.rows, doc) /\ Formed(doc) /\ Within(doc, Pool) /\ Naming(name, doc, RefIds) /\ Moves(name, doc)
      /\ Renames(name, doc, d) /\ KindsRenamed(name, doc, d) /\ PrioritiesRenamed(name, doc, d)
  <2>1. FoundOrigin(origin)
    BY DEF SoundOrigin
  <2> QED
    BY <1>1, <2>1, DraftIs
<1>3. Faithful(name, Everything) /\ Still \cup Holders(doc) \subseteq Everything
  BY <1>2, ReferencesFaithful
<1>4. PICK lists, categories : lists = c.lists \cup DOMAIN doc.lists /\ categories = DOMAIN c.carries \cup doc.categories
  OBVIOUS
<1>5. /\ IsShipment(c) /\ c.lists = origin.catalog.lists \ origin.catalog.local
      /\ DOMAIN c.carries = PortableCategories(origin.catalog)
  BY PortableIs DEF SoundOrigin, FoundOrigin
<1>6. c.lists \subseteq Still /\ DOMAIN c.carries \subseteq Still
  BY <1>5 DEF IsShipment
<1>7. /\ lists \subseteq Everything /\ categories \subseteq Everything
      /\ DOMAIN doc.profiles \subseteq Everything /\ DOMAIN doc.devices \subseteq Everything
  BY <1>3, <1>4, <1>6 DEF Holders
<1>8. PortableLists(origin.catalog, d) = All(name, lists)
  <2>1. PICK own, shipped : own = DOMAIN doc.lists /\ shipped = c.lists
    OBVIOUS
  <2>2. All(name, lists) = All(name, shipped) \cup All(name, own)
    BY <1>4, <2>1, AllEither
  <2>3. All(name, shipped) = shipped
    BY <1>2, <1>6, <2>1, StillAll
  <2> QED
    BY <1>2, <1>5, <2>1, <2>2, <2>3 DEF PortableLists, KindsRenamed
<1>9. PortableCategories(origin.catalog) \cup d.categories = All(name, categories)
  <2>1. PICK own, shipped : own = doc.categories /\ shipped = DOMAIN c.carries
    OBVIOUS
  <2>2. All(name, categories) = All(name, shipped) \cup All(name, own)
    BY <1>4, <2>1, AllEither
  <2>3. All(name, shipped) = shipped
    BY <1>2, <1>6, <2>1, StillAll
  <2> QED
    BY <1>2, <1>5, <2>1, <2>2, <2>3 DEF KindsRenamed
<1>10. /\ \A m \in doc.memberships : /\ {"category", "list", "state"} \subseteq DOMAIN m
                                     /\ m.category \in Everything /\ m.list \in Everything
       /\ \A x \in doc.off \cup doc.words : "list" \in DOMAIN x /\ x.list \in Everything
       /\ \A k \in DOMAIN doc.profiles : /\ SpeaksInProfile(doc.profiles[k], Everything)
                                         /\ doc.profiles[k].priority \in Seq(Listed)
       /\ \A k \in DOMAIN doc.outputs : /\ {"profile", "device"} \subseteq DOMAIN doc.outputs[k]
                                        /\ doc.outputs[k].profile \in Everything /\ doc.outputs[k].device \in Everything
       /\ Listed \subseteq Everything
  BY <1>2, TypedSpeaks DEF SoundOrigin, FoundOrigin
<1>11. doc.removals \subseteq c.lists \cup DOMAIN c.carries
  BY <1>1, <1>2, <1>5 DEF SoundOrigin, ValidDraft, ValidLibrary, Renames
<1>12. ASSUME NEW m \in doc.memberships PROVE m.category \in categories /\ m.list \in lists
  <2>1. PICK n : n = Belonging(name, m)
    OBVIOUS
  <2>2. n \in d.memberships
    BY <1>2, <2>1 DEF Renames, Belongings
  <2>3. n.category = To(name, m.category) /\ n.list = To(name, m.list)
    BY <1>10, <2>1 DEF Belonging
  <2>4. n.category \in All(name, categories) /\ n.list \in All(name, lists)
    BY <1>1, <1>8, <1>9, <2>2 DEF SoundOrigin, ValidDraft, ValidLibrary
  <2> QED
    BY <1>3, <1>7, <1>10, <2>3, <2>4, Cancelled
<1>13. ASSUME NEW x \in doc.off \cup doc.words PROVE x.list \in lists
  <2>1. PICK n : n = About(name, x)
    OBVIOUS
  <2>2. n \in d.off \cup d.words
    BY <1>2, <2>1 DEF Renames, Abouts
  <2>3. n.list = To(name, x.list)
    BY <1>10, <2>1, AboutIs
  <2>4. n.list \in All(name, lists)
    BY <1>1, <1>8, <2>2 DEF SoundOrigin, ValidDraft
  <2> QED
    BY <1>3, <1>7, <1>10, <2>3, <2>4, Cancelled
<1>14. ASSUME NEW k \in DOMAIN doc.profiles
       PROVE  SoundProfile(doc.profiles[k], lists, categories) /\ Unrepeated(doc.profiles[k].priority)
  <2>1. PICK p, q : p = doc.profiles[k] /\ q = d.profiles[To(name, k)]
    OBVIOUS
  <2>2. ProfileRenamed(name, p, q) /\ To(name, k) \in DOMAIN d.profiles
    BY <1>2, <2>1 DEF Renames, ProfilesRenamed, All
  <2>3. q.priority = InOrder(name, p.priority)
    BY <1>2, <2>1 DEF PrioritiesRenamed
  <2>4. p.priority \in Seq(Listed) /\ SpeaksInProfile(p, Everything)
    BY <1>10, <2>1
  <2>5. Len(p.priority) \in Nat /\ Entries(q.priority) = All(name, Entries(p.priority)) /\ Entries(p.priority) \subseteq Listed
    BY <2>3, <2>4, InOrderIs
  <2>6. /\ Entries(q.priority) \subseteq PortableLists(origin.catalog, d)
        /\ ValidComposition(origin.catalog, d, q, PortableLists(origin.catalog, d), PortableCategories(origin.catalog) \cup d.categories)
    BY <1>1, <2>1, <2>2 DEF SoundOrigin, ValidDraft, ValidProfiles
  <2>7. /\ q.lists \subseteq PortableLists(origin.catalog, d) /\ q.exclusions \subseteq PortableLists(origin.catalog, d)
        /\ q.categories \subseteq PortableCategories(origin.catalog) \cup d.categories
        /\ IsInjective(q.priority)
    BY <2>6 DEF ValidComposition
  <2>8. DOMAIN q.domains \subseteq PortableLists(origin.catalog, d)
    <3>1. PICK l : l = PortableLists(origin.catalog, d)
      OBVIOUS
    <3>2. DOMAIN q.domains \subseteq Resolved(origin.catalog, d, q, l \ d.removals)
      BY <2>6, <3>1 DEF ValidComposition
    <3>3. Resolved(origin.catalog, d, q, l \ d.removals) \subseteq l
      BY DEF Resolved
    <3> QED
      BY <3>1, <3>2, <3>3
  <2>9. DOMAIN q.domains = All(name, DOMAIN p.domains)
    <3>1. Faithful(name, DOMAIN p.domains)
      BY <1>3, <2>4, FaithfulPart DEF SpeaksInProfile
    <3> QED
      BY <2>2, <3>1, KeyedIs DEF ProfileRenamed
  <2>10. ASSUME NEW part, part \subseteq Everything, NEW other, other \subseteq Everything, All(name, part) \subseteq All(name, other)
         PROVE  part \subseteq other
    BY <1>3, <2>10, Cancelled DEF All
  <2>11. p.lists \subseteq lists /\ p.exclusions \subseteq lists
    BY <1>7, <1>8, <2>2, <2>4, <2>7, <2>10 DEF ProfileRenamed, SpeaksInProfile
  <2>12. p.categories \subseteq categories
    BY <1>7, <1>9, <2>2, <2>4, <2>7, <2>10 DEF ProfileRenamed, SpeaksInProfile
  <2>13. DOMAIN p.domains \subseteq lists
    BY <1>7, <1>8, <2>4, <2>8, <2>9, <2>10 DEF SpeaksInProfile
  <2>14. Entries(p.priority) \subseteq lists
    BY <1>7, <1>8, <1>10, <2>5, <2>6, <2>10
  <2>15. Unrepeated(p.priority)
    <3>1. Len(q.priority) = Len(p.priority) /\ q.priority \in Seq(All(name, Listed))
      BY <2>3, <2>4, InOrderIs
    <3>2. Unrepeated(q.priority)
      BY <2>7, <3>1 DEF IsInjective, Unrepeated
    <3>3. Faithful(name, Listed)
      BY <1>3, <1>10, FaithfulPart
    <3> QED
      BY <2>3, <2>4, <3>2, <3>3, InOrderKeeps
  <2> QED
    BY <2>1, <2>5, <2>11, <2>12, <2>13, <2>14, <2>15 DEF SoundProfile
<1>15. ASSUME NEW k \in DOMAIN doc.outputs
       PROVE  doc.outputs[k].profile \in DOMAIN doc.profiles /\ doc.outputs[k].device \in DOMAIN doc.devices \cup {NoDevice}
  <2>1. PICK o, q : o = doc.outputs[k] /\ q = d.outputs[To(name, k)]
    OBVIOUS
  <2>2. q = Rebound(name, o) /\ To(name, k) \in DOMAIN d.outputs
    <3>1. PICK t : t = [j \in DOMAIN doc.outputs |-> Rebound(name, doc.outputs[j])]
      OBVIOUS
    <3>2. d.outputs = Keyed(name, t) /\ DOMAIN t = DOMAIN doc.outputs
      BY <1>2, <3>1 DEF Renames, OutputsRenamed
    <3>3. Faithful(name, DOMAIN t)
      BY <1>3, <3>2, FaithfulPart DEF Holders
    <3>4. d.outputs[To(name, k)] = t[k] /\ DOMAIN d.outputs = All(name, DOMAIN t)
      BY <3>2, <3>3, KeyedIs
    <3>5. t[k] = Rebound(name, o)
      BY <2>1, <3>1
    <3>6. To(name, k) \in All(name, DOMAIN t)
      BY <3>2 DEF All
    <3> QED
      BY <2>1, <3>4, <3>5, <3>6
  <2>3. q.profile = To(name, o.profile) /\ q.device = To(name, o.device)
    BY <1>10, <2>1, <2>2 DEF Rebound
  <2>4. q.profile \in DOMAIN d.profiles /\ q.device \in DOMAIN d.devices \cup {NoDevice}
    BY <1>1, <2>1, <2>2 DEF SoundOrigin, ValidDraft, ValidBindings
  <2>5. DOMAIN d.profiles = All(name, DOMAIN doc.profiles) /\ DOMAIN d.devices = All(name, DOMAIN doc.devices)
    BY <1>2 DEF KindsRenamed
  <2>6. o.profile \in Everything /\ o.device \in Everything
    BY <1>10, <2>1
  <2>7. o.profile \in DOMAIN doc.profiles
    BY <1>3, <1>7, <2>3, <2>4, <2>5, <2>6, Cancelled
  <2>8. CASE q.device \in DOMAIN d.devices
    BY <1>3, <1>7, <2>1, <2>3, <2>5, <2>6, <2>7, <2>8, Cancelled
  <2>9. CASE q.device = NoDevice
    <3>1. NoDevice \in Still /\ NoDevice \in Everything
      BY DEF Still, Everything
    <3>2. To(name, NoDevice) = NoDevice
      BY <1>2, <3>1 DEF Moves
    <3>3. o.device = NoDevice
      BY <1>3, <2>3, <2>6, <2>9, <3>1, <3>2 DEF Faithful
    <3> QED
      BY <2>1, <2>7, <3>3
  <2> QED
    BY <2>4, <2>8, <2>9
<1>16. Sound(c, doc)
  BY <1>4, <1>10, <1>11, <1>12, <1>13, <1>14, <1>15 DEF Sound
<1> QED
  BY <1>10, <1>14, <1>16

-----------------------------------------------------------------------------
(* From the draft to what is stored elsewhere.                             *)

\* A document with the orders of its profiles completed where it is read.
Prioritizes(c, a, b) ==
  \A k \in DOMAIN a.profiles : b.profiles[k].priority = MergePriority(a.profiles[k].priority, Ids(Ends(c, a, a.profiles[k])))

\* A document that a file carries, and one that an import keeps of it.
Filed(origin, f) ==
  /\ Formed(f) /\ Alike(Drafted(origin), f) /\ Prioritizes(origin.catalog, Drafted(origin), f)
  /\ origin.form.order => f.order = Drafted(origin).order
Kept(c, origin, f, kept) ==
  /\ Formed(kept) /\ Alike(f, kept) /\ Prioritizes(c, f, kept)
  /\ CarriesDefaultPriority(origin.form.version) => origin.form.order /\ kept.order = f.order
  /\ ~ CarriesDefaultPriority(origin.form.version) => kept.order = <<>>

LEMMA FewerNamed ==
  ASSUME NEW pool, IsFiniteSet(pool), NEW ids, ids \subseteq pool, NEW name
  PROVE  Cardinality(All(name, ids)) <= Cardinality(pool) /\ IsFiniteSet(All(name, ids))
<1>1. PICK f : f = [x \in ids |-> To(name, x)]
  OBVIOUS
<1>2. f \in Surjection(ids, All(name, ids))
  BY <1>1 DEF Surjection, All
<1>3. IsFiniteSet(ids) /\ Cardinality(ids) <= Cardinality(pool)
  BY FS_Subset
<1>4. IsFiniteSet(All(name, ids)) /\ Cardinality(All(name, ids)) <= Cardinality(ids)
  BY <1>2, <1>3, FS_Surjection
<1>5. Cardinality(All(name, ids)) \in Nat /\ Cardinality(ids) \in Nat /\ Cardinality(pool) \in Nat
  BY <1>3, <1>4, FS_CardinalityType
<1> QED
  BY <1>3, <1>4, <1>5

LEMMA NamedFits ==
  ASSUME NEW a, Within(a, Pool), NEW name, NEW b, KindsRenamed(name, a, b)
  PROVE  Fits(b)
<1>1. {"lists", "categories", "profiles", "devices", "outputs"} = Kinds
  BY DEF Kinds
<1>2. \A kind \in Kinds : IsFiniteSet(Pool[kind])
  BY PoolIs
<1>3. ASSUME NEW kind \in Kinds, NEW ids, ids \subseteq Pool[kind] PROVE Cardinality(All(name, ids)) <= Cardinality(Pool[kind])
  BY <1>2, <1>3, FewerNamed
<1>4. /\ Cardinality(b.categories) <= Cardinality(Pool["categories"])
      /\ Cardinality(DOMAIN b.profiles) <= Cardinality(Pool["profiles"])
  BY <1>1, <1>3 DEF Within, KindsRenamed
<1>5. /\ Cardinality(DOMAIN b.devices) <= Cardinality(Pool["devices"])
      /\ Cardinality(DOMAIN b.outputs) <= Cardinality(Pool["outputs"])
  BY <1>1, <1>3 DEF Within, KindsRenamed
<1> QED
  BY <1>4, <1>5 DEF Fits

\* The references of a file, the identities drawn for them, and both in one.
Arrived(doc, references, kept, drawn, name, here) ==
  /\ Naming(references, doc, RefIds) /\ Renames(references, doc, kept) /\ KindsRenamed(references, doc, kept)
  /\ Within(kept, RefIds) /\ Naming(drawn, kept, Pool) /\ Moves(drawn, kept) /\ Renames(drawn, kept, here)
  /\ name = Through(references, drawn) /\ Naming(name, doc, Pool) /\ Moves(name, doc)
  /\ Twice(references, drawn, name, Still \cup Holders(doc))
  /\ Renames(name, doc, here) /\ KindsRenamed(name, doc, here) /\ PrioritiesRenamed(drawn, kept, here)

LEMMA Arrives ==
  ASSUME NEW origin, SoundOrigin(origin), NEW f, Filed(origin, f), NEW c, NEW kept, Kept(c, origin, f, kept),
         NEW drawn \in FreshNames(kept), NEW here, here = RowsOf(Renamed(kept, drawn)),
         NEW doc, doc = ReadRows(origin.rows), NEW references, references = References(doc),
         NEW name, name = Through(references, drawn)
  PROVE  Arrived(doc, references, kept, drawn, name, here) /\ here.order = InOrder(drawn, kept.order)
<1>1. PICK d : d = Drafted(origin)
  OBVIOUS
<1>2. /\ Document(origin.rows, doc) /\ Formed(doc) /\ Within(doc, Pool)
      /\ Naming(references, doc, RefIds) /\ Moves(references, doc)
      /\ Renames(references, doc, d) /\ KindsRenamed(references, doc, d)
  BY <1>1, DraftIs DEF SoundOrigin
<1>3. Alike(d, kept) /\ Formed(kept)
  BY <1>1, AlikeTwice DEF Filed, Kept
<1>4. Renames(references, doc, kept) /\ KindsRenamed(references, doc, kept)
  BY <1>2, <1>3, AlikeRenames, AlikeHolders
<1>5. Within(kept, RefIds)
  BY <1>2, <1>4, Identities, NamedWithin
<1>6. Fits(kept)
  BY <1>2, <1>4, NamedFits
<1>7. Naming(drawn, kept, Pool) /\ Moves(drawn, kept)
  BY <1>5, <1>6, FreshNamesAre, Identities, NamingMoves
<1>8. PICK r : r = Renamed(kept, drawn)
  OBVIOUS
<1>9. /\ Renames(drawn, kept, r) /\ r.order = InOrder(drawn, kept.order)
      /\ \A k \in DOMAIN kept.profiles : r.profiles[To(drawn, k)].priority = InOrder(drawn, kept.profiles[k].priority)
  BY <1>3, <1>7, <1>8, RenamedIs
<1>10. Alike(r, here) /\ here.order = r.order /\ here.profiles = r.profiles
  BY <1>8, RowsOfIs
<1>11. Renames(drawn, kept, here) /\ PrioritiesRenamed(drawn, kept, here)
  BY <1>9, <1>10, AlikeRenames DEF PrioritiesRenamed
<1>12. Naming(name, doc, Pool) /\ Twice(references, drawn, name, Still \cup Holders(doc))
  BY <1>2, <1>4, <1>7, ThroughNames
<1>13. Moves(name, doc)
  BY <1>2, <1>12, Identities, NamingMoves
<1>14. Speaks(doc, Still \cup Holders(doc))
  <2>1. PICK p : p = Portable(origin.catalog)
    OBVIOUS
  <2>2. IsShipment(p)
    BY <2>1, PortableIs DEF SoundOrigin, FoundOrigin
  <2>3. Sound(p, doc)
    BY <2>1, DraftSound
  <2> QED
    BY <2>2, <2>3, SoundSpeaks
<1>15. Renames(name, doc, here)
  BY <1>4, <1>11, <1>12, <1>14, RenamesTwice
<1>16. KindsRenamed(name, doc, here)
  BY <1>13, <1>15, KindsMove
<1> QED
  BY <1>2, <1>4, <1>5, <1>7, <1>9, <1>10, <1>11, <1>12, <1>13, <1>15, <1>16 DEF Arrived

LEMMA ArrivesAsItWas ==
  ASSUME NEW origin, SoundOrigin(origin), NEW f, Filed(origin, f), NEW c \in Catalogs, SamePortable(origin.catalog, c),
         NEW kept, Kept(c, origin, f, kept), NEW drawn \in FreshNames(kept), NEW here, here = RowsOf(Renamed(kept, drawn)),
         NEW name, name = Through(References(ReadRows(origin.rows)), drawn)
  PROVE  /\ name \in Correspondences(origin.rows, here)
         /\ Renaming(Meaning(Portable(origin.catalog), origin.rows), name) = Meaning(Portable(c), here)
<1>1. PICK doc, references : doc = ReadRows(origin.rows) /\ references = References(doc)
  OBVIOUS
<1>2. Arrived(doc, references, kept, drawn, name, here)
  BY <1>1, Arrives
<1>3. Document(origin.rows, doc) /\ Within(doc, Pool)
  BY <1>1, DraftIs DEF SoundOrigin
<1>4. name \in Correspondences(doc, here)
  <2>1. name = [x \in DOMAIN name |-> name[x]]
    BY <1>2 DEF Arrived, Through
  <2> QED
    BY <1>2, <1>3, <2>1, Corresponding DEF Arrived
<1>5. Correspondences(doc, here) = Correspondences(origin.rows, here)
  BY <1>3 DEF Correspondences, Document
<1>6. PICK then, now : then = Portable(origin.catalog) /\ now = Portable(c)
  OBVIOUS
<1>7. IsShipment(then) /\ now.lists = then.lists /\ now.carries = then.carries
  BY <1>6, PortableIs DEF SoundOrigin, FoundOrigin, SamePortable
<1>8. Sound(then, doc)
  BY <1>1, <1>6, DraftSound
<1>9. here.feeds = Nothing
  BY RowsOfIs
<1>10. Renaming(Meaning(then, origin.rows), name) = Meaning(now, here)
  BY <1>2, <1>3, <1>7, <1>8, <1>9, MeaningAll DEF Arrived
<1> QED
  BY <1>4, <1>5, <1>6, <1>10

\* Where a document is read only what is portable counts.
LEMMA PortableReads ==
  ASSUME NEW c \in Catalogs, NEW d, Within(d, RefIds), NEW p, p.categories \subseteq PortableCategories(c) \cup d.categories,
         NEW e, e.lists = Portable(c).lists, e.carries = Portable(c).carries
  PROVE  Ends(c, d, p) = Resolved(e, d, p, KnownLists(e.lists, d))
<1>1. PICK q : q = Portable(c)
  OBVIOUS
<1>2. /\ q.lists = c.lists \ c.local /\ DOMAIN q.carries = PortableCategories(c)
      /\ \A k \in PortableCategories(c) : q.carries[k] = c.carries[k]
  BY <1>1, PortableIs
<1>3. \A k \in PortableCategories(c) : k \in DOMAIN c.carries
  BY DEF PortableCategories
<1>4. \A k \in d.categories : k \notin DOMAIN c.carries
  <2>1. DOMAIN c.carries \subseteq Still
    BY DEF Still, ShippedCategories
  <2>2. d.categories \cap Still = {}
    BY Identities DEF Within, Apart, Kinds
  <2> QED
    BY <2>1, <2>2
<1>5. ASSUME NEW k \in PortableCategories(c) \cup d.categories PROVE Members(e, d, k) = Members(c, d, k)
  <2>1. Shipped(e, k) = Shipped(c, k)
    BY <1>1, <1>2, <1>3, <1>4 DEF Shipped
  <2> QED
    BY <2>1 DEF Members
<1>6. PICK g : g = p.categories \ d.removals
  OBVIOUS
<1>7. Carried(e, d, g) = Carried(c, d, g)
  BY <1>5, <1>6 DEF Carried
<1>8. e.lists = c.lists \ c.local
  BY <1>1, <1>2
<1>9. PICK known : known = KnownLists(c.lists \ c.local, d)
  OBVIOUS
<1>10. /\ Resolved(c, d, p, known) = ((p.lists \cup Carried(c, d, p.categories \ d.removals)) \ p.exclusions) \cap known
       /\ Resolved(e, d, p, known) = ((p.lists \cup Carried(e, d, p.categories \ d.removals)) \ p.exclusions) \cap known
  BY ResolvedIs
<1>11. Resolved(c, d, p, known) = Resolved(e, d, p, known)
  BY <1>6, <1>7, <1>10
<1> QED
  BY <1>8, <1>9, <1>11 DEF Ends

LEMMA KnownFinite ==
  ASSUME NEW c \in Catalogs, NEW e, e.lists \subseteq c.lists, NEW d, Within(d, Pool) \/ Within(d, RefIds)
  PROVE  /\ IsFiniteSet(KnownLists(e.lists, d)) /\ KnownLists(e.lists, d) \subseteq Nat
         /\ KnownLists(e.lists, d) \subseteq Still \cup Holders(d) /\ IsFiniteSet(d.categories)
<1>1. IsFiniteSet(c.lists) /\ c.lists \subseteq Nat /\ c.lists \subseteq Still
  BY CatalogsAreFinite DEF Still, ShippedLists
<1>2. {"lists", "categories"} \subseteq Kinds
  BY DEF Kinds
<1>3. /\ IsFiniteSet(Pool["lists"]) /\ Pool["lists"] \subseteq Nat /\ IsFiniteSet(RefIds["lists"]) /\ RefIds["lists"] \subseteq Nat
      /\ IsFiniteSet(Pool["categories"]) /\ IsFiniteSet(RefIds["categories"])
  BY <1>2, PoolIs
<1>4. IsFiniteSet(DOMAIN d.lists) /\ DOMAIN d.lists \subseteq Nat /\ IsFiniteSet(d.categories)
  BY <1>3, FS_Subset DEF Within
<1>5. IsFiniteSet(e.lists \ d.removals)
  BY <1>1, FS_Subset
<1>6. IsFiniteSet((e.lists \ d.removals) \cup DOMAIN d.lists)
  BY <1>4, <1>5, FS_Union
<1> QED
  BY <1>1, <1>4, <1>6 DEF KnownLists, Holders

LEMMA ReferencesAscend ==
  ASSUME NEW c \in Catalogs, NEW e, e.lists \subseteq c.lists, NEW d, Within(d, Pool), InReferenceOrder(d),
         NEW name, name = References(d), NEW x \in KnownLists(e.lists, d), NEW y \in KnownLists(e.lists, d), x < y
  PROVE  To(name, x) < To(name, y)
<1>1. /\ Naming(name, d, RefIds) /\ Agrees(name, Numbered(DOMAIN d.lists, Refs.lists))
  BY ReferencesAre
<1>2. Moves(name, d) /\ \A z \in Holders(d) : To(name, z) = name[z]
  BY <1>1, Identities, NamingMoves
<1>3. PICK own, n : own = DOMAIN d.lists /\ n = Numbered(DOMAIN d.lists, Refs.lists)
  OBVIOUS
<1>4. {"lists"} \subseteq Kinds
  BY DEF Kinds
<1>5. /\ IsFiniteSet(Pool["lists"]) /\ Pool["lists"] \subseteq Nat
      /\ Len(Refs["lists"]) \in Nat /\ DOMAIN Refs["lists"] = 1 .. Len(Refs["lists"]) /\ IsInjective(Refs["lists"])
      /\ Cardinality(Pool["lists"]) <= Len(Refs["lists"])
  BY <1>4, PoolIs
<1>6. IsFiniteSet(own) /\ own \subseteq Nat /\ own \subseteq Pool["lists"] /\ Cardinality(own) <= Cardinality(Pool["lists"])
  BY <1>3, <1>5, FS_Subset DEF Within
<1>7. Cardinality(own) <= Len(Refs["lists"])
  BY <1>5, <1>6, FS_CardinalityType
<1>8. DOMAIN n = own /\ Into(n, Entries(Refs["lists"])) /\ Ascending(n, own, Refs["lists"])
  BY <1>3, <1>5, <1>6, <1>7, NumberedIs
<1>9. ASSUME NEW z \in own PROVE To(name, z) = n[z] /\ To(name, z) \in Drawn("lists") /\ z \in Drawn("lists")
  <2>1. To(name, z) = n[z]
    BY <1>1, <1>2, <1>3, <1>8, <1>9 DEF Agrees, Holders
  <2> QED
    BY <1>6, <1>8, <1>9, <2>1 DEF Into, Drawn
<1>10. ASSUME NEW z \in KnownLists(e.lists, d), z \notin own
       PROVE  To(name, z) = z /\ z \in ShippedLists /\ z \in Nat
  <2>1. z \in c.lists
    BY <1>3, <1>10 DEF KnownLists
  <2> QED
    BY <1>2, <2>1, CatalogsAreFinite DEF Moves, Still, ShippedLists
<1>11. \A z \in Drawn("lists") : z \in Nat
  <2>1. RefIds["lists"] \subseteq Nat /\ RefIds["lists"] = Entries(Refs["lists"])
    BY <1>4, PoolIs
  <2> QED
    BY <1>5, <2>1 DEF Drawn
<1>12. CASE x \in own /\ y \in own
  <2>1. PICK i, j \in 1 .. Cardinality(own) : i < j /\ n[x] = Refs["lists"][i] /\ n[y] = Refs["lists"][j]
    BY <1>8, <1>12 DEF Ascending
  <2>2. Refs["lists"][i] < Refs["lists"][j]
    BY <1>3, <2>1 DEF InReferenceOrder
  <2> QED
    BY <1>9, <1>12, <2>1, <2>2
<1>13. CASE x \in own /\ y \notin own
  <2>1. To(name, x) \in Drawn("lists") /\ x \in Drawn("lists") /\ To(name, y) = y /\ y \in ShippedLists /\ y \in Nat
    BY <1>9, <1>10, <1>13
  <2>5. x \in Nat /\ To(name, x) \in Nat
    BY <1>11, <2>1
  <2>2. ~ (y < x)
    BY <2>1, <2>5
  <2>3. ~ (y < To(name, x))
    BY <2>1, <2>2, ShippedAside
  <2>4. y # To(name, x)
    <3>1. "lists" \in Kinds
      BY DEF Kinds
    <3> QED
      BY <2>1, <3>1, IdentitiesApart
  <2> QED
    BY <2>1, <2>3, <2>4, <2>5
<1>14. CASE x \notin own /\ y \in own
  <2>1. To(name, y) \in Drawn("lists") /\ y \in Drawn("lists") /\ To(name, x) = x /\ x \in ShippedLists
    BY <1>9, <1>10, <1>14
  <2> QED
    BY <2>1, ShippedAside
<1>15. CASE x \notin own /\ y \notin own
  BY <1>10, <1>15
<1> QED
  BY <1>12, <1>13, <1>14, <1>15

\* Under new names the same lists in the same order, unless there are ten or more.
LEMMA RoutesArrive ==
  ASSUME NEW origin, SoundOrigin(origin), NEW f, Filed(origin, f), NEW c \in Catalogs, SamePortable(origin.catalog, c),
         NEW kept, Kept(c, origin, f, kept), NEW drawn \in FreshNames(kept), NEW here, here = RowsOf(Renamed(kept, drawn)),
         NEW name, name = Through(References(ReadRows(origin.rows)), drawn),
         NEW then, then = Portable(origin.catalog), NEW there, there = origin.rows, NEW k \in DOMAIN there.profiles,
         NEW a \in Resolved(then, there, there.profiles[k], KnownLists(then.lists, there)),
         NEW b \in Resolved(then, there, there.profiles[k], KnownLists(then.lists, there)),
         Precedes(Routes(then, there, there.profiles[k]), a, b),
         a \in Entries(there.profiles[k].priority) \/ InReferenceOrder(there)
  PROVE  Precedes(Routes(Portable(c), here, here.profiles[To(name, k)]), To(name, a), To(name, b))
<1>1. PICK doc, references, d, now :
        doc = ReadRows(there) /\ references = References(doc) /\ d = Drafted(origin) /\ now = Portable(c)
  OBVIOUS
<1>2. Arrived(doc, references, kept, drawn, name, here)
  BY <1>1, Arrives
<1>3. /\ Document(there, doc) /\ Within(doc, Pool) /\ Naming(references, doc, RefIds) /\ Moves(references, doc)
      /\ Renames(references, doc, d) /\ Within(d, RefIds) /\ PrioritiesRenamed(references, doc, d)
  BY <1>1, DraftIs DEF SoundOrigin
<1>4. IsShipment(then) /\ now.lists = then.lists /\ now.carries = then.carries /\ then.lists \subseteq origin.catalog.lists
  BY <1>1, PortableIs DEF SoundOrigin, FoundOrigin, SamePortable
<1>5. /\ DOMAIN then.carries = PortableCategories(origin.catalog) /\ DOMAIN then.carries = PortableCategories(c)
      /\ origin.catalog \in Catalogs
  BY <1>1, PortableIs DEF SoundOrigin, FoundOrigin, SamePortable
<1>6. /\ Sound(then, doc)
      /\ \A j \in DOMAIN doc.profiles : /\ Unrepeated(doc.profiles[j].priority)
                                        /\ doc.profiles[j].priority \in Seq(Listed)
  BY <1>1, DraftSound
<1>7. PICK p, q, g, w, h :
        /\ p = doc.profiles[k] /\ q = d.profiles[To(references, k)] /\ g = f.profiles[To(references, k)]
        /\ w = kept.profiles[To(references, k)] /\ h = here.profiles[To(name, k)]
  OBVIOUS
<1>8. k \in DOMAIN doc.profiles /\ p = there.profiles[k]
  BY <1>3, <1>7 DEF Document
<1>9. /\ Renames(references, doc, f) /\ Renames(references, doc, kept) /\ Alike(d, f) /\ Alike(f, kept)
      /\ Within(f, RefIds) /\ Within(kept, RefIds)
  BY <1>1, <1>3, AlikeRenames, AlikeHolders DEF Filed, Kept
<1>10. /\ ProfileRenamed(references, p, q) /\ ProfileRenamed(references, p, g) /\ ProfileRenamed(references, p, w)
       /\ ProfileRenamed(name, p, h)
       /\ To(references, k) \in DOMAIN d.profiles /\ To(references, k) \in DOMAIN f.profiles
       /\ To(references, k) \in DOMAIN kept.profiles
  BY <1>2, <1>3, <1>7, <1>8, <1>9 DEF Arrived, Renames, ProfilesRenamed, All
<1>11. SpeaksInProfile(p, Still \cup Holders(doc)) /\ p.categories \subseteq DOMAIN then.carries \cup doc.categories
  BY <1>4, <1>6, <1>7, <1>8, SoundSpeaks DEF Speaks, Sound, SoundProfile
<1>12. PICK v : v = Resolved(then, doc, p, KnownLists(then.lists, doc))
  OBVIOUS
<1>13. v = Resolved(then, there, there.profiles[k], KnownLists(then.lists, there))
  BY <1>3, <1>8, <1>12, SameReading DEF Document
<1>14. a \in v /\ b \in v /\ Precedes(MergePriority(p.priority, Ids(v)), a, b)
  BY <1>8, <1>13 DEF Routes
<1>15. /\ IsFiniteSet(KnownLists(then.lists, doc)) /\ KnownLists(then.lists, doc) \subseteq Nat
       /\ KnownLists(then.lists, doc) \subseteq Still \cup Holders(doc)
  BY <1>3, <1>4, <1>5, KnownFinite
<1>16. v \subseteq KnownLists(then.lists, doc)
  BY <1>12 DEF Resolved
<1>17. IsFiniteSet(v) /\ v \subseteq Nat /\ v \subseteq Still \cup Holders(doc)
  BY <1>15, <1>16, FS_Subset
<1>18. Resolved(then, f, g, KnownLists(then.lists, f)) = All(references, v)
  BY <1>3, <1>4, <1>6, <1>9, <1>10, <1>11, <1>12, ResolvedAll
<1>19. Resolved(then, d, q, KnownLists(then.lists, d)) = All(references, v)
  BY <1>3, <1>4, <1>6, <1>10, <1>11, <1>12, ResolvedAll
<1>20. Resolved(then, here, h, KnownLists(then.lists, here)) = All(name, v)
  BY <1>2, <1>4, <1>6, <1>10, <1>11, <1>12, ResolvedAll DEF Arrived
<1>21. All(references, DOMAIN then.carries) = DOMAIN then.carries
  BY <1>3, <1>4, StillAll DEF IsShipment
<1>22. q.categories \subseteq DOMAIN then.carries \cup d.categories /\ g.categories \subseteq DOMAIN then.carries \cup f.categories
  <2>1. All(references, p.categories) \subseteq DOMAIN then.carries \cup All(references, doc.categories)
    BY <1>11, <1>21 DEF All
  <2>2. d.categories = All(references, doc.categories) /\ f.categories = All(references, doc.categories)
    BY <1>3, <1>9 DEF Renames
  <2> QED
    BY <1>10, <2>1, <2>2 DEF ProfileRenamed
<1>23. Ends(origin.catalog, d, q) = All(references, v)
  BY <1>1, <1>3, <1>5, <1>19, <1>22, PortableReads
<1>24. Ends(c, f, g) = All(references, v)
  BY <1>1, <1>4, <1>5, <1>9, <1>18, <1>22, PortableReads DEF SamePortable
<1>25. q.priority = InOrder(references, p.priority)
  BY <1>3, <1>7, <1>8 DEF PrioritiesRenamed
<1>26. PICK v1 : v1 = All(references, v)
  OBVIOUS
<1>27. g.priority = MergePriority(InOrder(references, p.priority), Ids(v1))
  BY <1>1, <1>7, <1>10, <1>23, <1>25, <1>26 DEF Filed, Prioritizes
<1>28. w.priority = MergePriority(g.priority, Ids(v1))
  BY <1>7, <1>10, <1>24, <1>26 DEF Kept, Prioritizes
<1>29. /\ v1 \subseteq KnownLists(then.lists, d) /\ v1 \subseteq KnownLists(then.lists, kept)
  <2>1. v1 \subseteq KnownLists(then.lists, d)
    BY <1>19, <1>26 DEF Resolved
  <2>2. KnownLists(then.lists, kept) = KnownLists(then.lists, d)
    BY <1>9 DEF KnownLists, Alike
  <2> QED
    BY <2>1, <2>2
<1>30. /\ IsFiniteSet(KnownLists(then.lists, kept)) /\ KnownLists(then.lists, kept) \subseteq Nat
       /\ KnownLists(then.lists, kept) \subseteq Still \cup Holders(kept)
  BY <1>4, <1>5, <1>9, KnownFinite
<1>31. IsFiniteSet(v1) /\ v1 \subseteq Nat /\ v1 \subseteq Still \cup Holders(kept)
  BY <1>29, <1>30, FS_Subset
<1>32. Faithful(references, Everything) /\ v \subseteq Everything /\ Listed \subseteq Everything
  BY <1>3, <1>17, ReferencesFaithful, TypedSpeaks DEF SoundOrigin, FoundOrigin
<1>33. p.priority \in Seq(Everything)
  BY <1>6, <1>7, <1>8, <1>32, WiderSequence
<1>34. PICK a1, b1 : a1 = To(references, a) /\ b1 = To(references, b)
  OBVIOUS
<1>35. a \in Entries(p.priority) \/ \A x, y \in v : x < y => To(references, x) < To(references, y)
  <2>1. CASE a \in Entries(there.profiles[k].priority)
    BY <1>8, <2>1
  <2>2. CASE InReferenceOrder(there)
    <3>1. InReferenceOrder(doc)
      BY <1>3, <2>2 DEF InReferenceOrder, Document
    <3> QED
      BY <1>1, <1>3, <1>4, <1>5, <1>16, <3>1, ReferencesAscend
  <2> QED
    BY <2>1, <2>2
<1>36. Precedes(g.priority, a1, b1)
  BY <1>14, <1>17, <1>26, <1>27, <1>31, <1>32, <1>33, <1>34, <1>35, MergeMoves
<1>37. a1 \in v1 /\ b1 \in v1
  BY <1>14, <1>26, <1>34 DEF All
<1>38. Entries(Ids(v1)) = v1 /\ Len(Ids(v1)) \in Nat
  BY <1>31, IdsAre
<1>39. g.priority \in Seq(v1) /\ Len(g.priority) \in Nat /\ Unrepeated(g.priority)
  <2>1. Len(InOrder(references, p.priority)) \in Nat
    BY <1>33, InOrderIs
  <2> QED
    BY <1>27, <1>31, <2>1, MergeSequence
<1>40. Precedes(w.priority, a1, b1)
  BY <1>28, <1>31, <1>36, <1>37, <1>38, <1>39, MergeKeeps
<1>41. w.priority \in Seq(v1) /\ Len(w.priority) \in Nat /\ Unrepeated(w.priority)
  BY <1>28, <1>31, <1>39, MergeSequence
<1>42. Twice(references, drawn, name, Still \cup Holders(doc)) /\ Moves(drawn, kept) /\ PrioritiesRenamed(drawn, kept, here)
  BY <1>2 DEF Arrived
<1>43. h.priority = InOrder(drawn, w.priority)
  <2>1. k \in Still \cup Holders(doc)
    BY <1>8 DEF Holders
  <2>2. To(drawn, To(references, k)) = To(name, k)
    BY <1>42, <2>1 DEF Twice, Chain
  <2> QED
    BY <1>7, <1>10, <1>42, <2>2 DEF PrioritiesRenamed
<1>44. Faithful(drawn, v1)
  BY <1>31, <1>42, FaithfulPart DEF Moves
<1>45. Unrepeated(h.priority) /\ Precedes(h.priority, To(drawn, a1), To(drawn, b1)) /\ Len(h.priority) \in Nat
  BY <1>40, <1>41, <1>43, <1>44, InOrderKeeps, InOrderIs
<1>46. To(drawn, a1) = To(name, a) /\ To(drawn, b1) = To(name, b)
  BY <1>14, <1>17, <1>34, <1>42 DEF Twice, Chain
<1>47. PICK v2 : v2 = All(name, v)
  OBVIOUS
<1>48. IsFiniteSet(v2) /\ v2 \subseteq Nat
  <2>1. v2 \subseteq KnownLists(then.lists, here)
    BY <1>20, <1>47 DEF Resolved
  <2>2. Within(here, Pool)
    BY <1>2, <1>3, Identities, NamedWithin DEF Arrived
  <2>3. IsFiniteSet(KnownLists(then.lists, here)) /\ KnownLists(then.lists, here) \subseteq Nat
    BY <1>4, <1>5, <2>2, KnownFinite
  <2> QED
    BY <2>1, <2>3, FS_Subset
<1>49. Entries(Ids(v2)) = v2 /\ Len(Ids(v2)) \in Nat /\ To(name, a) \in v2 /\ To(name, b) \in v2
  BY <1>14, <1>47, <1>48, IdsAre DEF All
<1>50. Precedes(MergePriority(h.priority, Ids(v2)), To(name, a), To(name, b))
  BY <1>45, <1>46, <1>48, <1>49, MergeKeeps
<1>51. Resolved(now, here, h, KnownLists(now.lists, here)) = v2
  BY <1>4, <1>20, <1>47, SameReading
<1> QED
  BY <1>1, <1>7, <1>50, <1>51 DEF Routes

LEMMA OrderArrives ==
  ASSUME NEW origin, SoundOrigin(origin), NEW f, Filed(origin, f), NEW c \in Catalogs, SamePortable(origin.catalog, c),
         NEW kept, Kept(c, origin, f, kept), NEW drawn \in FreshNames(kept), NEW here, here = RowsOf(Renamed(kept, drawn)),
         NEW name, name = Through(References(ReadRows(origin.rows)), drawn),
         NEW then, then = Portable(origin.catalog), NEW there, there = origin.rows,
         CarriesDefaultPriority(origin.form.version),
         NEW a \in Entries(origin.order), NEW b \in Entries(origin.order),
         a \in KnownLists(then.lists, there), b \in KnownLists(then.lists, there), Precedes(origin.order, a, b)
  PROVE  Precedes(DefaultPriority(Portable(c), here, here.order), To(name, a), To(name, b))
<1>1. PICK doc, references, d, now :
        doc = ReadRows(there) /\ references = References(doc) /\ d = Drafted(origin) /\ now = Portable(c)
  OBVIOUS
<1>2. Arrived(doc, references, kept, drawn, name, here) /\ here.order = InOrder(drawn, kept.order)
  BY <1>1, Arrives
<1>3. /\ Document(there, doc) /\ Within(doc, Pool) /\ Naming(references, doc, RefIds) /\ Moves(references, doc)
      /\ Renames(references, doc, d) /\ Within(d, RefIds)
      /\ d.order = MergePriority(InOrder(references, origin.order), Ids(KnownLists(origin.catalog.lists \ origin.catalog.local, d)))
  BY <1>1, DraftIs DEF SoundOrigin
<1>4. /\ IsShipment(then) /\ now.lists = then.lists /\ now.carries = then.carries /\ then.lists \subseteq origin.catalog.lists
      /\ then.lists = origin.catalog.lists \ origin.catalog.local /\ origin.catalog \in Catalogs
      /\ IsFiniteSet(DOMAIN then.carries)
  BY <1>1, PortableIs DEF SoundOrigin, FoundOrigin, SamePortable
<1>5. PICK v, v1, v2 : /\ v = KnownLists(then.lists, doc) /\ v1 = KnownLists(then.lists, d)
                       /\ v2 = KnownLists(then.lists, here)
  OBVIOUS
<1>6. v = KnownLists(then.lists, there)
  BY <1>3, <1>5 DEF KnownLists, Document
<1>7. v1 = All(references, v) /\ v2 = All(name, v)
  <2>1. IsShipment(then) /\ Moves(name, doc) /\ Renames(name, doc, here)
    BY <1>2, <1>4 DEF Arrived
  <2>2. Moves(references, doc) /\ Renames(references, doc, d)
    BY <1>3
  <2>3. KnownLists(then.lists, d) = All(references, KnownLists(then.lists, doc))
    BY <2>1, <2>2, KnownAll
  <2>4. KnownLists(then.lists, here) = All(name, KnownLists(then.lists, doc))
    BY <2>1, KnownAll
  <2> QED
    BY <1>5, <2>3, <2>4
<1>8. /\ IsFiniteSet(v) /\ v \subseteq Nat /\ v \subseteq Still \cup Holders(doc)
  BY <1>3, <1>4, <1>5, KnownFinite
<1>9. IsFiniteSet(v1) /\ v1 \subseteq Nat /\ v1 \subseteq Still \cup Holders(d)
  BY <1>3, <1>4, <1>5, KnownFinite
<1>10. Within(here, Pool)
  BY <1>2, <1>3, Identities, NamedWithin DEF Arrived
<1>11. IsFiniteSet(v2) /\ v2 \subseteq Nat /\ IsFiniteSet(here.categories)
  BY <1>4, <1>5, <1>10, KnownFinite
<1>12. Faithful(references, Everything) /\ Listed \subseteq Everything
  BY <1>3, ReferencesFaithful, TypedSpeaks DEF SoundOrigin, FoundOrigin
<1>13. origin.order \in Seq(Everything) /\ Unrepeated(origin.order)
  BY <1>12, WiderSequence DEF SoundOrigin, FoundOrigin
<1>14. PICK o, a1, b1 : o = InOrder(references, origin.order) /\ a1 = To(references, a) /\ b1 = To(references, b)
  OBVIOUS
<1>15. Len(o) \in Nat /\ Unrepeated(o) /\ Precedes(o, a1, b1)
  BY <1>12, <1>13, <1>14, InOrderIs, InOrderKeeps
<1>16. a1 \in v1 /\ b1 \in v1
  BY <1>6, <1>7, <1>14 DEF All
<1>17. Entries(Ids(v1)) = v1 /\ Len(Ids(v1)) \in Nat
  BY <1>9, IdsAre
<1>18. d.order = MergePriority(o, Ids(v1))
  BY <1>3, <1>4, <1>5, <1>14
<1>19. Precedes(d.order, a1, b1)
  BY <1>9, <1>15, <1>16, <1>17, <1>18, MergeKeeps
<1>20. d.order \in Seq(v1) /\ Len(d.order) \in Nat /\ Unrepeated(d.order)
  BY <1>9, <1>15, <1>18, MergeSequence
<1>21. kept.order = d.order /\ Alike(d, kept)
  BY <1>1, AlikeTwice DEF Filed, Kept
<1>22. Holders(kept) = Holders(d)
  BY <1>21, AlikeHolders
<1>23. Twice(references, drawn, name, Still \cup Holders(doc)) /\ Moves(drawn, kept)
  BY <1>2 DEF Arrived
<1>24. Faithful(drawn, v1)
  BY <1>9, <1>22, <1>23, FaithfulPart DEF Moves
<1>25. Len(here.order) \in Nat /\ Unrepeated(here.order) /\ Precedes(here.order, To(drawn, a1), To(drawn, b1))
  BY <1>2, <1>19, <1>20, <1>21, <1>24, InOrderIs, InOrderKeeps
<1>26. To(drawn, a1) = To(name, a) /\ To(drawn, b1) = To(name, b)
  BY <1>6, <1>8, <1>14, <1>23 DEF Twice, Chain
<1>27. PICK g : g = Grouped(now, here)
  OBVIOUS
<1>28. Entries(g) = v2 /\ Len(g) \in Nat
  BY <1>4, <1>5, <1>11, <1>27, GroupedIs
<1>29. To(name, a) \in v2 /\ To(name, b) \in v2
  BY <1>6, <1>7 DEF All
<1>30. Precedes(MergePriority(here.order, g), To(name, a), To(name, b))
  BY <1>11, <1>25, <1>26, <1>28, <1>29, MergeKeeps
<1> QED
  BY <1>1, <1>27, <1>30 DEF DefaultPriority

-----------------------------------------------------------------------------
(* What arrives is what was exported.                                      *)

\* What ImportIsTheExport says of one import.
IsTheExport(origin, c, here) ==
  LET there == origin.rows
      now == Portable(c)
      then == Portable(origin.catalog)
  IN  /\ here.feeds = Nothing /\ here.trusted = {} /\ ~here.history
      /\ SamePortable(origin.catalog, c) => \E name \in Correspondences(there, here) :
           /\ Renaming(Meaning(then, there), name) = Meaning(now, here)
           /\ \A k \in DOMAIN there.profiles : \A a, b \in Resolved(then, there, there.profiles[k], KnownLists(then.lists, there)) :
                /\ Precedes(Routes(then, there, there.profiles[k]), a, b)
                /\ a \in Entries(there.profiles[k].priority) \/ InReferenceOrder(there)
                => Precedes(Routes(now, here, here.profiles[To(name, k)]), To(name, a), To(name, b))
           /\ CarriesDefaultPriority(origin.form.version) =>
                \A a, b \in Entries(origin.order) \cap KnownLists(then.lists, there) :
                  Precedes(origin.order, a, b) =>
                    Precedes(DefaultPriority(now, here, here.order), To(name, a), To(name, b))

\* How rows come of an export: the file, what of it was kept, and the identities drawn.
Came(origin, c, here) ==
  /\ SoundOrigin(origin)
  /\ \E f, kept : /\ Filed(origin, f) /\ Kept(c, origin, f, kept)
                  /\ \E drawn \in FreshNames(kept) : here = RowsOf(Renamed(kept, drawn))

LEMMA CameIsTheExport ==
  ASSUME NEW origin, NEW c \in Catalogs, NEW here, Came(origin, c, here)
  PROVE  IsTheExport(origin, c, here)
<1>1. PICK f, kept : /\ Filed(origin, f) /\ Kept(c, origin, f, kept)
                     /\ \E drawn \in FreshNames(kept) : here = RowsOf(Renamed(kept, drawn))
  BY DEF Came
<1>2. PICK drawn \in FreshNames(kept) : here = RowsOf(Renamed(kept, drawn))
  BY <1>1
<1>3. SoundOrigin(origin)
  BY DEF Came
<1>4. PICK there, now, then, name :
        /\ there = origin.rows /\ now = Portable(c) /\ then = Portable(origin.catalog)
        /\ name = Through(References(ReadRows(origin.rows)), drawn)
  OBVIOUS
<1>5. here.feeds = Nothing /\ here.trusted = {} /\ ~here.history
  <2>1. PICK r : r = Renamed(kept, drawn)
    OBVIOUS
  <2> QED
    BY <1>2, <2>1, RowsOfIs
<1>6. ASSUME SamePortable(origin.catalog, c)
      PROVE  /\ name \in Correspondences(there, here)
             /\ Renaming(Meaning(then, there), name) = Meaning(now, here)
  BY <1>1, <1>2, <1>3, <1>4, <1>6, ArrivesAsItWas
<1>7. ASSUME SamePortable(origin.catalog, c), NEW k \in DOMAIN there.profiles,
             NEW a \in Resolved(then, there, there.profiles[k], KnownLists(then.lists, there)),
             NEW b \in Resolved(then, there, there.profiles[k], KnownLists(then.lists, there)),
             Precedes(Routes(then, there, there.profiles[k]), a, b),
             a \in Entries(there.profiles[k].priority) \/ InReferenceOrder(there)
      PROVE  Precedes(Routes(now, here, here.profiles[To(name, k)]), To(name, a), To(name, b))
  BY <1>1, <1>2, <1>3, <1>4, <1>7, RoutesArrive
<1>8. ASSUME SamePortable(origin.catalog, c), CarriesDefaultPriority(origin.form.version),
             NEW a \in Entries(origin.order) \cap KnownLists(then.lists, there),
             NEW b \in Entries(origin.order) \cap KnownLists(then.lists, there), Precedes(origin.order, a, b)
      PROVE  Precedes(DefaultPriority(now, here, here.order), To(name, a), To(name, b))
  <2>1. /\ a \in Entries(origin.order) /\ b \in Entries(origin.order)
        /\ a \in KnownLists(then.lists, there) /\ b \in KnownLists(then.lists, there)
    BY <1>8
  <2> QED
    BY <1>1, <1>2, <1>3, <1>4, <1>8, <2>1, OrderArrives
<1>9. ASSUME SamePortable(origin.catalog, c)
      PROVE  \E n \in Correspondences(there, here) :
               /\ Renaming(Meaning(then, there), n) = Meaning(now, here)
               /\ \A k \in DOMAIN there.profiles : \A a, b \in Resolved(then, there, there.profiles[k], KnownLists(then.lists, there)) :
                    /\ Precedes(Routes(then, there, there.profiles[k]), a, b)
                    /\ a \in Entries(there.profiles[k].priority) \/ InReferenceOrder(there)
                    => Precedes(Routes(now, here, here.profiles[To(n, k)]), To(n, a), To(n, b))
               /\ CarriesDefaultPriority(origin.form.version) =>
                    \A a, b \in Entries(origin.order) \cap KnownLists(then.lists, there) :
                      Precedes(origin.order, a, b) =>
                        Precedes(DefaultPriority(now, here, here.order), To(n, a), To(n, b))
  <2>1. name \in Correspondences(there, here)
    BY <1>6, <1>9
  <2> WITNESS name \in Correspondences(there, here)
  <2> QED
    BY <1>6, <1>7, <1>8, <1>9
<1> QED
  BY <1>4, <1>5, <1>9, Zenon DEF IsTheExport

-----------------------------------------------------------------------------
(* Rows stay rows.                                                         *)

LEMMA EmptyTyped == Typed(EmptyStore)
<1>1. /\ DOMAIN EmptyStore.lists = {} /\ EmptyStore.categories = {} /\ EmptyStore.memberships = {}
      /\ EmptyStore.off = {} /\ EmptyStore.words = {} /\ DOMAIN EmptyStore.profiles = {}
      /\ DOMAIN EmptyStore.devices = {} /\ DOMAIN EmptyStore.outputs = {} /\ EmptyStore.order = <<>>
  BY DEF EmptyStore, Nothing
<1> QED
  BY <1>1 DEF Typed

LEMMA NamedListed ==
  ASSUME NEW from, Apart(from), NEW name, NEW d, Within(d, from), Naming(name, d, Pool), Moves(name, d)
  PROVE  /\ \A l \in ShippedLists \cup DOMAIN d.lists : To(name, l) \in Listed
         /\ \A k \in ShippedCategories \cup d.categories : To(name, k) \in Categorized
         /\ \A k \in DOMAIN d.profiles : To(name, k) \in Pool["profiles"]
         /\ \A k \in DOMAIN d.devices \cup {NoDevice} : To(name, k) \in Pool["devices"] \cup {NoDevice}
<1>1. \A x \in Still : To(name, x) = x
  BY DEF Moves
<1>2. \A x \in Holders(d) : To(name, x) = name[x]
  BY Identities, NamingMoves
<1>3. ShippedLists \cup ShippedCategories \cup {NoDevice} \subseteq Still
  BY DEF Still
<1>4. /\ \A l \in DOMAIN d.lists : To(name, l) \in Pool["lists"]
      /\ \A k \in d.categories : To(name, k) \in Pool["categories"]
      /\ \A k \in DOMAIN d.profiles : To(name, k) \in Pool["profiles"]
      /\ \A k \in DOMAIN d.devices : To(name, k) \in Pool["devices"]
  BY <1>2 DEF Naming, Holders
<1> QED
  BY <1>1, <1>3, <1>4 DEF Listed, Categorized

\* Memberships of lists and categories there may be, and what is said of such lists.
MembershipRows == [category : Categorized, list : Listed, state : {"added", "removed"}]
AboutLists(rows, part, lists) == \A x \in rows : {"list", part} \subseteq DOMAIN x /\ x.list \in lists
Sends(name, from, to) == \A x \in from : To(name, x) \in to

LEMMA NamedMemberships ==
  ASSUME NEW name, NEW rows, NEW A, NEW B, rows \subseteq MembershipRows,
         \A m \in rows : m.category \in A /\ m.list \in B, Sends(name, A, Categorized), Sends(name, B, Listed)
  PROVE  Belongings(name, rows) \subseteq MembershipRows
<1>1. ASSUME NEW m \in rows PROVE Belonging(name, m) \in MembershipRows
  <2>1. m \in [category : Categorized, list : Listed, state : {"added", "removed"}]
    BY DEF MembershipRows
  <2>2. PICK n, k, l : n = Belonging(name, m) /\ k = To(name, m.category) /\ l = To(name, m.list)
    OBVIOUS
  <2>3. n = [m EXCEPT !.category = k, !.list = l]
    BY <2>2 DEF Belonging
  <2>4. n = [category |-> k, list |-> l, state |-> m.state]
    BY <2>1, <2>3
  <2>5. k \in Categorized /\ l \in Listed /\ m.state \in {"added", "removed"}
    BY <2>1, <2>2 DEF Sends
  <2> QED
    BY <2>2, <2>4, <2>5 DEF MembershipRows
<1> QED
  BY <1>1 DEF Belongings

LEMMA NamedAbouts ==
  ASSUME NEW name, NEW rows, NEW lists, NEW part, AboutLists(rows, part, lists), Sends(name, lists, Listed)
  PROVE  AboutLists(Abouts(name, rows), part, Listed)
<1>1. ASSUME NEW x \in rows PROVE {"list", part} \subseteq DOMAIN About(name, x) /\ About(name, x).list \in Listed
  <2>1. "list" \in DOMAIN x /\ part \in DOMAIN x /\ x.list \in lists
    BY DEF AboutLists
  <2>2. DOMAIN About(name, x) = DOMAIN x /\ About(name, x).list = To(name, x.list)
    BY <2>1, AboutIs
  <2> QED
    BY <2>1, <2>2 DEF Sends
<1> QED
  BY <1>1 DEF Abouts, AboutLists

LEMMA NamedOutputs ==
  ASSUME NEW name, NEW a, Faithful(name, DOMAIN a.outputs), NEW b, OutputsRenamed(name, a, b),
         \A k \in DOMAIN a.outputs : /\ {"profile", "device"} \subseteq DOMAIN a.outputs[k]
                                     /\ To(name, a.outputs[k].profile) \in Pool["profiles"]
                                     /\ To(name, a.outputs[k].device) \in Pool["devices"] \cup {NoDevice}
  PROVE  \A k \in DOMAIN b.outputs : TypedOutput(b.outputs[k])
<1>1. PICK t : t = [k \in DOMAIN a.outputs |-> Rebound(name, a.outputs[k])]
  OBVIOUS
<1>2. b.outputs = Keyed(name, t) /\ DOMAIN t = DOMAIN a.outputs
  BY <1>1 DEF OutputsRenamed
<1>3. DOMAIN b.outputs = All(name, DOMAIN a.outputs) /\ \A k \in DOMAIN a.outputs : b.outputs[To(name, k)] = t[k]
  BY <1>2, KeyedIs
<1>4. ASSUME NEW k \in DOMAIN a.outputs PROVE TypedOutput(t[k])
  <2>1. PICK o, n : o = a.outputs[k] /\ n = Rebound(name, o)
    OBVIOUS
  <2>2. DOMAIN n = DOMAIN o /\ n.profile = To(name, o.profile) /\ n.device = To(name, o.device)
    BY <2>1 DEF Rebound
  <2>3. t[k] = n
    BY <1>1, <2>1
  <2> QED
    BY <2>1, <2>2, <2>3 DEF TypedOutput
<1> QED
  BY <1>3, <1>4 DEF All

\* The orders that a kept document carries are of what it speaks of.
LEMMA KeptOrders ==
  ASSUME NEW origin, SoundOrigin(origin), NEW f, Filed(origin, f), NEW c \in Catalogs,
         NEW kept, Kept(c, origin, f, kept), NEW lists, lists = ShippedLists \cup DOMAIN kept.lists
  PROVE  kept.order \in Seq(lists) /\ \A k \in DOMAIN kept.profiles : kept.profiles[k].priority \in Seq(lists)
<1>1. PICK doc, references, d : doc = ReadRows(origin.rows) /\ references = References(doc) /\ d = Drafted(origin)
  OBVIOUS
<1>2. /\ Document(origin.rows, doc) /\ Within(d, RefIds) /\ Renames(references, doc, d)
      /\ PrioritiesRenamed(references, doc, d)
      /\ d.order = MergePriority(InOrder(references, origin.order),
                                 Ids(KnownLists(origin.catalog.lists \ origin.catalog.local, d)))
  BY <1>1, DraftIs DEF SoundOrigin
<1>3. /\ Alike(d, f) /\ Prioritizes(origin.catalog, d, f) /\ Alike(f, kept) /\ Prioritizes(c, f, kept)
      /\ kept.order = <<>> \/ kept.order = d.order
  BY <1>1 DEF Filed, Kept
<1>4. /\ Within(f, RefIds) /\ DOMAIN kept.lists = DOMAIN d.lists /\ DOMAIN kept.lists = DOMAIN f.lists
      /\ DOMAIN kept.profiles = DOMAIN d.profiles /\ DOMAIN kept.profiles = DOMAIN f.profiles
  BY <1>2, <1>3, AlikeHolders DEF Alike
<1>5. origin.catalog \in Catalogs /\ origin.order \in Seq(Listed)
  BY DEF SoundOrigin, FoundOrigin
<1>6. ASSUME NEW e \in Catalogs, NEW b, Within(b, RefIds), DOMAIN b.lists = DOMAIN kept.lists,
             NEW known, known = KnownLists(e.lists \ e.local, b)
      PROVE  IsFiniteSet(known) /\ known \subseteq Nat /\ known \subseteq lists
  <2>1. PICK p : p = Portable(e)
    OBVIOUS
  <2>2. p.lists = e.lists \ e.local /\ p.lists \subseteq e.lists /\ e.lists \subseteq ShippedLists
    BY <2>1, PortableIs DEF ShippedLists
  <2>3. IsFiniteSet(KnownLists(p.lists, b)) /\ KnownLists(p.lists, b) \subseteq Nat
    BY <1>6, <2>2, KnownFinite
  <2>4. known \subseteq lists
    BY <1>6, <2>2 DEF KnownLists
  <2> QED
    BY <1>6, <2>2, <2>3, <2>4
<1>7. kept.order \in Seq(lists)
  <2>1. PICK known : known = KnownLists(origin.catalog.lists \ origin.catalog.local, d)
    OBVIOUS
  <2>2. IsFiniteSet(known) /\ known \subseteq Nat /\ known \subseteq lists
    BY <1>2, <1>4, <1>5, <1>6, <2>1
  <2>3. PICK stored, m : stored = InOrder(references, origin.order) /\ m = MergePriority(stored, Ids(known))
    OBVIOUS
  <2>4. Len(stored) \in Nat
    BY <1>5, <2>3, InOrderIs
  <2>5. m \in Seq(known)
    BY <2>2, <2>3, <2>4, MergeSequence
  <2>6. m \in Seq(lists)
    BY <2>2, <2>5, WiderSequence
  <2>7. d.order = m
    BY <1>2, <2>1, <2>3
  <2>8. <<>> \in Seq(lists)
    OBVIOUS
  <2> QED
    BY <1>3, <2>6, <2>7, <2>8
<1>8. ASSUME NEW k \in DOMAIN kept.profiles PROVE kept.profiles[k].priority \in Seq(lists)
  <2>1. PICK q, g, w, a, b : /\ q = d.profiles[k] /\ g = f.profiles[k] /\ w = kept.profiles[k]
                             /\ a = Ends(origin.catalog, d, q) /\ b = Ends(c, f, g)
    OBVIOUS
  <2>2. g.priority = MergePriority(q.priority, Ids(a)) /\ w.priority = MergePriority(g.priority, Ids(b))
    BY <1>3, <1>4, <1>8, <2>1 DEF Prioritizes
  <2>3. IsFiniteSet(a) /\ a \subseteq Nat
    <3>1. PICK known : known = KnownLists(origin.catalog.lists \ origin.catalog.local, d)
      OBVIOUS
    <3>2. IsFiniteSet(known) /\ known \subseteq Nat
      BY <1>2, <1>4, <1>5, <1>6, <3>1
    <3>3. a \subseteq known
      BY <2>1, <3>1 DEF Ends, Resolved
    <3> QED
      BY <3>2, <3>3, FS_Subset
  <2>4. IsFiniteSet(b) /\ b \subseteq Nat /\ b \subseteq lists
    <3>1. PICK known : known = KnownLists(c.lists \ c.local, f)
      OBVIOUS
    <3>2. IsFiniteSet(known) /\ known \subseteq Nat /\ known \subseteq lists
      BY <1>4, <1>6, <3>1
    <3>3. b \subseteq known
      BY <2>1, <3>1 DEF Ends, Resolved
    <3> QED
      BY <3>2, <3>3, FS_Subset
  <2>5. Len(q.priority) \in Nat
    <3>1. PICK j \in DOMAIN doc.profiles : k = To(references, j)
      BY <1>2, <1>4, <1>8 DEF Renames, ProfilesRenamed, All
    <3>2. q.priority = InOrder(references, doc.profiles[j].priority)
      BY <1>2, <2>1, <3>1 DEF PrioritiesRenamed
    <3>3. doc.profiles[j].priority \in Seq(Listed)
      BY <1>1, <3>1, DraftSound
    <3> QED
      BY <3>2, <3>3, InOrderIs
  <2>6. Len(g.priority) \in Nat
    BY <2>2, <2>3, <2>5, MergeSequence
  <2>7. w.priority \in Seq(b)
    BY <2>2, <2>4, <2>6, MergeSequence
  <2> QED
    BY <2>1, <2>4, <2>7, WiderSequence
<1> QED
  BY <1>7, <1>8

\* What an import stores are rows.
LEMMA CameTyped ==
  ASSUME NEW origin, NEW c \in Catalogs, NEW here, Came(origin, c, here)
  PROVE  Typed(here)
<1>1. PICK f, kept : /\ Filed(origin, f) /\ Kept(c, origin, f, kept)
                     /\ \E drawn \in FreshNames(kept) : here = RowsOf(Renamed(kept, drawn))
  BY DEF Came
<1>2. PICK drawn \in FreshNames(kept) : here = RowsOf(Renamed(kept, drawn))
  BY <1>1
<1>3. SoundOrigin(origin)
  BY DEF Came
<1>4. PICK doc, references, name, then, d, r :
        /\ doc = ReadRows(origin.rows) /\ references = References(doc) /\ name = Through(references, drawn)
        /\ then = Portable(origin.catalog) /\ d = Drafted(origin) /\ r = Renamed(kept, drawn)
  OBVIOUS
<1>5. Arrived(doc, references, kept, drawn, name, here) /\ here.order = InOrder(drawn, kept.order)
  BY <1>1, <1>2, <1>3, <1>4, Arrives
<1>6. /\ Document(origin.rows, doc) /\ Within(doc, Pool) /\ Naming(references, doc, RefIds) /\ Within(d, RefIds)
      /\ Renames(references, doc, d)
      /\ d.order = MergePriority(InOrder(references, origin.order),
                                 Ids(KnownLists(origin.catalog.lists \ origin.catalog.local, d)))
  BY <1>3, <1>4, DraftIs DEF SoundOrigin
<1>7. /\ IsShipment(then) /\ then.lists \subseteq ShippedLists /\ DOMAIN then.carries \subseteq ShippedCategories
      /\ origin.catalog \in Catalogs
  <2>1. origin.catalog \in Catalogs
    BY <1>3 DEF SoundOrigin, FoundOrigin
  <2>2. then.lists \subseteq origin.catalog.lists /\ DOMAIN then.carries \subseteq DOMAIN origin.catalog.carries
    BY <1>4, <2>1, PortableIs DEF PortableCategories
  <2>3. IsShipment(then)
    BY <1>4, <2>1, PortableIs
  <2> QED
    BY <2>1, <2>2, <2>3 DEF ShippedLists, ShippedCategories
<1>8. Sound(then, doc)
  BY <1>3, <1>4, DraftSound
<1>9. /\ Naming(name, doc, Pool) /\ Moves(name, doc) /\ Renames(name, doc, here) /\ KindsRenamed(name, doc, here)
      /\ Naming(drawn, kept, Pool) /\ Moves(drawn, kept) /\ Within(kept, RefIds)
  BY <1>5 DEF Arrived
<1>10. /\ \A l \in ShippedLists \cup DOMAIN doc.lists : To(name, l) \in Listed
       /\ \A k \in ShippedCategories \cup doc.categories : To(name, k) \in Categorized
       /\ \A k \in DOMAIN doc.profiles : To(name, k) \in Pool["profiles"]
       /\ \A k \in DOMAIN doc.devices \cup {NoDevice} : To(name, k) \in Pool["devices"] \cup {NoDevice}
  BY <1>6, <1>9, Identities, NamedListed
<1>11. PICK lists, categories : lists = then.lists \cup DOMAIN doc.lists /\ categories = DOMAIN then.carries \cup doc.categories
  OBVIOUS
<1>12. Sends(name, lists, Listed) /\ Sends(name, categories, Categorized)
  BY <1>7, <1>10, <1>11 DEF Sends
<1>13. here.memberships \subseteq MembershipRows
  <2>1. here.memberships = Belongings(name, doc.memberships)
    BY <1>9 DEF Renames
  <2>2. doc.memberships \subseteq MembershipRows
    BY <1>3, <1>6 DEF SoundOrigin, FoundOrigin, Typed, Document, Listed, Categorized, MembershipRows
  <2>3. \A m \in doc.memberships : m.category \in categories /\ m.list \in lists
    BY <1>8, <1>11 DEF Sound
  <2> QED
    BY <1>12, <2>1, <2>2, <2>3, NamedMemberships
<1>14. AboutLists(here.off, "source", Listed)
  <2>1. here.off = Abouts(name, doc.off)
    BY <1>9 DEF Renames
  <2>2. AboutLists(doc.off, "source", lists)
    <3>1. doc.off \subseteq origin.rows.off
      BY <1>6 DEF Document, MeansOff
    <3>2. \A x \in origin.rows.off : {"list", "source"} \subseteq DOMAIN x
      BY <1>3 DEF SoundOrigin, FoundOrigin, Typed
    <3>3. \A x \in doc.off : x.list \in lists
      BY <1>8, <1>11 DEF Sound
    <3> QED
      BY <3>1, <3>2, <3>3 DEF AboutLists
  <2> QED
    BY <1>12, <2>1, <2>2, NamedAbouts
<1>15. AboutLists(here.words, "list", Listed)
  <2>1. here.words = Abouts(name, doc.words)
    BY <1>9 DEF Renames
  <2>2. AboutLists(doc.words, "list", lists)
    BY <1>8, <1>11 DEF Sound, AboutLists
  <2> QED
    BY <1>12, <2>1, <2>2, NamedAbouts
<1>16. Within(here, Pool)
  BY <1>6, <1>9, Identities, NamedWithin
<1>17. \A k \in DOMAIN here.outputs : TypedOutput(here.outputs[k])
  <2>1. Faithful(name, DOMAIN doc.outputs)
    BY <1>9, FaithfulPart DEF Moves, Holders
  <2>2. OutputsRenamed(name, doc, here)
    BY <1>9 DEF Renames
  <2>3. \A k \in DOMAIN doc.outputs : /\ {"profile", "device"} \subseteq DOMAIN doc.outputs[k]
                                      /\ doc.outputs[k].profile \in DOMAIN doc.profiles
                                      /\ doc.outputs[k].device \in DOMAIN doc.devices \cup {NoDevice}
    BY <1>8 DEF Sound
  <2> QED
    BY <1>10, <2>1, <2>2, <2>3, NamedOutputs
<1>18. Formed(r) /\ Alike(r, here) /\ here.order = r.order /\ here.profiles = r.profiles /\ DOMAIN here = DOMAIN EmptyStore
  <2>1. Formed(kept)
    BY <1>1 DEF Kept
  <2>2. Formed(r)
    BY <1>4, <1>9, <2>1, RenamedIs
  <2> QED
    BY <1>2, <1>4, <2>2, RowsOfIs
<1>19. PICK spoken : spoken = ShippedLists \cup DOMAIN kept.lists
  OBVIOUS
<1>20. kept.order \in Seq(spoken) /\ \A k \in DOMAIN kept.profiles : kept.profiles[k].priority \in Seq(spoken)
  BY <1>1, <1>3, <1>19, KeptOrders
<1>21. ASSUME NEW seq \in Seq(spoken) PROVE InOrder(drawn, seq) \in Seq(Listed)
  <2>1. \A l \in spoken : To(drawn, l) \in Listed
    BY <1>9, <1>19, Identities, NamedListed
  <2>2. All(drawn, spoken) \subseteq Listed
    BY <2>1 DEF All
  <2>3. InOrder(drawn, seq) \in Seq(All(drawn, spoken))
    BY <1>21, InOrderIs
  <2> QED
    BY <2>2, <2>3, WiderSequence
<1>22. here.order \in Seq(Listed)
  BY <1>5, <1>20, <1>21
<1>23. ASSUME NEW h \in DOMAIN here.profiles PROVE TypedProfile(here.profiles[h])
  <2>1. PICK k \in DOMAIN doc.profiles : h = To(name, k)
    BY <1>9, <1>23 DEF KindsRenamed, All
  <2>2. PICK p, q : p = doc.profiles[k] /\ q = here.profiles[h]
    OBVIOUS
  <2>3. ProfileRenamed(name, p, q)
    BY <1>9, <2>1, <2>2 DEF Renames, ProfilesRenamed
  <2>4. SoundProfile(p, lists, categories)
    BY <1>8, <1>11, <2>1, <2>2 DEF Sound
  <2>5. DOMAIN q = ProfileParts
    BY <1>18, <1>23, <2>2 DEF Formed
  <2>6. q.lists \cup q.exclusions \cup DOMAIN q.domains \subseteq Listed /\ q.categories \subseteq Categorized
    <3>1. lists \subseteq Still \cup Holders(doc)
      BY <1>7, <1>11 DEF IsShipment, Holders
    <3>2. Faithful(name, DOMAIN p.domains)
      BY <1>9, <2>4, <3>1, FaithfulPart DEF Moves, SoundProfile
    <3>3. DOMAIN q.domains = All(name, DOMAIN p.domains)
      BY <2>3, <3>2, KeyedIs DEF ProfileRenamed
    <3> QED
      BY <1>12, <2>3, <2>4, <3>3 DEF ProfileRenamed, SoundProfile, All, Sends
  <2>7. q.priority \in Seq(Listed)
    <3>1. PICK j : j = To(references, k)
      OBVIOUS
    <3>2. k \in Still \cup Holders(doc)
      BY DEF Holders
    <3>3. To(drawn, j) = h
      BY <1>5, <2>1, <3>1, <3>2 DEF Arrived, Twice, Chain
    <3>4. j \in DOMAIN kept.profiles
      BY <1>5, <3>1 DEF Arrived, KindsRenamed, All
    <3>5. q.priority = InOrder(drawn, kept.profiles[j].priority)
      BY <1>5, <2>2, <3>3, <3>4 DEF Arrived, PrioritiesRenamed
    <3> QED
      BY <1>20, <1>21, <3>4, <3>5
  <2> QED
    BY <2>2, <2>5, <2>6, <2>7 DEF TypedProfile, ProfileParts, Listed, Categorized
<1> QED
  BY <1>13, <1>14, <1>15, <1>16, <1>17, <1>18, <1>22, <1>23
    DEF Typed, Within, Listed, Categorized, MembershipRows, AboutLists

LEMMA DefaultIs ==
  ASSUME NEW c \in Catalogs, NEW rows, Typed(rows), NEW view, view = View(rows), NEW stored \in Seq(Listed),
         NEW order, order = DefaultPriority(c, view, stored)
  PROVE  order \in Seq(Listed) /\ Unrepeated(order)
<1>1. Within(rows, Pool)
  BY DEF Typed, Within
<1>2. view.lists = rows.lists /\ view.categories = rows.categories /\ view.removals = rows.removals
  BY DEF View
<1>3. KnownLists(c.lists, view) = KnownLists(c.lists, rows)
  BY <1>2 DEF KnownLists
<1>4. /\ IsFiniteSet(KnownLists(c.lists, rows)) /\ KnownLists(c.lists, rows) \subseteq Nat /\ IsFiniteSet(rows.categories)
  BY <1>1, KnownFinite
<1>5. IsFiniteSet(DOMAIN c.carries)
  BY CatalogsAreFinite
<1>6. PICK g : g = Grouped(c, view)
  OBVIOUS
<1>7. Entries(g) = KnownLists(c.lists, rows) /\ Len(g) \in Nat
  BY <1>2, <1>3, <1>4, <1>5, <1>6, GroupedIs
<1>8. order = MergePriority(stored, g) /\ Len(stored) \in Nat
  BY <1>6 DEF DefaultPriority
<1>9. order \in Seq(Entries(g)) /\ \A i, j \in 1 .. Len(order) : order[i] = order[j] => i = j
  BY <1>4, <1>7, <1>8, MergeIs
<1>10. Entries(g) \subseteq Listed
  <2>1. c.lists \subseteq ShippedLists
    BY DEF ShippedLists
  <2> QED
    BY <1>7, <2>1 DEF Typed, KnownLists, Listed
<1> QED
  BY <1>9, <1>10, WiderSequence DEF Unrepeated

\* What an operator makes of rows are rows.
LEMMA StillTyped ==
  ASSUME NEW rows, Typed(rows), NEW new, DOMAIN new = DOMAIN rows, new.order \in Seq(Listed),
         DOMAIN new.lists \subseteq Pool.lists, new.categories = rows.categories,
         new.memberships \subseteq rows.memberships, new.off \subseteq rows.off, new.words \subseteq rows.words,
         new.profiles = rows.profiles, DOMAIN new.devices \subseteq Pool.devices, new.outputs = rows.outputs
  PROVE  Typed(new)
BY DEF Typed, Listed

Tables == {"interval", "order", "lists", "categories", "memberships", "removals", "off", "words", "feeds",
           "profiles", "devices", "outputs", "trusted", "history"}

LEMMA TypedTables ==
  ASSUME NEW rows, Typed(rows)
  PROVE  /\ DOMAIN rows = Tables /\ rows.order \in Seq(Listed)
         /\ DOMAIN rows.lists \subseteq Pool.lists /\ DOMAIN rows.devices \subseteq Pool.devices
<1>1. DOMAIN EmptyStore = Tables
  BY DEF EmptyStore, Tables
<1> QED
  BY <1>1 DEF Typed, Listed

LEMMA CreationTyped ==
  ASSUME NEW rows, Typed(rows), NEW lists, DOMAIN lists \subseteq Pool.lists
  PROVE  Typed([rows EXCEPT !.lists = lists])
<1>1. PICK new : new = [rows EXCEPT !.lists = lists]
  OBVIOUS
<1>2. DOMAIN new = DOMAIN rows /\ new.lists = lists /\ \A t \in Tables : t # "lists" => new[t] = rows[t]
  BY <1>1, TypedTables DEF Tables
<1>3. /\ new.order = rows.order /\ new.categories = rows.categories /\ new.memberships = rows.memberships
      /\ new.off = rows.off /\ new.words = rows.words /\ new.profiles = rows.profiles
      /\ new.devices = rows.devices /\ new.outputs = rows.outputs
  BY <1>2 DEF Tables
<1>4. Typed(new)
  BY <1>2, <1>3, StillTyped, TypedTables
<1> QED
  BY <1>1, <1>4

LEMMA RemovalTyped ==
  ASSUME NEW rows, Typed(rows), NEW lists, DOMAIN lists \subseteq DOMAIN rows.lists, NEW removals,
         NEW memberships, memberships \subseteq rows.memberships, NEW off, off \subseteq rows.off,
         NEW words, words \subseteq rows.words, NEW feeds
  PROVE  Typed([rows EXCEPT !.lists = lists, !.removals = removals, !.memberships = memberships, !.off = off,
                            !.words = words, !.feeds = feeds])
<1>1. PICK new : new = [rows EXCEPT !.lists = lists, !.removals = removals, !.memberships = memberships, !.off = off,
                                    !.words = words, !.feeds = feeds]
  OBVIOUS
<1>2. /\ DOMAIN new = DOMAIN rows /\ new.lists = lists /\ new.memberships = memberships /\ new.off = off /\ new.words = words
      /\ new.order = rows.order /\ new.categories = rows.categories /\ new.profiles = rows.profiles
      /\ new.devices = rows.devices /\ new.outputs = rows.outputs
  BY <1>1, TypedTables DEF Tables
<1>3. Typed(new)
  BY <1>2, StillTyped, TypedTables
<1> QED
  BY <1>1, <1>3

\* What leaves the library leaves the view of it.
LEMMA OrderTyped ==
  ASSUME NEW rows, Typed(rows), NEW order \in Seq(Listed)
  PROVE  Typed([rows EXCEPT !.order = order]) /\ View([rows EXCEPT !.order = order]) = View(rows)
<1>1. PICK new : new = [rows EXCEPT !.order = order]
  OBVIOUS
<1>2. /\ DOMAIN new = DOMAIN rows /\ new.lists = rows.lists /\ new.memberships = rows.memberships /\ new.off = rows.off
      /\ new.words = rows.words /\ new.order = order /\ new.categories = rows.categories /\ new.profiles = rows.profiles
      /\ new.devices = rows.devices /\ new.outputs = rows.outputs /\ new.removals = rows.removals /\ new.feeds = rows.feeds
  BY <1>1, TypedTables DEF Tables
<1>3. Typed(new)
  BY <1>2, StillTyped, TypedTables
<1> QED
  BY <1>1, <1>2, <1>3 DEF View

LEMMA DeviceTyped ==
  ASSUME NEW rows, Typed(rows), NEW devices, DOMAIN devices \subseteq Pool.devices, NEW trusted
  PROVE  /\ Typed([rows EXCEPT !.devices = devices, !.trusted = trusted])
         /\ View([rows EXCEPT !.devices = devices, !.trusted = trusted]) = View(rows)
<1>1. PICK new : new = [rows EXCEPT !.devices = devices, !.trusted = trusted]
  OBVIOUS
<1>2. /\ DOMAIN new = DOMAIN rows /\ new.lists = rows.lists /\ new.memberships = rows.memberships /\ new.off = rows.off
      /\ new.words = rows.words /\ new.order = rows.order /\ new.categories = rows.categories /\ new.profiles = rows.profiles
      /\ new.devices = devices /\ new.outputs = rows.outputs /\ new.removals = rows.removals /\ new.feeds = rows.feeds
  BY <1>1, TypedTables DEF Tables
<1>3. Typed(new)
  BY <1>2, StillTyped, TypedTables
<1> QED
  BY <1>1, <1>2, <1>3 DEF View

-----------------------------------------------------------------------------
(* Files, and imports of them.                                             *)

\* A file that an export wrote, whatever release tells it.
WellFiled(f) ==
  /\ f = [form |-> f.form, document |-> f.document, origin |-> f.origin]
  /\ f.origin = [rows |-> f.origin.rows, order |-> f.origin.order, catalog |-> f.origin.catalog, form |-> f.form]
  /\ SoundOrigin(f.origin) /\ Filed(f.origin, f.document)

\* An import, from its preparation on, of such a file.
Prepared(c, j) ==
  /\ SoundOrigin(j.origin) /\ j.name \in FreshNames(j.document)
  /\ \E d : Filed(j.origin, d) /\ Kept(c, j.origin, d, j.document)

JobShape(j) == j = [at |-> j.at, document |-> j.document, name |-> j.name, origin |-> j.origin]

LEMMA ExportFiles ==
  ASSUME NEW c \in Catalogs, NEW rows, Typed(rows), NEW order \in Seq(Listed), Unrepeated(order),
         NEW origin, origin = [rows |-> rows, order |-> order, catalog |-> c, form |-> ThisRelease],
         NEW d, d = Drafted(origin), ValidDraft(c, d),
         NEW f, f = [form |-> ThisRelease, document |-> Normalized(c, d), origin |-> origin]
  PROVE  WellFiled(f)
<1>1. /\ origin.rows = rows /\ origin.order = order /\ origin.catalog = c /\ origin.form = ThisRelease
      /\ f.form = ThisRelease /\ f.origin = origin
  OBVIOUS
<1>2. FoundOrigin(origin)
  BY <1>1 DEF FoundOrigin
<1>3. SoundOrigin(origin)
  BY <1>1, <1>2 DEF SoundOrigin
<1>4. Formed(d)
  BY <1>2, DraftIs
<1>5. PICK r : r = Normalized(c, d)
  OBVIOUS
<1>6. /\ Formed(r) /\ Alike(d, r) /\ r.order = d.order
      /\ \A k \in DOMAIN d.profiles :
           r.profiles[k].priority = MergePriority(d.profiles[k].priority, Ids(Ends(c, d, d.profiles[k])))
  BY <1>4, <1>5, NormalizedIs
<1>7. Filed(origin, r)
  BY <1>1, <1>6 DEF Filed, Prioritizes
<1>8. f = [form |-> f.form, document |-> f.document, origin |-> f.origin] /\ f.document = r
  BY <1>5
<1>9. f.origin = [rows |-> f.origin.rows, order |-> f.origin.order, catalog |-> f.origin.catalog, form |-> f.form]
  BY <1>1
<1> QED
  BY <1>1, <1>3, <1>7, <1>8, <1>9 DEF WellFiled

LEMMA ToldIs ==
  ASSUME NEW d, Formed(d), NEW form, NEW r, r = Told(d, form)
  PROVE  Formed(r) /\ Alike(d, r) /\ r.profiles = d.profiles /\ (form.order => r.order = d.order)
<1>1. PICK order, omitted : order = (IF form.order THEN d.order ELSE <<>>) /\ omitted = (IF form.omission THEN d.omitted ELSE 0)
  OBVIOUS
<1>2. r = [d EXCEPT !.order = order, !.omitted = omitted]
  BY <1>1 DEF Told
<1>3. /\ DOMAIN r = DOMAIN d /\ r = [part \in DOMAIN r |-> r[part]] /\ r.order = order
      /\ \A part \in DOMAIN d : part \notin {"order", "omitted"} => r[part] = d[part]
  BY <1>2 DEF Formed, DocumentParts
<1>4. /\ r.interval = d.interval /\ r.removals = d.removals /\ r.lists = d.lists /\ r.categories = d.categories
      /\ r.memberships = d.memberships /\ r.off = d.off /\ r.words = d.words /\ r.profiles = d.profiles
      /\ r.devices = d.devices /\ r.outputs = d.outputs
  BY <1>3 DEF Formed, DocumentParts
<1>5. Formed(r)
  BY <1>3, <1>4 DEF Formed
<1>6. Alike(d, r)
  BY <1>4 DEF Alike, ProfileAlike
<1> QED
  BY <1>1, <1>3, <1>4, <1>5, <1>6

LEMMA RewriteFiles ==
  ASSUME NEW f, WellFiled(f), f.form = ThisRelease, NEW form, NEW g,
         g = [form |-> form, document |-> Told(f.document, form), origin |-> [f.origin EXCEPT !.form = form]]
  PROVE  WellFiled(g)
<1>1. PICK origin, told, moved, d : /\ origin = f.origin /\ d = f.document /\ told = Told(d, form)
                                    /\ moved = [origin EXCEPT !.form = form]
  OBVIOUS
<1>2. /\ origin = [rows |-> origin.rows, order |-> origin.order, catalog |-> origin.catalog, form |-> ThisRelease]
      /\ SoundOrigin(origin) /\ Filed(origin, d)
  BY <1>1 DEF WellFiled
<1>3. moved = [rows |-> origin.rows, order |-> origin.order, catalog |-> origin.catalog, form |-> form]
  BY <1>1, <1>2
<1>4. moved.rows = origin.rows /\ moved.order = origin.order /\ moved.catalog = origin.catalog /\ moved.form = form
  BY <1>3
<1>5. Drafted(moved) = Drafted(origin)
  BY <1>4 DEF Drafted, ReadFor
<1>6. SoundOrigin(moved)
  BY <1>2, <1>4, <1>5 DEF SoundOrigin, FoundOrigin
<1>7. Formed(told) /\ Alike(d, told) /\ told.profiles = d.profiles /\ (form.order => told.order = d.order)
  <2>1. Formed(d)
    BY <1>2 DEF Filed
  <2> QED
    BY <1>1, <2>1, ToldIs
<1>8. origin.form.order
  <2>1. origin.form = ThisRelease
    BY <1>2
  <2>2. ThisRelease.order
    BY Zenon DEF ThisRelease
  <2> QED
    BY <2>1, <2>2
<1>9. Alike(Drafted(moved), told)
  BY <1>2, <1>5, <1>7, AlikeTwice DEF Filed
<1>10. Prioritizes(moved.catalog, Drafted(moved), told)
  BY <1>2, <1>4, <1>5, <1>7 DEF Filed, Prioritizes
<1>11. moved.form.order => told.order = Drafted(moved).order
  BY <1>2, <1>4, <1>5, <1>7, <1>8 DEF Filed
<1>12. Filed(moved, told)
  BY <1>7, <1>9, <1>10, <1>11 DEF Filed
<1>13. g = [form |-> form, document |-> told, origin |-> moved]
  BY <1>1
<1> QED
  BY <1>3, <1>4, <1>6, <1>12, <1>13 DEF WellFiled

LEMMA PreparationKeeps ==
  ASSUME NEW f, WellFiled(f), NEW c, Readable(f.form), NEW d, d = Normalized(c, f.document),
         NEW kept, kept = IF CarriesDefaultPriority(f.form.version) THEN d ELSE [d EXCEPT !.order = <<>>],
         NEW name \in FreshNames(kept),
         NEW j, j = [at |-> "prepared", document |-> kept, name |-> name, origin |-> f.origin]
  PROVE  JobShape(j) /\ Prepared(c, j) /\ j.at = "prepared"
<1>1. PICK origin, document : origin = f.origin /\ document = f.document
  OBVIOUS
<1>2. origin.form = f.form /\ SoundOrigin(origin) /\ Filed(origin, document)
  BY <1>1 DEF WellFiled
<1>3. /\ Formed(d) /\ Alike(document, d) /\ d.order = document.order
      /\ \A k \in DOMAIN document.profiles :
           d.profiles[k].priority = MergePriority(document.profiles[k].priority, Ids(Ends(c, document, document.profiles[k])))
  BY <1>1, <1>2, NormalizedIs DEF Filed
<1>4. CarriesDefaultPriority(origin.form.version) => origin.form.order
  BY <1>2 DEF Readable
<1>5. Kept(c, origin, document, kept)
  <2>1. CASE CarriesDefaultPriority(f.form.version)
    <3>1. kept = d /\ CarriesDefaultPriority(origin.form.version)
      BY <1>2, <2>1
    <3>2. Formed(kept) /\ Alike(document, kept) /\ Prioritizes(c, document, kept) /\ kept.order = document.order
      BY <1>3, <3>1 DEF Prioritizes
    <3>3. origin.form.order
      BY <1>4, <3>1
    <3> QED
      BY <3>1, <3>2, <3>3, Zenon DEF Kept
  <2>2. CASE ~ CarriesDefaultPriority(f.form.version)
    <3>1. PICK none : none = <<>>
      OBVIOUS
    <3>2. PICK other : other = [d EXCEPT !.order = none]
      OBVIOUS
    <3>3. Formed(other) /\ Alike(d, other) /\ other.order = none /\ other.profiles = d.profiles
      <4>1. Formed(d)
        BY <1>3
      <4> QED
        BY <3>2, <4>1, Reordered
    <3>4. kept = other
      BY <2>2, <3>1, <3>2
    <3>5. Alike(document, kept)
      BY <1>3, <3>3, <3>4, AlikeTwice
    <3> QED
      BY <1>2, <1>3, <2>2, <3>1, <3>3, <3>4, <3>5 DEF Kept, Prioritizes
  <2> QED
    BY <2>1, <2>2
<1>6. j.document = kept /\ j.name = name /\ j.origin = origin /\ j.at = "prepared"
  BY <1>1
<1> QED
  BY <1>2, <1>5, <1>6 DEF Prepared, JobShape

LEMMA PreparedArrives ==
  ASSUME NEW c \in Catalogs, NEW j, Prepared(c, j)
  PROVE  Came(j.origin, c, Imported(j)) /\ Typed(Imported(j))
<1>1. PICK d : Filed(j.origin, d) /\ Kept(c, j.origin, d, j.document)
  BY DEF Prepared
<1>2. PICK here, kept, drawn : here = Imported(j) /\ kept = j.document /\ drawn = j.name
  OBVIOUS
<1>3. here = RowsOf(Renamed(kept, drawn)) /\ drawn \in FreshNames(kept) /\ SoundOrigin(j.origin)
  BY <1>2 DEF Imported, Prepared
<1>4. Came(j.origin, c, here)
  BY <1>1, <1>2, <1>3 DEF Came
<1> QED
  BY <1>2, <1>4, CameTyped

-----------------------------------------------------------------------------
(* The invariant.                                                          *)

\* What memory holds is what rows make of it.
Remembered(view) == \E rows : Typed(rows) /\ view = View(rows)

\* An export under way has rows it read at one time.
ReadWell(reading) == Typed(reading.rows) /\ reading.document = ReadRows(reading.rows)

\* An import that has committed holds publicationMu until memory has what it
\* wrote; nothing that waits for the mutex comes between.
Installed(i) ==
  /\ catalog[i] \in Catalogs /\ Typed(store[i]) /\ Remembered(registry[i])
  /\ export[i].at = "read" => ReadWell(export[i])
  /\ JobShape(job[i])
  /\ job[i].at # "idle" => Prepared(catalog[i], job[i])
  /\ job[i].at = "committed" => mutex[i] = "import" /\ View(store[i]) = PreparedRegistries(job[i])
  /\ up[i] /\ mutex[i] = "free" => registry[i] = View(store[i])
  /\ came[i] # NoOrigin => Came(came[i], catalog[i], store[i])

PerInstallation ==
  /\ DOMAIN catalog = Installations /\ DOMAIN store = Installations /\ DOMAIN registry = Installations
  /\ DOMAIN mutex = Installations /\ DOMAIN up = Installations /\ DOMAIN export = Installations
  /\ DOMAIN job = Installations /\ DOMAIN came = Installations

TransferInv ==
  /\ PerInstallation
  /\ file # NoFile => WellFiled(file)
  /\ \A i \in Installations : Installed(i)

LEMMA TransferInit == Init => TransferInv
<1> SUFFICES ASSUME Init PROVE TransferInv
  OBVIOUS
<1>1. PerInstallation
  BY DEF Init, PerInstallation
<1>2. ASSUME NEW i \in Installations PROVE Installed(i)
  <2>1. /\ catalog[i] \in Catalogs /\ store[i] \in Configurations /\ registry[i] = View(store[i])
        /\ export[i] = NoExport /\ job[i] = NoJob /\ came[i] = NoOrigin
    BY DEF Init
  <2>2. Typed(store[i])
    BY <2>1, ConfigurationsAreRows
  <2>3. Remembered(registry[i])
    BY <2>1, <2>2 DEF Remembered
  <2>4. JobShape(job[i]) /\ job[i].at = "idle" /\ export[i].at = "idle"
    BY <2>1 DEF NoJob, NoExport, JobShape
  <2> QED
    BY <2>1, <2>2, <2>3, <2>4 DEF Installed
<1>3. file = NoFile
  BY DEF Init
<1> QED
  BY <1>1, <1>2, <1>3 DEF TransferInv

\* Where nothing of an installation changes, what holds of it goes on holding.
Untouched(i) ==
  /\ catalog'[i] = catalog[i] /\ store'[i] = store[i] /\ registry'[i] = registry[i] /\ mutex'[i] = mutex[i]
  /\ up'[i] = up[i] /\ export'[i] = export[i] /\ job'[i] = job[i] /\ came'[i] = came[i]

\* It is enough to look at the installation a step is about.
LEMMA OneInstallation ==
  ASSUME TransferInv, PerInstallation', file' = file \/ WellFiled(file'), NEW i \in Installations, Installed(i)',
         \A k \in Installations \ {i} : Untouched(k)
  PROVE  TransferInv'
<1>1. ASSUME NEW k \in Installations, k # i PROVE Installed(k)'
  <2>1. Untouched(k) /\ Installed(k)
    BY <1>1 DEF TransferInv
  <2> QED
    BY <2>1 DEF Untouched, Installed
<1>2. file' # NoFile => WellFiled(file')
  BY DEF TransferInv
<1> QED
  BY <1>1, <1>2 DEF TransferInv

LEMMA StepOf ==
  ASSUME TransferInv, NEW i \in Installations
  PROVE  Installed(i) /\ PerInstallation
BY DEF TransferInv

\* What is drawn up is what one draws up of the rows read and the order by now.
LEMMA ExportedIs ==
  ASSUME NEW i, export[i].document = ReadRows(export[i].rows),
         NEW origin, origin = [rows |-> export[i].rows, order |-> OrderByNow(i), catalog |-> catalog[i], form |-> ThisRelease]
  PROVE  Exported(i) = Drafted(origin)
<1>1. origin.rows = export[i].rows /\ origin.order = OrderByNow(i) /\ origin.catalog = catalog[i]
  OBVIOUS
<1>2. PICK rows, order, c : rows = export[i].rows /\ order = OrderByNow(i) /\ c = catalog[i]
  OBVIOUS
<1>3. Exported(i) = CompleteTransferDefaultPriority(c, CanonicalizeTransferReferences([ReadRows(rows) EXCEPT !.order = order]))
  BY <1>2 DEF Exported
<1>4. Drafted(origin) = CompleteTransferDefaultPriority(c, CanonicalizeTransferReferences([ReadRows(rows) EXCEPT !.order = order]))
  BY <1>1, <1>2 DEF Drafted, ReadFor
<1> QED
  BY <1>3, <1>4

LEMMA OrderByNowIs ==
  ASSUME NEW i, Installed(i)
  PROVE  OrderByNow(i) \in Seq(Listed) /\ Unrepeated(OrderByNow(i))
<1>1. PICK c, view, stored, order : /\ c = catalog[i] /\ view = registry[i] /\ stored = store[i].order
                                    /\ order = DefaultPriority(c, view, stored)
  OBVIOUS
<1>2. PICK rows : Typed(rows) /\ view = View(rows)
  BY <1>1 DEF Installed, Remembered
<1>3. c \in Catalogs /\ Typed(store[i])
  BY <1>1 DEF Installed
<1>4. stored \in Seq(Listed)
  BY <1>1, <1>3, TypedTables
<1>5. order \in Seq(Listed) /\ Unrepeated(order)
  BY <1>1, <1>2, <1>3, <1>4, DefaultIs
<1> QED
  BY <1>1, <1>5 DEF OrderByNow

LEMMA SnapshotKeeps ==
  ASSUME TransferInv, NEW i \in Installations, ReadSnapshot(i)
  PROVE  TransferInv'
<1>0. Installed(i) /\ PerInstallation
  BY StepOf
<1>1. /\ export' = [export EXCEPT ![i] = [at |-> "read", document |-> ReadRows(store[i]), rows |-> store[i]]]
      /\ UNCHANGED <<catalog, store, registry, mutex, up, file, job, came>>
  BY DEF ReadSnapshot
<1>2. PerInstallation' /\ \A k \in Installations \ {i} : Untouched(k)
  BY <1>0, <1>1 DEF PerInstallation, Untouched
<1>3. export'[i] = [at |-> "read", document |-> ReadRows(store[i]), rows |-> store[i]]
  BY <1>0, <1>1 DEF PerInstallation
<1>4. ReadWell(export'[i])
  BY <1>0, <1>3 DEF ReadWell, Installed
<1>5. Installed(i)'
  BY <1>0, <1>1, <1>4 DEF Installed
<1> QED
  BY <1>1, <1>2, <1>5, OneInstallation

LEMMA ExportKeeps ==
  ASSUME TransferInv, NEW i \in Installations, FinishExport(i)
  PROVE  TransferInv'
<1>0. Installed(i) /\ PerInstallation
  BY StepOf
<1>1. PICK d, origin : /\ d = Exported(i)
                       /\ origin = [rows |-> export[i].rows, order |-> OrderByNow(i), catalog |-> catalog[i], form |-> ThisRelease]
  OBVIOUS
<1>2. /\ export[i].at = "read" /\ export' = [export EXCEPT ![i] = NoExport]
      /\ UNCHANGED <<catalog, store, registry, mutex, up, job, came>>
      /\ file' = IF ValidTransferShape(i, d, TRUE)
                 THEN [form |-> ThisRelease, document |-> Normalized(catalog[i], d), origin |-> origin]
                 ELSE file
  BY <1>1 DEF FinishExport
<1>3. PerInstallation' /\ \A k \in Installations \ {i} : Untouched(k)
  BY <1>0, <1>2 DEF PerInstallation, Untouched
<1>4. export'[i].at # "read"
  BY <1>0, <1>2 DEF PerInstallation, NoExport
<1>5. Installed(i)'
  BY <1>0, <1>2, <1>4 DEF Installed
<1>6. ASSUME ValidTransferShape(i, d, TRUE) PROVE WellFiled(file')
  <2>1. Typed(export[i].rows) /\ export[i].document = ReadRows(export[i].rows) /\ catalog[i] \in Catalogs
    BY <1>0, <1>2 DEF Installed, ReadWell
  <2>2. d = Drafted(origin)
    BY <1>1, <2>1, ExportedIs
  <2>3. PICK c, rows, order : c = catalog[i] /\ rows = export[i].rows /\ order = OrderByNow(i)
    OBVIOUS
  <2>4. ValidDraft(c, d)
    <3>1. ValidLibrary(c, d) /\ ValidProfiles(c, d) /\ ValidBindings(c, d)
      BY <1>6, <2>3 DEF ValidTransferShape
    <3>2. \A x \in d.off \cup d.words : x.list \in PortableLists(c, d)
      BY <1>6, <2>3 DEF ValidTransferShape, ValidTunings
    <3> QED
      BY <3>1, <3>2 DEF ValidDraft
  <2>5. order \in Seq(Listed) /\ Unrepeated(order)
    BY <1>0, <2>3, OrderByNowIs
  <2>6. origin = [rows |-> rows, order |-> order, catalog |-> c, form |-> ThisRelease]
    BY <1>1, <2>3
  <2>7. file' = [form |-> ThisRelease, document |-> Normalized(c, d), origin |-> origin]
    BY <1>2, <1>6, <2>3
  <2>8. c \in Catalogs /\ Typed(rows)
    BY <2>1, <2>3
  <2> QED
    BY <2>2, <2>4, <2>5, <2>6, <2>7, <2>8, ExportFiles
<1>7. file' = file \/ WellFiled(file')
  BY <1>2, <1>6
<1> QED
  BY <1>3, <1>5, <1>7, OneInstallation

LEMMA RewriteKeeps ==
  ASSUME TransferInv, NEW form, Rewrite(form)
  PROVE  TransferInv'
<1>1. /\ file # NoFile /\ file.form = ThisRelease
      /\ file' = [form |-> form, document |-> Told(file.document, form), origin |-> [file.origin EXCEPT !.form = form]]
      /\ UNCHANGED <<catalog, store, registry, mutex, up, export, job, came>>
  BY DEF Rewrite
<1>2. WellFiled(file)
  BY <1>1 DEF TransferInv
<1>3. WellFiled(file')
  BY <1>1, <1>2, RewriteFiles
<1>4. PerInstallation'
  BY <1>1 DEF TransferInv, PerInstallation
<1>5. ASSUME NEW i \in Installations PROVE Installed(i)'
  BY <1>1 DEF TransferInv, Installed
<1> QED
  BY <1>3, <1>4, <1>5 DEF TransferInv

LEMMA NothingMoves ==
  ASSUME TransferInv, UNCHANGED <<catalog, store, registry, mutex, up, export, file, job, came>>
  PROVE  TransferInv'
<1>1. PerInstallation'
  BY DEF TransferInv, PerInstallation
<1>2. ASSUME NEW i \in Installations PROVE Installed(i)'
  BY DEF TransferInv, Installed
<1>3. file' # NoFile => WellFiled(file')
  BY DEF TransferInv
<1> QED
  BY <1>1, <1>2, <1>3 DEF TransferInv

LEMMA PreparationSteps ==
  ASSUME TransferInv, NEW i \in Installations, PrepareApply(i)
  PROVE  TransferInv'
<1>0. Installed(i) /\ PerInstallation
  BY StepOf
<1>1. PICK c, d : c = catalog[i] /\ d = Normalized(c, file.document)
  OBVIOUS
<1>2. PICK kept : kept = IF CarriesDefaultPriority(file.form.version) THEN d ELSE [d EXCEPT !.order = <<>>]
  OBVIOUS
<1>3. PICK name \in FreshNames(kept) :
        job' = [job EXCEPT ![i] = [at |-> "prepared", document |-> kept, name |-> name, origin |-> file.origin]]
  BY <1>1, <1>2 DEF PrepareApply
<1>4. /\ file # NoFile /\ ValidateTransfer(i, file)
      /\ UNCHANGED <<catalog, store, registry, mutex, up, export, file, came>>
  BY DEF PrepareApply
<1>5. PerInstallation' /\ \A k \in Installations \ {i} : Untouched(k)
  BY <1>0, <1>3, <1>4 DEF PerInstallation, Untouched
<1>6. job'[i] = [at |-> "prepared", document |-> kept, name |-> name, origin |-> file.origin]
  BY <1>0, <1>3 DEF PerInstallation
<1>7. WellFiled(file) /\ Readable(file.form)
  BY <1>4 DEF TransferInv, ValidateTransfer
<1>8. JobShape(job'[i]) /\ Prepared(c, job'[i]) /\ job'[i].at = "prepared"
  BY <1>1, <1>2, <1>6, <1>7, PreparationKeeps
<1>9. Installed(i)'
  BY <1>0, <1>1, <1>4, <1>8 DEF Installed
<1> QED
  BY <1>4, <1>5, <1>9, OneInstallation

LEMMA CommitSteps ==
  ASSUME TransferInv, NEW i \in Installations, CommitTransfer(i)
  PROVE  TransferInv'
<1>0. Installed(i) /\ PerInstallation
  BY StepOf
<1>1. /\ job[i].at = "prepared" /\ mutex[i] = "free"
      /\ mutex' = [mutex EXCEPT ![i] = "import"] /\ store' = [store EXCEPT ![i] = Imported(job[i])]
      /\ job' = [job EXCEPT ![i].at = "committed"] /\ came' = [came EXCEPT ![i] = job[i].origin]
      /\ UNCHANGED <<catalog, registry, up, export, file>>
  BY DEF CommitTransfer
<1>2. PerInstallation' /\ \A k \in Installations \ {i} : Untouched(k)
  BY <1>0, <1>1 DEF PerInstallation, Untouched
<1>3. PICK j : j = job[i]
  OBVIOUS
<1>4. mutex'[i] = "import" /\ store'[i] = Imported(j) /\ came'[i] = j.origin /\ job'[i] = [j EXCEPT !.at = "committed"]
  BY <1>0, <1>1, <1>3 DEF PerInstallation
<1>5. JobShape(j) /\ Prepared(catalog[i], j) /\ catalog[i] \in Catalogs
  BY <1>0, <1>1, <1>3 DEF Installed
<1>6. job'[i] = [at |-> "committed", document |-> j.document, name |-> j.name, origin |-> j.origin]
  BY <1>4, <1>5 DEF JobShape
<1>7. /\ job'[i].at = "committed" /\ job'[i].document = j.document /\ job'[i].name = j.name /\ job'[i].origin = j.origin
      /\ JobShape(job'[i])
  BY <1>6 DEF JobShape
<1>8. Prepared(catalog[i], job'[i])
  BY <1>5, <1>7 DEF Prepared
<1>9. Came(j.origin, catalog[i], store'[i]) /\ Typed(store'[i])
  BY <1>4, <1>5, PreparedArrives
<1>10. View(store'[i]) = PreparedRegistries(job'[i])
  BY <1>4, <1>7 DEF PreparedRegistries, Imported
<1>11. Installed(i)'
  BY <1>0, <1>1, <1>4, <1>7, <1>8, <1>9, <1>10 DEF Installed
<1> QED
  BY <1>1, <1>2, <1>11, OneInstallation

LEMMA RefusalSteps ==
  ASSUME TransferInv, NEW i \in Installations, RefuseTransfer(i)
  PROVE  TransferInv'
<1>0. Installed(i) /\ PerInstallation
  BY StepOf
<1>1. job' = [job EXCEPT ![i] = NoJob] /\ UNCHANGED <<catalog, store, registry, mutex, up, export, file, came>>
  BY DEF RefuseTransfer
<1>2. PerInstallation' /\ \A k \in Installations \ {i} : Untouched(k)
  BY <1>0, <1>1 DEF PerInstallation, Untouched
<1>3. job'[i].at = "idle" /\ JobShape(job'[i])
  BY <1>0, <1>1 DEF PerInstallation, NoJob, JobShape
<1>4. Installed(i)'
  BY <1>0, <1>1, <1>3 DEF Installed
<1> QED
  BY <1>1, <1>2, <1>4, OneInstallation

LEMMA InstallationSteps ==
  ASSUME TransferInv, NEW i \in Installations, InstallTransferRegistries(i)
  PROVE  TransferInv'
<1>0. Installed(i) /\ PerInstallation
  BY StepOf
<1>1. /\ job[i].at = "committed" /\ registry' = [registry EXCEPT ![i] = PreparedRegistries(job[i])]
      /\ mutex' = [mutex EXCEPT ![i] = "free"] /\ job' = [job EXCEPT ![i] = NoJob]
      /\ UNCHANGED <<catalog, store, up, export, file, came>>
  BY DEF InstallTransferRegistries
<1>2. PerInstallation' /\ \A k \in Installations \ {i} : Untouched(k)
  BY <1>0, <1>1 DEF PerInstallation, Untouched
<1>3. job'[i].at = "idle" /\ JobShape(job'[i])
  BY <1>0, <1>1 DEF PerInstallation, NoJob, JobShape
<1>4. registry'[i] = View(store[i]) /\ Typed(store[i])
  BY <1>0, <1>1 DEF PerInstallation, Installed
<1>5. Remembered(registry'[i])
  BY <1>4 DEF Remembered
<1>6. Installed(i)'
  BY <1>0, <1>1, <1>3, <1>4, <1>5 DEF Installed
<1> QED
  BY <1>1, <1>2, <1>6, OneInstallation

LEMMA CrashSteps ==
  ASSUME TransferInv, NEW i \in Installations, Crash(i)
  PROVE  TransferInv'
<1>0. Installed(i) /\ PerInstallation
  BY StepOf
<1>1. /\ registry' = [registry EXCEPT ![i] = View(EmptyStore)] /\ up' = [up EXCEPT ![i] = FALSE]
      /\ mutex' = [mutex EXCEPT ![i] = "free"] /\ job' = [job EXCEPT ![i] = NoJob]
      /\ export' = [export EXCEPT ![i] = NoExport] /\ UNCHANGED <<catalog, store, file, came>>
  BY DEF Crash
<1>2. PerInstallation' /\ \A k \in Installations \ {i} : Untouched(k)
  BY <1>0, <1>1 DEF PerInstallation, Untouched
<1>3. /\ job'[i].at = "idle" /\ JobShape(job'[i]) /\ export'[i].at # "read" /\ ~ up'[i]
      /\ registry'[i] = View(EmptyStore)
  BY <1>0, <1>1 DEF PerInstallation, NoJob, NoExport, JobShape
<1>4. Remembered(registry'[i])
  BY <1>3, EmptyTyped DEF Remembered
<1>5. Installed(i)'
  BY <1>0, <1>1, <1>3, <1>4 DEF Installed
<1> QED
  BY <1>1, <1>2, <1>5, OneInstallation

LEMMA RestartSteps ==
  ASSUME TransferInv, NEW i \in Installations, Restart(i)
  PROVE  TransferInv'
<1>0. Installed(i) /\ PerInstallation
  BY StepOf
<1>1. /\ registry' = [registry EXCEPT ![i] = View(store[i])] /\ up' = [up EXCEPT ![i] = TRUE]
      /\ UNCHANGED <<catalog, store, mutex, export, file, job, came>>
  BY DEF Restart
<1>2. PerInstallation' /\ \A k \in Installations \ {i} : Untouched(k)
  BY <1>0, <1>1 DEF PerInstallation, Untouched
<1>3. registry'[i] = View(store[i]) /\ Typed(store[i])
  BY <1>0, <1>1 DEF PerInstallation, Installed
<1>4. Remembered(registry'[i])
  BY <1>3 DEF Remembered
<1>5. Installed(i)'
  BY <1>0, <1>1, <1>3, <1>4 DEF Installed
<1> QED
  BY <1>1, <1>2, <1>5, OneInstallation

\* A change of the library takes the mutex and goes to memory with the commit.
LEMMA LibrarySteps ==
  ASSUME TransferInv, NEW i \in Installations, NEW rows, Typed(rows), WriteLibrary(i, rows)
  PROVE  TransferInv'
<1>0. Installed(i) /\ PerInstallation
  BY StepOf
<1>1. /\ mutex[i] = "free" /\ store' = [store EXCEPT ![i] = rows] /\ came' = [came EXCEPT ![i] = NoOrigin]
      /\ registry' = [registry EXCEPT ![i] = View(rows)] /\ UNCHANGED <<catalog, mutex, up, export, file, job>>
  BY DEF WriteLibrary, Write
<1>2. PerInstallation' /\ \A k \in Installations \ {i} : Untouched(k)
  BY <1>0, <1>1 DEF PerInstallation, Untouched
<1>3. store'[i] = rows /\ registry'[i] = View(rows) /\ came'[i] = NoOrigin
  BY <1>0, <1>1 DEF PerInstallation
<1>4. Remembered(registry'[i])
  BY <1>3 DEF Remembered
<1>5. Installed(i)'
  BY <1>0, <1>1, <1>3, <1>4 DEF Installed
<1> QED
  BY <1>1, <1>2, <1>5, OneInstallation

\* Any other change leaves the library, and may come while an import installs.
LEMMA OtherSteps ==
  ASSUME TransferInv, NEW i \in Installations, NEW rows, Typed(rows), View(rows) = View(store[i]),
         Write(i, rows), UNCHANGED registry
  PROVE  TransferInv'
<1>0. Installed(i) /\ PerInstallation
  BY StepOf
<1>1. /\ store' = [store EXCEPT ![i] = rows] /\ came' = [came EXCEPT ![i] = NoOrigin]
      /\ UNCHANGED <<catalog, registry, mutex, up, export, file, job>>
  BY DEF Write
<1>2. PerInstallation' /\ \A k \in Installations \ {i} : Untouched(k)
  BY <1>0, <1>1 DEF PerInstallation, Untouched
<1>3. store'[i] = rows /\ came'[i] = NoOrigin
  BY <1>0, <1>1 DEF PerInstallation
<1>4. Installed(i)'
  BY <1>0, <1>1, <1>3 DEF Installed
<1> QED
  BY <1>1, <1>2, <1>4, OneInstallation

LEMMA EntriesFinite ==
  ASSUME NEW seq, Len(seq) \in Nat
  PROVE  IsFiniteSet(Entries(seq))
<1>1. PICK f : f = [i \in 1 .. Len(seq) |-> seq[i]]
  OBVIOUS
<1>2. f \in Surjection(1 .. Len(seq), Entries(seq))
  BY <1>1 DEF Surjection, Entries
<1>3. IsFiniteSet(1 .. Len(seq))
  BY FS_Interval
<1> QED
  BY <1>2, <1>3, FS_Surjection

LEMMA EditSteps ==
  ASSUME TransferInv, NEW i \in Installations, Edit(i)
  PROVE  TransferInv'
<1>0. Installed(i) /\ Typed(store[i])
  BY StepOf DEF Installed
<1>1. PICK rows : rows = store[i] /\ Typed(rows)
  BY <1>0
<1>2. CASE CreateCustomList(i)
  <2>1. PICK l \in Pool.lists \ DOMAIN rows.lists :
          WriteLibrary(i, [rows EXCEPT !.lists = @ ++ [k \in {l} |-> "late"]])
    BY <1>1, <1>2 DEF CreateCustomList
  <2>2. PICK late, lists : late = [k \in {l} |-> "late"] /\ lists = rows.lists ++ late
    OBVIOUS
  <2>3. DOMAIN lists = DOMAIN rows.lists \cup {l}
    BY <2>2 DEF ++
  <2>4. Typed([rows EXCEPT !.lists = lists])
    BY <1>1, <2>1, <2>3, CreationTyped, TypedTables
  <2>5. WriteLibrary(i, [rows EXCEPT !.lists = lists])
    BY <2>1, <2>2
  <2> QED
    BY <2>4, <2>5, LibrarySteps
<1>3. ASSUME NEW l, RemoveList(i, l) PROVE TransferInv'
  <2>1. PICK lists, removals, memberships, off, words, feeds :
          /\ lists = [k \in DOMAIN rows.lists \ {l} |-> rows.lists[k]]
          /\ removals = IF l \in DOMAIN rows.lists THEN rows.removals ELSE rows.removals \cup {l}
          /\ memberships = {m \in rows.memberships : m.list # l}
          /\ off = {x \in rows.off : x.list # l} /\ words = {x \in rows.words : x.list # l}
          /\ feeds = [f \in {g \in DOMAIN rows.feeds : rows.feeds[g] # l} |-> rows.feeds[f]]
    OBVIOUS
  <2>2. WriteLibrary(i, [rows EXCEPT !.lists = lists, !.removals = removals, !.memberships = memberships, !.off = off,
                                     !.words = words, !.feeds = feeds])
    BY <1>1, <1>3, <2>1 DEF RemoveList
  <2>3. /\ DOMAIN lists \subseteq DOMAIN rows.lists /\ memberships \subseteq rows.memberships
        /\ off \subseteq rows.off /\ words \subseteq rows.words
    BY <2>1
  <2>4. Typed([rows EXCEPT !.lists = lists, !.removals = removals, !.memberships = memberships, !.off = off,
                           !.words = words, !.feeds = feeds])
    BY <1>1, <2>3, RemovalTyped
  <2> QED
    BY <2>2, <2>4, LibrarySteps
<1>4. CASE SetDefaultPriority(i)
  <2>1. PICK now, order : now = OrderByNow(i) /\ order = MergePriority(<<Last(now)>>, now)
    OBVIOUS
  <2>2. Write(i, [rows EXCEPT !.order = order]) /\ UNCHANGED registry
    BY <1>1, <1>4, <2>1 DEF SetDefaultPriority
  <2>3. now \in Seq(Listed)
    BY <1>0, <2>1, OrderByNowIs
  <2>4. order \in Seq(Listed)
    <3>1. PICK n : n = Len(now)
      OBVIOUS
    <3>2. n \in Nat /\ \A k \in 1 .. n : now[k] \in Listed
      BY <2>3, <3>1
    <3>3. Entries(now) \subseteq Listed
      BY <3>1, <3>2 DEF Entries
    <3>4. IsFiniteSet(Entries(now))
      BY <3>1, <3>2, EntriesFinite
    <3>5. order \in Seq(Entries(now))
      <4>1. PICK front : front = <<Last(now)>>
        OBVIOUS
      <4>2. Len(front) \in Nat
        BY <4>1
      <4> QED
        BY <2>1, <3>1, <3>2, <3>4, <4>1, <4>2, MergeIs
    <3> QED
      BY <3>3, <3>5, WiderSequence
  <2>5. Typed([rows EXCEPT !.order = order]) /\ View([rows EXCEPT !.order = order]) = View(rows)
    BY <1>1, <2>4, OrderTyped
  <2> QED
    BY <1>1, <2>2, <2>5, OtherSteps
<1>5. ASSUME NEW t, RegisterDevice(i, t) PROVE TransferInv'
  <2>1. PICK k \in Pool.devices \ DOMAIN rows.devices :
          /\ Write(i, [rows EXCEPT !.devices = @ ++ [new \in {k} |-> [target |-> t]], !.trusted = @ \cup {k}])
          /\ UNCHANGED registry
    BY <1>1, <1>5 DEF RegisterDevice
  <2>2. PICK device, devices, trusted : /\ device = [new \in {k} |-> [target |-> t]] /\ devices = rows.devices ++ device
                                        /\ trusted = rows.trusted \cup {k}
    OBVIOUS
  <2>3. DOMAIN devices = DOMAIN rows.devices \cup {k}
    BY <2>2 DEF ++
  <2>4. Write(i, [rows EXCEPT !.devices = devices, !.trusted = trusted]) /\ UNCHANGED registry
    BY <2>1, <2>2
  <2>5. DOMAIN devices \subseteq Pool.devices
    BY <1>1, <2>1, <2>3, TypedTables
  <2>6. /\ Typed([rows EXCEPT !.devices = devices, !.trusted = trusted])
        /\ View([rows EXCEPT !.devices = devices, !.trusted = trusted]) = View(rows)
    BY <1>1, <2>5, DeviceTyped
  <2> QED
    BY <1>1, <2>4, <2>6, OtherSteps
<1> QED
  BY <1>2, <1>3, <1>4, <1>5 DEF Edit

LEMMA TransferNext == TransferInv /\ [Next]_vars => TransferInv'
<1> SUFFICES ASSUME TransferInv, [Next]_vars PROVE TransferInv'
  OBVIOUS
<1>1. ASSUME NEW i \in Installations,
             \/ ReadSnapshot(i) \/ FinishExport(i) \/ PrepareApply(i) \/ CommitTransfer(i) \/ RefuseTransfer(i)
             \/ InstallTransferRegistries(i) \/ Crash(i) \/ Restart(i) \/ Edit(i)
      PROVE  TransferInv'
  BY <1>1, SnapshotKeeps, ExportKeeps, PreparationSteps, CommitSteps, RefusalSteps, InstallationSteps, CrashSteps,
     RestartSteps, EditSteps
<1>2. ASSUME NEW i \in Installations, Preview(i) PROVE TransferInv'
  BY <1>2, NothingMoves DEF Preview
<1>3. ASSUME NEW form, Rewrite(form) PROVE TransferInv'
  BY <1>3, RewriteKeeps
<1>4. CASE UNCHANGED vars
  BY <1>4, NothingMoves DEF vars
<1> QED
  BY <1>1, <1>2, <1>3, <1>4 DEF Next

(* The invariant of a transfer: rows stay rows, a file is what some        *)
(* export drew up, an import keeps what the file says, and from its commit *)
(* until memory follows it holds publicationMu.                            *)
THEOREM TransferInvariance == Spec => []TransferInv
<1> QED
  BY TransferInit, TransferNext, PTL DEF Spec

(* ADR 0033: an import makes of an empty database what the exported one    *)
(* was, under fresh identities, for all databases, catalogs and files.     *)
THEOREM ImportKeepsTheExport == Spec => []ImportIsTheExport
<1>1. TransferInv => ImportIsTheExport
  <2> SUFFICES ASSUME TransferInv PROVE ImportIsTheExport
    OBVIOUS
  <2>1. ASSUME NEW i \in Installations, came[i] # NoOrigin PROVE IsTheExport(came[i], catalog[i], store[i])
    BY <2>1, CameIsTheExport DEF TransferInv, Installed
  <2> QED
    BY <2>1, Zenon DEF ImportIsTheExport, IsTheExport
<1> QED
  BY <1>1, TransferInvariance, PTL

(* config_transfer.go:579: what became durable is what memory holds,       *)
(* after an import, a failed one, a crash in the middle and a restart.     *)
THEOREM RegistryFollows == Spec => []RegistryIsStore
<1>1. TransferInv => RegistryIsStore
  BY DEF TransferInv, Installed, RegistryIsStore
<1> QED
  BY <1>1, TransferInvariance, PTL

=============================================================================
